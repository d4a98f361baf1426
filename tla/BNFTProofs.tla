----------------------------- MODULE BNFTProofs -----------------------------
(***************************************************************************)
(* Theorems of BNFT, for any tokens, accounts and bounds.                  *)
(***************************************************************************)
EXTENDS BNFT, SequenceTheorems, TLAPS

VarsTyped ==
  /\ holder \in [Items -> Holders]
  /\ bOwner \in [Tokens -> Holders \cup {None}]
  /\ minters \in [Tokens -> Accounts \cup {None}]
  /\ approvals \in SUBSET (Accounts \X Operators)
  /\ lockings \in SUBSET (Accounts \X Tokens \X Operators)
  /\ whitelist \in SUBSET Contracts
  /\ ignoreCheck \in BOOLEAN
  /\ owner \in Accounts \cup {None}
  /\ claimAdmin \in Accounts \cup {None}
  /\ bnftRegistry \in Registries
  /\ status \in {Entered, NotEntered}
  /\ calls \in Seq(FrameType)

\* TypeOK, which speaks of the record a revert restores, variable by variable;
\* in the current state and in the next.
LEMMA TypeByVars == (TypeOK <=> VarsTyped) /\ (TypeOK' <=> VarsTyped')
<1>1. TypeOK <=> VarsTyped
  BY DEF TypeOK, VarsTyped, Storage, StorageType
<1>2. TypeOK' <=> VarsTyped'
  BY DEF TypeOK, VarsTyped, Storage, StorageType
<1> QED BY <1>1, <1>2

\* Pushing, popping and replacing the head of the stack keep its type.
LEMMA StackTyped ==
  ASSUME NEW S, NEW c \in Seq(S), NEW f \in S
  PROVE  /\ <<f>> \o c \in Seq(S)
         /\ c # << >> => Head(c) \in S /\ Tail(c) \in Seq(S)
         /\ c # << >> => <<f>> \o Tail(c) \in Seq(S)
OBVIOUS

\* What Suspend pushes is a frame.
LEMMA SuspendTyped ==
  ASSUME TypeOK, NEW fn, NEW u \in Accounts, NEW target,
         \/ fn \in {"flashLoan", "burn", "claim"} /\ target \in Contracts
         \/ fn = "executeAirdrop" /\ target \in Collections \cup {"other"},
         NEW list \in Seq(Items), NEW done \in Nat,
         Suspend(fn, u, target, list, done)
  PROVE  calls' \in Seq(FrameType) /\ status' \in {Entered, NotEntered}
<1> DEFINE f == [fn |-> fn, by |-> u, target |-> target, list |-> list,
                 done |-> done, saved |-> Storage]
<1>1. f \in FrameType BY DEF TypeOK, FrameType, Frames
<1>2. calls' = <<f>> \o calls BY DEF Suspend
<1> HIDE DEF f
<1>3. calls' \in Seq(FrameType) BY <1>1, <1>2, StackTyped DEF TypeOK
<1> QED BY <1>3 DEF Suspend

\* Popping leaves a stack of frames.
LEMMA ReturnTyped ==
  ASSUME TypeOK, calls # << >>, Return
  PROVE  calls' \in Seq(FrameType) /\ status' \in {Entered, NotEntered}
BY DEF TypeOK, Return

\* A list that a loan or a claim is called with is a sequence of its items.
LEMMA ListsAreSequences ==
  ASSUME NEW S, NEW ts \in Lists(S)
  PROVE  ts \in Seq(S) /\ Len(ts) \in Nat \ {0}
BY BoundsPositive DEF Lists

\* Init gives every variable its type.
LEMMA InitTyped == Init => TypeOK
<1> SUFFICES ASSUME Init PROVE VarsTyped BY TypeByVars
<1>1. holder \in [Items -> Holders] BY DEF Init, Holders
<1>2. /\ bOwner \in [Tokens -> Holders \cup {None}]
      /\ minters \in [Tokens -> Accounts \cup {None}]
  BY DEF Init
<1>3. calls \in Seq(FrameType) BY DEF Init
<1>4. /\ bnftRegistry \in Registries /\ owner \in Accounts \cup {None}
      /\ claimAdmin \in Accounts \cup {None} /\ status \in {Entered, NotEntered}
  BY AdminsTyped DEF Init
<1>5. /\ approvals \in SUBSET (Accounts \X Operators)
      /\ lockings \in SUBSET (Accounts \X Tokens \X Operators)
      /\ whitelist \in SUBSET Contracts /\ ignoreCheck \in BOOLEAN
  BY DEF Init
<1> QED BY <1>1, <1>2, <1>3, <1>4, <1>5 DEF VarsTyped

\* Every step keeps every variable, and every frame, in its type.
LEMMA StepTyped == TypeOK /\ [Next]_vars => TypeOK'
<1> SUFFICES ASSUME TypeOK, [Next]_vars PROVE VarsTyped' BY TypeByVars
<1> VarsTyped BY TypeByVars
<1> USE DEF VarsTyped
<1>1. CASE Bind
  <2> PICK u \in Accounts, to \in Holders, t \in Tokens : mint(u, to, t)
    BY <1>1 DEF Bind
  <2>1. holder' \in [Items -> Holders] BY DEF mint, Holders
  <2>2. /\ bOwner' \in [Tokens -> Holders \cup {None}]
        /\ minters' \in [Tokens -> Accounts \cup {None}]
    BY DEF mint, Record
  <2> QED BY <2>1, <2>2 DEF mint, auth, admin
<1>2. CASE Release
  <2> PICK u \in Accounts, t \in Tokens : burn(u, t) BY <1>2 DEF Release
  <2>1. holder' \in [Items -> Holders] BY DEF burn, Holders
  <2>2. /\ bOwner' \in [Tokens -> Holders \cup {None}]
        /\ minters' \in [Tokens -> Accounts \cup {None}]
    BY DEF burn, Erase
  <2>3. calls' \in Seq(FrameType) /\ status' \in {Entered, NotEntered}
    <3>1. CASE u \in Contracts
      <4>1. <<t>> \in Seq(Items) /\ 1 \in Nat BY DEF Items
      <4> QED BY <3>1, <4>1, SuspendTyped DEF burn
    <3>2. CASE u \notin Contracts BY <3>2 DEF burn
    <3> QED BY <3>1, <3>2
  <2> QED BY <2>1, <2>2, <2>3 DEF burn, auth, admin
<1>3. CASE burnReturns
  BY <1>3, ReturnTyped DEF burnReturns, Running, auth, admin
<1>4. CASE Borrow
  <2> PICK u \in Accounts, r \in Contracts, ts \in Lists(Tokens) :
         flashLoan(u, r, ts)
    BY <1>4 DEF Borrow
  <2>1. ts \in Seq(Items) /\ 0 \in Nat BY ListsAreSequences DEF Items
  <2>2. calls' \in Seq(FrameType) /\ status' \in {Entered, NotEntered}
    BY <2>1, SuspendTyped DEF flashLoan
  <2> QED BY <2>2 DEF flashLoan, auth, admin
<1>5. CASE lendNext \/ claimNext
  <2> DEFINE f == Head(calls)
             g == [f EXCEPT !.done = f.done + 1]
  <2>1. calls # << >> /\ f \in FrameType BY <1>5 DEF lendNext, claimNext, Running
  <2>2. g \in FrameType
    <3>1. ASSUME NEW F, NEW T, f \in Frames(F, T) PROVE g \in Frames(F, T)
      <4>1. f.done + 1 \in Nat BY <3>1 DEF Frames
      <4> QED BY <3>1, <4>1 DEF Frames
    <3> QED BY <2>1, <3>1 DEF FrameType
  <2>3. calls' = <<g>> \o Tail(calls) BY <1>5 DEF lendNext, claimNext
  <2>4. calls' \in Seq(FrameType)
    <3> HIDE DEF g
    <3> QED BY <2>1, <2>2, <2>3, StackTyped
  <2>5. f.target \in Holders
    BY <1>5, <2>1 DEF lendNext, claimNext, Running, FrameType, Frames, Holders, Accounts
  <2>6. holder' \in [Items -> Holders]
    BY <1>5, <2>5 DEF lendNext, claimNext
  <2> QED BY <1>5, <2>4, <2>6 DEF lendNext, claimNext, auth, admin
<1>6. CASE settleLoan
  <2>1. holder' \in [Items -> Holders]
    BY <1>6 DEF settleLoan, Transfer, Holders
  <2> QED BY <1>6, <2>1, ReturnTyped DEF settleLoan, Running, auth, admin
<1>7. CASE Approve
  BY <1>7 DEF Approve, setFlashLoanApproval, admin
<1>8. CASE Lock
  BY <1>8 DEF Lock, setFlashLoanLocking, admin
<1>9. CASE Claim
  <2> PICK u \in Accounts, c \in Collections, to \in Accounts :
         \/ \E i \in ERC20s : claimERC20Airdrop(u, c, to, i)
         \/ \E ids \in Lists(Tokens \cup ERC721s) : claimERC721Airdrop(u, c, to, ids)
         \/ \E i \in ERC1155s : claimERC1155Airdrop(u, c, to, i)
    BY <1>9 DEF Claim
  <2>1. CASE \E i \in ERC20s : claimERC20Airdrop(u, c, to, i)
    <3>1. holder' \in [Items -> Holders]
      BY <2>1 DEF claimERC20Airdrop, Transfer, Holders
    <3> QED BY <2>1, <3>1 DEF claimERC20Airdrop, auth, admin
  <2>2. CASE \E ids \in Lists(Tokens \cup ERC721s) : claimERC721Airdrop(u, c, to, ids)
    <3> PICK ids \in Lists(Tokens \cup ERC721s) : claimERC721Airdrop(u, c, to, ids)
      BY <2>2
    <3>1. ids \in Seq(Items) /\ 0 \in Nat
      BY ListsAreSequences DEF Items, Airdrops
    <3>2. holder' \in [Items -> Holders]
      BY DEF claimERC721Airdrop, Transfer, Holders
    <3>3. calls' \in Seq(FrameType) /\ status' \in {Entered, NotEntered}
      BY <3>1, SuspendTyped DEF claimERC721Airdrop
    <3> QED BY <3>2, <3>3 DEF claimERC721Airdrop, auth, admin
  <2>3. CASE \E i \in ERC1155s : claimERC1155Airdrop(u, c, to, i)
    <3> PICK i \in ERC1155s : claimERC1155Airdrop(u, c, to, i) BY <2>3
    <3>1. holder' \in [Items -> Holders]
      BY DEF claimERC1155Airdrop, Transfer, Holders
    <3>2. <<i>> \in Seq(Items) /\ 1 \in Nat BY DEF Items, Airdrops
    <3>3. calls' \in Seq(FrameType) /\ status' \in {Entered, NotEntered}
      BY <3>2, SuspendTyped DEF claimERC1155Airdrop
    <3> QED BY <3>1, <3>3 DEF claimERC1155Airdrop, auth, admin
  <2> QED BY <2>1, <2>2, <2>3
<1>10. CASE claimReturns
  BY <1>10, ReturnTyped DEF claimReturns, Running, auth, admin
<1>11. CASE Airdrop
  <2>1. CASE \E u \in Accounts, c \in Collections \cup {"other"} : executeAirdrop(u, c)
    <3> PICK u \in Accounts, c \in Collections \cup {"other"} : executeAirdrop(u, c)
      BY <2>1
    <3>1. << >> \in Seq(Items) /\ 0 \in Nat OBVIOUS
    <3>2. calls' \in Seq(FrameType) /\ status' \in {Entered, NotEntered}
      BY <3>1, SuspendTyped DEF executeAirdrop
    <3> QED BY <3>2 DEF executeAirdrop, auth, admin
  <2>2. CASE \E to \in Accounts, i \in Items : airdropCall(to, i)
    <3>1. holder' \in [Items -> Holders]
      BY <2>2 DEF airdropCall, Transfer, Holders
    <3> QED BY <2>2, <3>1 DEF airdropCall, auth, admin
  <2>3. CASE executeAirdropReturns
    BY <2>3, ReturnTyped DEF executeAirdropReturns, Running, auth, admin
  <2> QED BY <1>11, <2>1, <2>2, <2>3 DEF Airdrop
<1>12. CASE Administer
  <2> PICK u \in Accounts :
        \/ \E r \in Contracts, b \in BOOLEAN : setFlashLoanReceiverWhitelist(u, r, b)
        \/ \E a \in NewAdmins : transferOwnership(u, a) \/ setClaimAdmin(u, a)
        \/ renounceOwnership(u)
        \/ \E r \in Registries : setBNFTRegistry(u, r)
    BY <1>12 DEF Administer
  <2> QED
    BY AdminsTyped DEF setFlashLoanReceiverWhitelist, transferOwnership,
       setClaimAdmin, renounceOwnership, setBNFTRegistry, auth, admin
<1>13. CASE Send
  BY <1>13 DEF Send, sendItem, auth, admin
<1>14. CASE revert
  <2> DEFINE s == Head(calls).saved
  <2>1. s \in StorageType BY <1>14 DEF revert, FrameType, Frames
  <2>2. calls' \in Seq(FrameType) BY <1>14 DEF revert
  <2> QED BY <1>14, <2>1, <2>2 DEF revert, StorageType
<1>15. CASE UNCHANGED vars
  BY <1>15 DEF vars, auth, admin
<1> QED BY <1>1, <1>2, <1>3, <1>4, <1>5, <1>6, <1>7, <1>8, <1>9, <1>10, <1>11,
           <1>12, <1>13, <1>14, <1>15 DEF Next

\* Type correctness, the frames of the suspended calls included.
THEOREM TypeCorrect == Spec => []TypeOK
<1>1. Init => TypeOK BY InitTyped
<1>2. TypeOK /\ [Next]_vars => TypeOK' BY StepTyped
<1> QED BY <1>1, <1>2, PTL DEF Spec

-----------------------------------------------------------------------------
\* The inductive invariant.

\* A guarded function starts from rest: no call is open, and every bound token
\* is in custody.
LEMMA GuardedStartsAtRest ==
  ASSUME IInv, NotReentrant
  PROVE  /\ calls = << >> /\ status = NotEntered /\ ignoreCheck = FALSE
         /\ \A t \in Tokens : bOwner[t] # None => holder[t] = Self
         /\ AtRest(Storage)
<1>1. calls = << >> /\ status = NotEntered /\ ignoreCheck = FALSE
  BY DEF IInv, CallsOK, NotReentrant
<1>2. \A t \in Tokens : bOwner[t] # None => holder[t] = Self
  BY <1>1 DEF IInv, Backed, OutOnLoan
<1>3. AtRest(Storage)
  BY <1>1, <1>2 DEF IInv, MinterIffBound, AtRest, Storage
<1> QED BY <1>1, <1>2, <1>3

\* With a call open there is one frame, and it is out on loan of its list.
LEMMA OneFrame ==
  ASSUME IInv, calls # << >>
  PROVE  /\ Head(calls) \in FrameType /\ calls = <<Head(calls)>>
         /\ Tail(calls) = << >>
         /\ status = Entered /\ FrameOK(Head(calls))
         /\ \A t : OutOnLoan(t) <=> /\ Head(calls).fn = "flashLoan"
                                    /\ t \in LoanList(Head(calls))
<1>1. /\ Len(calls) = 1 /\ status = Entered /\ FrameOK(Head(calls))
      /\ calls \in Seq(FrameType)
  BY DEF IInv, CallsOK, TypeOK
<1>2. calls = <<Head(calls)>> /\ Tail(calls) = << >> /\ Head(calls) \in FrameType
  <2>1. Head(calls) \in FrameType /\ Head(calls) = calls[1] BY <1>1
  <2>2. Tail(calls) = << >>
    <3>1. Len(Tail(calls)) = 0 /\ Tail(calls) \in Seq(FrameType)
      BY <1>1, HeadTailProperties
    <3> QED BY <3>1, EmptySeq
  <2>3. calls \in [1..1 -> FrameType] BY <1>1
  <2>4. calls = <<calls[1]>> BY <2>3
  <2> QED BY <2>1, <2>2, <2>4
<1>3. DOMAIN calls = {1} /\ calls[1] = Head(calls)
  <2> PICK f : f = Head(calls) OBVIOUS
  <2>1. calls = <<f>> BY <1>2
  <2> QED BY <2>1
<1> QED BY <1>1, <1>2, <1>3 DEF OutOnLoan

\* The frame Suspend pushes, when it starts from rest and fits its function.
LEMMA SuspendFromRest ==
  ASSUME IInv, NotReentrant, NEW fn, NEW u, NEW target, NEW list, NEW done,
         Suspend(fn, u, target, list, done)
  PROVE  /\ calls' = <<[fn |-> fn, by |-> u, target |-> target, list |-> list,
                        done |-> done, saved |-> Storage]>>
         /\ status' = Entered
         /\ \A t : OutOnLoan(t)' <=> /\ fn = "flashLoan"
                                     /\ t \in Range(list)
<1> DEFINE f == [fn |-> fn, by |-> u, target |-> target, list |-> list,
                 done |-> done, saved |-> Storage]
<1>1. calls' = <<f>> BY GuardedStartsAtRest DEF Suspend
<1>2. f.fn = fn /\ f.list = list OBVIOUS
<1> HIDE DEF f
<1>3. DOMAIN calls' = {1} /\ calls'[1] = f BY <1>1
<1>4. \A t : OutOnLoan(t)' <=> /\ fn = "flashLoan"
                               /\ t \in Range(list)
  BY <1>2, <1>3 DEF OutOnLoan, LoanList, Range
<1> QED BY <1>1, <1>4 DEF Suspend, f

\* A step that leaves the stack, the guard and everything the frames speak of
\* alone, and no token leaves custody in, keeps the invariant.
LEMMA Undisturbed ==
  ASSUME IInv, TypeOK', UNCHANGED <<bOwner, minters, approvals, ignoreCheck, status, calls>>,
         \A t \in Tokens : holder[t] = Self => holder'[t] = Self
  PROVE  IInv'
<1>1. MinterIffBound' BY DEF IInv, MinterIffBound
<1>2. Backed' BY DEF IInv, Backed, OutOnLoan
<1>3. CallsOK'
  <2> PICK f : f = Head(calls) OBVIOUS
  <2>1. FrameOK(f) => FrameOK(f)' BY DEF FrameOK, LoanList
  <2> QED BY <2>1 DEF IInv, CallsOK
<1> QED BY <1>1, <1>2, <1>3 DEF IInv

\* A guarded function that calls somebody back, from rest, having kept the
\* bound tokens in custody.
LEMMA Suspends ==
  ASSUME IInv, TypeOK', NotReentrant, MinterIffBound', NEW fn, NEW u, NEW target,
         NEW list, NEW done, Suspend(fn, u, target, list, done),
         done \in 0..Len(list),
         ignoreCheck' = (fn = "executeAirdrop"),
         fn = "claim" => list \in Seq(Airdrops),
         fn = "executeAirdrop" => target # "underlying" /\ list = << >>,
         fn = "flashLoan" => /\ list \in Seq(Tokens)
                             /\ \A t \in Range(list) : bOwner[t] # None,
         fn = "burn" => \E t \in Tokens : list = <<t>> /\ bOwner[t] # None /\ Erase(t),
         fn # "burn" => UNCHANGED <<bOwner, minters>>,
         UNCHANGED approvals,
         \A t \in Tokens : bOwner'[t] # None => holder'[t] = Self,
         \A t \in Tokens \ Range(list) : holder[t] = Self => holder'[t] = Self
  PROVE  IInv'
<1> PICK f : f = [fn |-> fn, by |-> u, target |-> target, list |-> list,
                  done |-> done, saved |-> Storage]
  OBVIOUS
<1>1. calls' = <<f>> /\ status' = Entered BY SuspendFromRest
<1>2. AtRest(f.saved) BY GuardedStartsAtRest
<1>3. FrameOK(f)'
  <2>1. /\ f.saved.approvals = approvals /\ f.saved.bOwner = bOwner
        /\ f.saved.minters = minters /\ f.saved.holder = holder
    BY DEF Storage
  <2>2. f.fn = fn /\ f.list = list /\ f.done = done /\ f.target = target OBVIOUS
  <2>3. LoanList(f) = Range(list) BY <2>2 DEF LoanList
  <2>4. fn = "burn" => \E t \in Tokens :
          /\ f.list = <<t>> /\ f.saved.bOwner[t] # None
          /\ bOwner' = [f.saved.bOwner EXCEPT ![t] = None]
          /\ minters' = [f.saved.minters EXCEPT ![t] = None]
    BY <2>1, <2>2 DEF Erase
  <2>5. fn # "burn" => bOwner' = f.saved.bOwner /\ minters' = f.saved.minters
    BY <2>1
  <2>6. \A t \in Tokens \ LoanList(f) : f.saved.holder[t] = Self => holder'[t] = Self
    BY <2>1, <2>3
  <2>7. fn = "flashLoan" => \A t \in LoanList(f) : bOwner'[t] # None
    BY <2>3, <2>5
  <2> QED BY <1>2, <2>1, <2>2, <2>3, <2>4, <2>5, <2>6, <2>7 DEF FrameOK, LoanList
<1>4. Len(calls') = 1 /\ Head(calls') = f BY <1>1
<1>5. CallsOK' BY <1>1, <1>3, <1>4 DEF CallsOK
<1>6. Backed' BY DEF Backed
<1> QED BY <1>5, <1>6 DEF IInv

\* The innermost function returns, with no bound token left outside.
LEMMA Returns ==
  ASSUME IInv, TypeOK', calls # << >>, Return, ignoreCheck' = FALSE,
         UNCHANGED <<bOwner, minters>>,
         \A t \in Tokens : bOwner[t] # None => holder'[t] = Self
  PROVE  IInv'
<1>1. calls' = << >> /\ status' = NotEntered BY OneFrame DEF Return
<1> QED BY <1>1 DEF IInv, MinterIffBound, Backed, CallsOK

\* The invariant holds at deployment.
LEMMA InitInv == Init => IInv
BY InitTyped DEF Init, IInv, MinterIffBound, Backed, CallsOK

\* One step, action by action.
LEMMA StepInv == IInv /\ [Next]_vars => IInv'
<1> SUFFICES ASSUME IInv, [Next]_vars PROVE IInv' OBVIOUS
<1>0. TypeOK' BY StepTyped DEF IInv
<1> VarsTyped /\ VarsTyped' BY <1>0, TypeByVars DEF IInv
<1>0a. Self \notin Accounts /\ None \notin Accounts /\ None \notin Holders
  BY AddressesDistinct DEF Holders
<1>1. CASE Bind
  <2> PICK u \in Accounts, to \in Holders, t \in Tokens : mint(u, to, t)
    BY <1>1 DEF Bind
  <2>1. calls = << >> /\ \A x \in Tokens : bOwner[x] # None => holder[x] = Self
    BY GuardedStartsAtRest DEF mint
  <2>2. MinterIffBound'
    BY <1>0a DEF mint, Record, IInv, MinterIffBound, VarsTyped
  <2>3. Backed'
    BY <2>1 DEF mint, Record, Backed, VarsTyped, Items
  <2>4. CallsOK' BY <2>1 DEF mint, IInv, CallsOK
  <2> QED BY <1>0, <2>2, <2>3, <2>4 DEF IInv
<1>2. CASE Release
  <2> PICK u \in Accounts, t \in Tokens : burn(u, t) BY <1>2 DEF Release
  <2>1. /\ NotReentrant /\ calls = << >> /\ ignoreCheck = FALSE
        /\ \A x \in Tokens : bOwner[x] # None => holder[x] = Self
    BY GuardedStartsAtRest DEF burn
  <2>2. MinterIffBound'
    BY DEF burn, Erase, IInv, MinterIffBound, VarsTyped
  <2>3. \A x \in Tokens : bOwner'[x] # None => holder'[x] = Self
    BY <2>1 DEF burn, Erase, VarsTyped, Items
  <2>4. CASE u \in Contracts
    <3>1. Suspend("burn", u, u, <<t>>, 1) /\ ignoreCheck' = FALSE
      BY <2>1, <2>4 DEF burn
    <3>2. 1 \in 0..Len(<<t>>) OBVIOUS
    <3>3. ignoreCheck' = ("burn" = "executeAirdrop") BY <3>1
    <3>4. Erase(t) /\ bOwner[t] # None /\ UNCHANGED approvals
      BY DEF burn, MayBurn, auth
    <3>5. Range(<<t>>) = {t} BY DEF Range
    <3>6. \A x \in Tokens \ Range(<<t>>) : holder[x] = Self => holder'[x] = Self
      BY <3>5 DEF burn, VarsTyped
    <3> QED BY <1>0, <2>1, <2>2, <2>3, <3>1, <3>2, <3>3, <3>4, <3>6, Suspends
  <2>5. CASE u \notin Contracts
    <3>1. Backed' BY <2>3 DEF Backed
    <3>2. CallsOK' BY <2>1, <2>5 DEF burn, IInv, CallsOK
    <3> QED BY <1>0, <2>2, <3>1, <3>2 DEF IInv
  <2> QED BY <2>4, <2>5
<1>3. CASE burnReturns
  <2>1. calls # << >> /\ Head(calls).fn = "burn" /\ Return
    BY <1>3 DEF burnReturns, Running
  <2>2. ignoreCheck' = FALSE /\ UNCHANGED <<holder, bOwner, minters>>
    BY <1>3, <2>1, OneFrame DEF burnReturns, FrameOK
  <2>3. \A t \in Tokens : bOwner[t] # None => holder'[t] = Self
    BY <2>1, <2>2, OneFrame DEF IInv, Backed
  <2> QED BY <1>0, <2>1, <2>2, <2>3, Returns
<1>4. CASE Borrow
  <2> PICK u \in Accounts, r \in Contracts, ts \in Lists(Tokens) :
         flashLoan(u, r, ts)
    BY <1>4 DEF Borrow
  <2>1. NotReentrant /\ Suspend("flashLoan", u, r, ts, 0)
        /\ UNCHANGED <<holder, bOwner, minters, approvals, ignoreCheck>>
    BY DEF flashLoan, auth
  <2>2. ts \in Seq(Tokens) /\ 0 \in 0..Len(ts) BY ListsAreSequences
  <2>3. \A t \in Range(ts) : bOwner[t] # None
    <3>1. \A k \in DOMAIN ts : ts[k] \in Tokens BY <2>2
    <3> QED BY <3>1 DEF flashLoan, MayBorrow, IInv, MinterIffBound, Range
  <2>4. MinterIffBound' BY <2>1 DEF IInv, MinterIffBound
  <2>5. ignoreCheck' = ("flashLoan" = "executeAirdrop")
        /\ \A t \in Tokens : bOwner'[t] # None => holder'[t] = Self
    BY <2>1, GuardedStartsAtRest
  <2> QED BY <1>0, <2>1, <2>2, <2>3, <2>4, <2>5, Suspends
<1>5. CASE lendNext \/ claimNext
  <2> PICK f : f = Head(calls) OBVIOUS
  <2> PICK g : g = [f EXCEPT !.done = f.done + 1] OBVIOUS
  <2>1. calls # << >> BY <1>5 DEF lendNext, claimNext, Running
  <2>2. f \in FrameType /\ FrameOK(f) /\ status = Entered /\ Tail(calls) = << >>
    BY <2>1, OneFrame
  <2>3. calls' = <<g>>
    <3>1. calls' = <<g>> \o Tail(calls) BY <1>5 DEF lendNext, claimNext
    <3>2. <<g>> \o << >> = <<g>> OBVIOUS
    <3> QED BY <2>2, <3>1, <3>2
  <2>4. /\ UNCHANGED <<bOwner, minters, approvals, ignoreCheck, status>>
        /\ f.done < Len(f.list)
        /\ holder' = [holder EXCEPT ![f.list[f.done + 1]] = f.target]
    BY <1>5 DEF lendNext, claimNext, auth
  <2>5. g.fn = f.fn /\ g.list = f.list /\ g.saved = f.saved /\ g.done = f.done + 1
        /\ g.target = f.target
    BY <2>2 DEF FrameType, Frames
  <2>6. f.done + 1 \in 1..Len(f.list) /\ f.list \in Seq(Items)
    BY <2>2, <2>4 DEF FrameOK, FrameType, Frames
  <2>7. FrameOK(g)' BY <2>2, <2>4, <2>5, <2>6 DEF FrameOK, LoanList, Range
  <2>8. Len(calls') = 1 /\ Head(calls') = g /\ DOMAIN calls' = {1} /\ calls'[1] = g
    BY <2>3
  <2>9. CallsOK' BY <2>2, <2>4, <2>7, <2>8 DEF CallsOK
  <2>10. MinterIffBound' BY <2>4 DEF IInv, MinterIffBound
  <2>11. Backed'
    <3> SUFFICES ASSUME NEW t \in Tokens, bOwner[t] # None,
                        holder'[t] # Self, ~ OutOnLoan(t)'
                 PROVE  FALSE
      BY <2>4 DEF Backed
    <3>1. ~ (f.fn = "flashLoan" /\ t \in LoanList(f))
      <4> SUFFICES ASSUME f.fn = "flashLoan", t \in LoanList(f)
                   PROVE  OutOnLoan(t)'
        OBVIOUS
      <4>1. /\ 1 \in DOMAIN calls' /\ calls'[1].fn = "flashLoan"
            /\ t \in Range(calls'[1].list)
        BY <2>5, <2>8 DEF LoanList, Range
      <4> QED BY <4>1 DEF OutOnLoan, LoanList, Range
    <3>2. holder[t] = Self BY <2>1, <3>1, OneFrame DEF IInv, Backed
    <3>3. t = f.list[f.done + 1] BY <2>4, <3>2 DEF VarsTyped
    <3>4. t \in LoanList(f) BY <2>6, <3>3 DEF LoanList, Range
    <3>5. f.fn = "claim" BY <1>5, <3>1, <3>4 DEF lendNext, claimNext, Running
    <3>6. t \in Airdrops BY <2>2, <2>6, <3>3, <3>5 DEF FrameOK
    <3> QED BY <3>6, ItemsDistinct
  <2> QED BY <1>0, <2>9, <2>10, <2>11 DEF IInv
<1>6. CASE settleLoan
  <2>1. calls # << >> /\ Head(calls).fn = "flashLoan" /\ Return
        /\ UNCHANGED <<bOwner, minters, ignoreCheck>>
        /\ holder' = Transfer(LoanList(Head(calls)), Self)
    BY <1>6 DEF settleLoan, Running, TakesBack
  <2>2. ignoreCheck' = FALSE BY <2>1, OneFrame DEF FrameOK
  <2>3. \A t \in Tokens : bOwner[t] # None => holder'[t] = Self
    BY <2>1, OneFrame DEF IInv, Backed, Transfer, Items
  <2> QED BY <1>0, <2>1, <2>2, <2>3, Returns
<1>7. CASE Approve
  <2>1. calls = << >> BY <1>7, GuardedStartsAtRest DEF Approve, setFlashLoanApproval
  <2>2. MinterIffBound' /\ Backed'
    BY <1>7 DEF Approve, setFlashLoanApproval, IInv, MinterIffBound, Backed, OutOnLoan
  <2>3. CallsOK'
    BY <1>7, <2>1 DEF Approve, setFlashLoanApproval, IInv, CallsOK
  <2> QED BY <1>0, <2>2, <2>3 DEF IInv
<1>8. CASE Lock
  <2>1. UNCHANGED <<bOwner, minters, approvals, ignoreCheck, status, calls, holder>>
    BY <1>8 DEF Lock, setFlashLoanLocking
  <2> QED BY <1>0, <2>1, Undisturbed
<1>9. CASE Claim
  <2> PICK u \in Accounts, c \in Collections, to \in Accounts :
         \/ \E i \in ERC20s : claimERC20Airdrop(u, c, to, i)
         \/ \E ids \in Lists(Tokens \cup ERC721s) : claimERC721Airdrop(u, c, to, ids)
         \/ \E i \in ERC1155s : claimERC1155Airdrop(u, c, to, i)
    BY <1>9 DEF Claim
  <2>1. /\ NotReentrant /\ c # "underlying" /\ ItemsOf(c) \subseteq Airdrops
        /\ UNCHANGED <<bOwner, minters, approvals, ignoreCheck>>
    BY DEF claimERC20Airdrop, claimERC721Airdrop, claimERC1155Airdrop, ClaimGuard,
           ItemsOf, Airdrops, auth, Collections
  <2>2. /\ calls = << >> /\ ignoreCheck' = ("claim" = "executeAirdrop")
        /\ \A x \in Tokens : bOwner[x] # None => holder[x] = Self
    BY <2>1, GuardedStartsAtRest
  <2>3. MinterIffBound' BY <2>1 DEF IInv, MinterIffBound
  <2>4. ASSUME NEW I, I \subseteq Airdrops, holder' = Transfer(I, to)
        PROVE  /\ \A x \in Tokens : bOwner'[x] # None => holder'[x] = Self
               /\ \A x \in Tokens : holder'[x] = holder[x]
    BY <2>1, <2>2, <2>4, ItemsDistinct DEF Transfer, Items
  <2>5. CASE \E i \in ERC20s : claimERC20Airdrop(u, c, to, i)
    <3> PICK i \in ERC20s : claimERC20Airdrop(u, c, to, i) BY <2>5
    <3>1. {i} \subseteq Airdrops /\ holder' = Transfer({i}, to)
      BY DEF claimERC20Airdrop, Airdrops
    <3>2. \A x \in Tokens : holder[x] = Self => holder'[x] = Self
      BY <2>1, <2>4, <3>1
    <3> QED BY <1>0, <2>1, <3>2, Undisturbed DEF claimERC20Airdrop
  <2>6. CASE \E ids \in Lists(Tokens \cup ERC721s) : claimERC721Airdrop(u, c, to, ids)
    <3> PICK ids \in Lists(Tokens \cup ERC721s) : claimERC721Airdrop(u, c, to, ids)
      BY <2>6
    <3>1. ids \in Lists(ItemsOf(c) \cap (Tokens \cup ERC721s))
      BY DEF claimERC721Airdrop
    <3>2. ids \in Seq(Airdrops) /\ 0 \in 0..Len(ids)
      <4>1. ids \in Seq(ItemsOf(c) \cap (Tokens \cup ERC721s)) /\ Len(ids) \in Nat
        BY <3>1, ListsAreSequences
      <4> QED BY <2>1, <4>1
    <3>3. CASE Suspend("claim", u, to, ids, 0) /\ UNCHANGED holder
      <4>1. \A x \in Tokens : bOwner'[x] # None => holder'[x] = Self
        BY <2>1, <2>2, <3>3
      <4> QED BY <1>0, <2>1, <2>2, <2>3, <3>2, <3>3, <4>1, Suspends
    <3>4. CASE /\ holder' = Transfer(Range(ids), to)
               /\ UNCHANGED <<status, calls>>
      <4>1. Range(ids) \subseteq Airdrops BY <3>2 DEF Range
      <4>2. \A x \in Tokens : holder[x] = Self => holder'[x] = Self
        BY <2>1, <2>4, <3>4, <4>1
      <4> QED BY <1>0, <2>1, <3>4, <4>2, Undisturbed
    <3> QED BY <3>3, <3>4 DEF claimERC721Airdrop
  <2>7. CASE \E i \in ERC1155s : claimERC1155Airdrop(u, c, to, i)
    <3> PICK i \in ERC1155s : claimERC1155Airdrop(u, c, to, i) BY <2>7
    <3>1. i \in Airdrops /\ holder' = Transfer({i}, to)
      BY DEF claimERC1155Airdrop, Airdrops
    <3>2. /\ \A x \in Tokens : bOwner'[x] # None => holder'[x] = Self
          /\ \A x \in Tokens : holder[x] = Self => holder'[x] = Self
      BY <2>4, <3>1
    <3>3. CASE Suspend("claim", u, to, <<i>>, 1)
      <4>1. 1 \in 0..Len(<<i>>) /\ <<i>> \in Seq(Airdrops) BY <3>1
      <4>2. UNCHANGED <<bOwner, minters, approvals>> BY <2>1
      <4> QED BY <1>0, <2>1, <2>2, <2>3, <3>2, <3>3, <4>1, Suspends
    <3>4. CASE UNCHANGED <<status, calls>>
      <4> QED BY <1>0, <2>1, <3>2, <3>4, Undisturbed
    <3> QED BY <3>3, <3>4 DEF claimERC1155Airdrop
  <2> QED BY <2>5, <2>6, <2>7
<1>10. CASE claimReturns
  <2>1. calls # << >> /\ Head(calls).fn = "claim" /\ Return
        /\ UNCHANGED <<holder, bOwner, minters, ignoreCheck>>
    BY <1>10 DEF claimReturns, Running
  <2>2. ignoreCheck' = FALSE BY <2>1, OneFrame DEF FrameOK
  <2>3. \A t \in Tokens : bOwner[t] # None => holder'[t] = Self
    BY <2>1, OneFrame DEF IInv, Backed
  <2> QED BY <1>0, <2>1, <2>2, <2>3, Returns
<1>11. CASE Airdrop
  <2>1. CASE \E u \in Accounts, c \in Collections \cup {"other"} : executeAirdrop(u, c)
    <3> PICK u \in Accounts, c \in Collections \cup {"other"} : executeAirdrop(u, c)
      BY <2>1
    <3>1. /\ NotReentrant /\ c # "underlying" /\ Suspend("executeAirdrop", u, c, << >>, 0)
          /\ UNCHANGED <<holder, bOwner, minters, approvals>>
      BY DEF executeAirdrop, ClaimGuard, auth
    <3>2. ignoreCheck' = ("executeAirdrop" = "executeAirdrop") BY DEF executeAirdrop
    <3>3. MinterIffBound' BY <3>1 DEF IInv, MinterIffBound
    <3>4. \A x \in Tokens : bOwner'[x] # None => holder'[x] = Self
      BY <3>1, GuardedStartsAtRest
    <3>5. 0 \in 0..Len(<< >>) OBVIOUS
    <3> QED BY <1>0, <3>1, <3>2, <3>3, <3>4, <3>5, Suspends
  <2>2. CASE \E to \in Accounts, i \in Items : airdropCall(to, i)
    <3> PICK to \in Accounts, i \in Items : airdropCall(to, i) BY <2>2
    <3>1. /\ Head(calls).target # "underlying"
          /\ Head(calls).target \in Collections \cup {"other"}
      BY OneFrame DEF airdropCall, Running, FrameOK, FrameType, Frames
    <3>2. i \in Airdrops
      BY <3>1 DEF airdropCall, ItemsOf, Airdrops, Collections
    <3>3. \A x \in Tokens : holder'[x] = holder[x]
      BY <3>2, ItemsDistinct DEF airdropCall, Transfer, Items
    <3> QED BY <1>0, <3>3, Undisturbed DEF airdropCall, auth
  <2>3. CASE executeAirdropReturns
    <3>1. calls # << >> /\ Head(calls).fn = "executeAirdrop" /\ Return
          /\ ignoreCheck' = FALSE /\ UNCHANGED <<holder, bOwner, minters>>
      BY <2>3 DEF executeAirdropReturns, Running
    <3>2. \A t \in Tokens : bOwner[t] # None => holder'[t] = Self
      BY <3>1, OneFrame DEF IInv, Backed
    <3> QED BY <1>0, <3>1, <3>2, Returns
  <2> QED BY <1>11, <2>1, <2>2, <2>3 DEF Airdrop
<1>12. CASE Administer
  <2>1. UNCHANGED <<bOwner, minters, approvals, ignoreCheck, status, calls, holder>>
    BY <1>12 DEF Administer, setFlashLoanReceiverWhitelist, transferOwnership,
       setClaimAdmin, renounceOwnership, setBNFTRegistry, auth
  <2> QED BY <1>0, <2>1, Undisturbed
<1>13. CASE Send
  <2> PICK i \in Items, to \in Holders : sendItem(i, to) BY <1>13 DEF Send
  <2>1. \A t \in Tokens : holder[t] = Self => holder'[t] = Self
    BY <1>0a DEF sendItem, VarsTyped
  <2> QED BY <1>0, <2>1, Undisturbed DEF sendItem, auth
<1>14. CASE revert
  <2> PICK old : old = Head(calls).saved OBVIOUS
  <2>1. AtRest(old) /\ Tail(calls) = << >>
    BY <1>14, OneFrame DEF revert, FrameOK
  <2>2. /\ calls' = << >> /\ status' = old.status /\ ignoreCheck' = old.ignoreCheck
        /\ bOwner' = old.bOwner /\ minters' = old.minters /\ holder' = old.holder
    BY <1>14, <2>1 DEF revert
  <2>3. MinterIffBound' BY <2>1, <2>2 DEF AtRest, MinterIffBound
  <2>4. Backed' BY <2>1, <2>2 DEF AtRest, Backed
  <2>5. CallsOK' BY <2>1, <2>2 DEF AtRest, CallsOK
  <2> QED BY <1>0, <2>3, <2>4, <2>5 DEF IInv
<1>15. CASE UNCHANGED vars
  <2>1. UNCHANGED <<bOwner, minters, approvals, ignoreCheck, status, calls, holder>>
    BY <1>15 DEF vars, auth
  <2> QED BY <1>0, <2>1, Undisturbed
<1> QED BY <1>1, <1>2, <1>3, <1>4, <1>5, <1>6, <1>7, <1>8, <1>9, <1>10, <1>11,
           <1>12, <1>13, <1>14, <1>15 DEF Next

\* The inductive invariant holds throughout.
THEOREM Inductive == Spec => []IInv
BY InitInv, StepInv, PTL DEF Spec

-----------------------------------------------------------------------------
\* The safety properties.

\* Custody: every bNFT is backed by its token, in the contract or on loan.
THEOREM Custody == Spec => []Backed
<1>1. IInv => Backed BY DEF IInv
<1> QED BY Inductive, <1>1, PTL

\* A bNFT has a minter exactly while it exists.
THEOREM MinterExists == Spec => []MinterIffBound
<1>1. IInv => MinterIffBound BY DEF IInv
<1> QED BY Inductive, <1>1, PTL

\* The guard is set exactly while one function is suspended, never two.
THEOREM Exclusion == Spec => []OneAtATime
<1>1. IInv => OneAtATime
  BY DEF IInv, CallsOK, OneAtATime, Entered, NotEntered
<1> QED BY Inductive, <1>1, PTL

\* What a loan was checked against stays as it was until the loan ends.
THEOREM LoanFreezes == Spec => []LoanFreezesBinding
<1>1. IInv => LoanFreezesBinding
  <2> SUFFICES ASSUME IInv, NEW k \in DOMAIN calls, calls[k].fn = "flashLoan"
               PROVE  /\ approvals = calls[k].saved.approvals
                      /\ \A t \in LoanList(calls[k]) :
                           /\ bOwner[t] # None
                           /\ bOwner[t] = calls[k].saved.bOwner[t]
                           /\ minters[t] = calls[k].saved.minters[t]
    BY DEF LoanFreezesBinding
  <2>1. calls # << >> OBVIOUS
  <2>2. calls[k] = Head(calls)
    <3> PICK f : f = Head(calls) OBVIOUS
    <3>1. calls = <<f>> BY <2>1, OneFrame
    <3> QED BY <3>1
  <2>3. FrameOK(calls[k]) BY <2>1, <2>2, OneFrame
  <2>4. LoanList(calls[k]) \subseteq Tokens BY <2>3 DEF FrameOK, LoanList, Range
  <2> QED BY <2>3, <2>4 DEF FrameOK
<1> QED BY Inductive, <1>1, PTL

-----------------------------------------------------------------------------
\* The action properties.

\* A revert restores the whole storage its frame was entered with.
LEMMA RevertRestores ==
  ASSUME TypeOK, revert
  PROVE  Reverting
<1> PICK s : s = Head(calls).saved OBVIOUS
<1>1. calls # << >> /\ calls' = Tail(calls) BY DEF revert
<1>2. s \in StorageType
  <2>1. Head(calls) \in FrameType BY <1>1 DEF TypeOK
  <2> QED BY <2>1 DEF FrameType, Frames
<1>3. /\ holder' = s.holder /\ bOwner' = s.bOwner /\ minters' = s.minters
      /\ approvals' = s.approvals /\ lockings' = s.lockings
      /\ whitelist' = s.whitelist /\ ignoreCheck' = s.ignoreCheck
      /\ owner' = s.owner /\ claimAdmin' = s.claimAdmin
      /\ bnftRegistry' = s.bnftRegistry /\ status' = s.status
  BY DEF revert
<1>4. Storage' = s BY <1>2, <1>3 DEF Storage, StorageType
<1> QED BY <1>1, <1>4 DEF Reverting

\* The owner's settings are final once ownership is renounced.
THEOREM RenouncedFinal == Spec => RenouncedIsFinal
<1> DEFINE A == Reverting \/ (owner = None => /\ UNCHANGED admin
                                              /\ UNCHANGED whitelist)
<1>1. TypeOK /\ [Next]_vars => [A]_vars
  <2> SUFFICES ASSUME TypeOK, Next, owner = None
               PROVE  Reverting \/ (UNCHANGED admin /\ UNCHANGED whitelist)
    OBVIOUS
  <2>1. \A u \in Accounts : ~ OnlyOwner(u)
    BY AddressesDistinct DEF OnlyOwner, Holders
  <2>2. CASE revert BY <2>2, RevertRestores
  <2>3. CASE Bind BY <2>3 DEF Bind, mint, auth
  <2>4. CASE Release BY <2>4 DEF Release, burn, auth
  <2>5. CASE burnReturns \/ claimReturns \/ lendNext \/ claimNext \/ settleLoan
    BY <2>5 DEF burnReturns, claimReturns, lendNext, claimNext, settleLoan, auth
  <2>6. CASE Borrow BY <2>6 DEF Borrow, flashLoan, auth
  <2>7. CASE Approve BY <2>7 DEF Approve, setFlashLoanApproval
  <2>8. CASE Lock BY <2>8 DEF Lock, setFlashLoanLocking
  <2>9. CASE Claim
    BY <2>9 DEF Claim, claimERC20Airdrop, claimERC721Airdrop, claimERC1155Airdrop, auth
  <2>10. CASE Airdrop
    BY <2>10 DEF Airdrop, executeAirdrop, airdropCall, executeAirdropReturns, auth
  <2>11. CASE Administer
    BY <2>1, <2>11 DEF Administer, setFlashLoanReceiverWhitelist, transferOwnership,
       setClaimAdmin, renounceOwnership, setBNFTRegistry
  <2>12. CASE Send BY <2>12 DEF Send, sendItem, auth
  <2> QED BY <2>2, <2>3, <2>4, <2>5, <2>6, <2>7, <2>8, <2>9, <2>10, <2>11, <2>12
          DEF Next
<1> QED BY TypeCorrect, <1>1, PTL DEF Spec, RenouncedIsFinal

\* A bNFT ends only by its minter's burn, at rest, and never changes owner.
THEOREM BindingsEnd == Spec => BindingsEndByBurn
<1> DEFINE A == Reverting \/ \A t \in Tokens : BindStep(t)
<1>1. IInv /\ [Next]_vars => [A]_vars
  <2> SUFFICES ASSUME IInv, Next PROVE A OBVIOUS
  <2> VarsTyped BY TypeByVars DEF IInv
  <2>1. CASE Bind
    BY <2>1, GuardedStartsAtRest DEF Bind, mint, Record, BindStep, VarsTyped, Items
  <2>2. CASE Release
    <3> PICK u \in Accounts, t \in Tokens : burn(u, t) BY <2>2 DEF Release
    <3>1. calls = << >> BY GuardedStartsAtRest DEF burn
    <3> QED BY <3>1 DEF burn, Erase, MayBurn, BindStep, VarsTyped, Items
  <2>3. CASE revert BY <2>3, RevertRestores DEF IInv
  <2>4. ASSUME UNCHANGED bOwner PROVE A BY <2>4 DEF BindStep
  <2>5. CASE \/ burnReturns \/ claimReturns \/ lendNext \/ claimNext \/ settleLoan
             \/ Borrow \/ Approve \/ Lock
    BY <2>4, <2>5 DEF burnReturns, claimReturns, lendNext, claimNext, settleLoan,
       Borrow, flashLoan, Approve, setFlashLoanApproval, Lock, setFlashLoanLocking
  <2>6. CASE Claim
    BY <2>4, <2>6 DEF Claim, claimERC20Airdrop, claimERC721Airdrop, claimERC1155Airdrop
  <2>7. CASE Airdrop
    BY <2>4, <2>7 DEF Airdrop, executeAirdrop, airdropCall, executeAirdropReturns
  <2>8. CASE Administer
    BY <2>4, <2>8 DEF Administer, setFlashLoanReceiverWhitelist, transferOwnership,
       setClaimAdmin, renounceOwnership, setBNFTRegistry
  <2>9. CASE Send BY <2>4, <2>9 DEF Send, sendItem
  <2> QED BY <2>1, <2>2, <2>3, <2>5, <2>6, <2>7, <2>8, <2>9 DEF Next
<1> QED BY Inductive, <1>1, PTL DEF Spec, BindingsEndByBurn

\* What leaves custody was bound, or was no token of the underlying at all.
LEMMA MovesOut ==
  ASSUME IInv, NEW t \in Tokens, holder[t] = Self, lendNext \/ claimNext
  PROVE  holder'[t] = Self \/ bOwner[t] # None
<1> PICK f : f = Head(calls) OBVIOUS
<1> VarsTyped BY TypeByVars DEF IInv
<1>1. calls # << >> BY DEF lendNext, claimNext, Running
<1>2. f \in FrameType /\ FrameOK(f) BY <1>1, OneFrame
<1>3. /\ f.done < Len(f.list)
      /\ holder' = [holder EXCEPT ![f.list[f.done + 1]] = f.target]
      /\ f.fn \in {"flashLoan", "claim"}
  BY DEF lendNext, claimNext, Running
<1>4. f.done + 1 \in 1..Len(f.list) /\ f.list \in Seq(Items)
  BY <1>2, <1>3 DEF FrameOK, FrameType, Frames
<1> SUFFICES ASSUME t = f.list[f.done + 1] PROVE bOwner[t] # None
  BY <1>3 DEF VarsTyped
<1>5. CASE f.fn = "claim"
  <2>1. t \in Airdrops BY <1>2, <1>4, <1>5 DEF FrameOK
  <2> QED BY <2>1, ItemsDistinct
<1>6. CASE f.fn = "flashLoan"
  <2>1. t \in LoanList(f) BY <1>4 DEF LoanList, Range
  <2> QED BY <1>2, <1>6, <2>1 DEF FrameOK
<1> QED BY <1>3, <1>5, <1>6

\* A token in custody without a bNFT stays, whatever function runs.
LEMMA StrayStep ==
  ASSUME IInv, Next, ~ revert,
         NEW t \in Tokens, holder[t] = Self, bOwner[t] = None
  PROVE  holder'[t] = Self
<1> VarsTyped BY TypeByVars DEF IInv
<1>0. Self \notin Accounts /\ t \in Items /\ t \notin Airdrops
  BY AddressesDistinct, ItemsDistinct DEF Items
<1>1. ASSUME UNCHANGED holder PROVE holder'[t] = Self BY <1>1
<1>2. CASE Bind
  <2> PICK u \in Accounts, to \in Holders, x \in Tokens : mint(u, to, x)
    BY <1>2 DEF Bind
  <2> QED BY <1>0 DEF mint, VarsTyped
<1>3. CASE Release
  <2> PICK u \in Accounts, x \in Tokens : burn(u, x) BY <1>3 DEF Release
  <2> QED BY DEF burn, MayBurn, VarsTyped
<1>4. CASE lendNext \/ claimNext BY <1>4, MovesOut
<1>5. CASE settleLoan BY <1>0, <1>5 DEF settleLoan, Transfer
<1>6. CASE burnReturns \/ claimReturns \/ Borrow \/ Approve \/ Lock
  BY <1>1, <1>6 DEF burnReturns, claimReturns, Borrow, flashLoan, Approve,
     setFlashLoanApproval, Lock, setFlashLoanLocking
<1>7. CASE Claim
  <2> PICK u \in Accounts, c \in Collections, to \in Accounts :
         \/ \E i \in ERC20s : claimERC20Airdrop(u, c, to, i)
         \/ \E ids \in Lists(Tokens \cup ERC721s) : claimERC721Airdrop(u, c, to, ids)
         \/ \E i \in ERC1155s : claimERC1155Airdrop(u, c, to, i)
    BY <1>7 DEF Claim
  <2>1. CASE \E i \in ERC20s \cup ERC1155s : holder' = Transfer({i}, to)
    BY <1>0, <2>1 DEF Transfer, Airdrops
  <2>2. CASE \E ids \in Lists(Tokens \cup ERC721s) : claimERC721Airdrop(u, c, to, ids)
    <3> PICK ids \in Lists(Tokens \cup ERC721s) : claimERC721Airdrop(u, c, to, ids)
      BY <2>2
    <3>1. ItemsOf(c) \subseteq Airdrops /\ ids \in Lists(ItemsOf(c) \cap (Tokens \cup ERC721s))
      BY DEF claimERC721Airdrop, ClaimGuard, ItemsOf, Airdrops, Collections
    <3>2. \A k \in DOMAIN ids : ids[k] \in Airdrops BY <3>1, ListsAreSequences
    <3> QED BY <1>0, <1>1, <3>2 DEF claimERC721Airdrop, Transfer, Range
  <2> QED BY <2>1, <2>2 DEF claimERC20Airdrop, claimERC1155Airdrop
<1>8. CASE Airdrop
  <2>1. CASE \E to \in Accounts, i \in Items : airdropCall(to, i)
    <3> PICK to \in Accounts, i \in Items : airdropCall(to, i) BY <2>1
    <3>1. /\ Head(calls).target # "underlying"
          /\ Head(calls).target \in Collections \cup {"other"}
      BY OneFrame DEF airdropCall, Running, FrameOK, FrameType, Frames
    <3>2. i \in Airdrops BY <3>1 DEF airdropCall, ItemsOf, Airdrops, Collections
    <3> QED BY <1>0, <3>2 DEF airdropCall, Transfer
  <2> QED BY <1>1, <1>8, <2>1 DEF Airdrop, executeAirdrop, executeAirdropReturns
<1>9. CASE Administer
  BY <1>1, <1>9 DEF Administer, setFlashLoanReceiverWhitelist, transferOwnership,
     setClaimAdmin, renounceOwnership, setBNFTRegistry
<1>10. CASE Send
  <2> PICK i \in Items, to \in Holders : sendItem(i, to) BY <1>10 DEF Send
  <2> QED BY <1>0 DEF sendItem, VarsTyped
<1> QED BY <1>2, <1>3, <1>4, <1>5, <1>6, <1>7, <1>8, <1>9, <1>10 DEF Next

\* No function lets out a token that was sent to the contract without mint.
THEOREM StraysRemain == Spec => StraysStay
<1> DEFINE A == Reverting \/ \A t \in Tokens :
                  holder[t] = Self /\ bOwner[t] = None => holder'[t] = Self
<1>1. IInv /\ [Next]_vars => [A]_vars
  <2> SUFFICES ASSUME IInv, Next PROVE A OBVIOUS
  <2>1. CASE revert BY <2>1, RevertRestores DEF IInv
  <2>2. CASE ~ revert BY <2>2, StrayStep
  <2> QED BY <2>1, <2>2
<1> QED BY Inductive, <1>1, PTL DEF Spec, StraysStay

\* An ERC1155 asset gets into the contract only in an airdrop call.
THEOREM AirdropsByCall == Spec => ERC1155OnlyByAirdrop
<1> DEFINE A == Reverting \/ \A i \in ERC1155s :
                  holder[i] # Self /\ holder'[i] = Self => InAirdrop
<1>1. IInv /\ [Next]_vars => [A]_vars
  <2> SUFFICES ASSUME IInv, Next, ~ revert,
                      NEW i \in ERC1155s, holder[i] # Self, holder'[i] = Self
               PROVE  InAirdrop
    BY RevertRestores DEF IInv
  <2> VarsTyped BY TypeByVars DEF IInv
  <2>0. i \in Items /\ i \notin Tokens /\ Self \notin Accounts
    BY AddressesDistinct, ItemsDistinct DEF Items, Airdrops
  <2>1. ~ UNCHANGED holder OBVIOUS
  <2>2. ~ (Bind \/ Release)
    BY <2>0 DEF Bind, mint, Release, burn, VarsTyped
  <2>3. ~ (lendNext \/ claimNext)
    <3> SUFFICES ASSUME lendNext \/ claimNext PROVE FALSE OBVIOUS
    <3> PICK f : f = Head(calls) OBVIOUS
    <3>1. calls # << >> BY DEF lendNext, claimNext, Running
    <3>2. f \in FrameType BY <3>1, OneFrame
    <3>3. holder' = [holder EXCEPT ![f.list[f.done + 1]] = f.target]
          /\ f.fn \in {"flashLoan", "claim"}
      BY DEF lendNext, claimNext, Running
    <3>4. f.target \in Accounts BY <3>2, <3>3 DEF FrameType, Frames, Accounts
    <3> QED BY <2>0, <3>3, <3>4 DEF VarsTyped
  <2>4. ~ settleLoan
    <3> SUFFICES ASSUME settleLoan PROVE FALSE OBVIOUS
    <3> PICK f : f = Head(calls) OBVIOUS
    <3>1. holder' = Transfer(LoanList(f), Self) BY DEF settleLoan, TakesBack
    <3>2. f.fn = "flashLoan" /\ FrameOK(f) BY OneFrame DEF settleLoan, Running
    <3>3. i \notin LoanList(f) BY <2>0, <3>2 DEF FrameOK, LoanList, Range
    <3> QED BY <2>0, <3>1, <3>3 DEF Transfer
  <2>5. ~ (Borrow \/ Approve \/ Lock \/ burnReturns \/ claimReturns \/ Administer)
    BY <2>1 DEF Borrow, flashLoan, Approve, setFlashLoanApproval, Lock,
       setFlashLoanLocking, burnReturns, claimReturns, Administer,
       setFlashLoanReceiverWhitelist, transferOwnership, setClaimAdmin,
       renounceOwnership, setBNFTRegistry
  <2>6. ~ Claim
    BY <2>0, <2>1 DEF Claim, claimERC20Airdrop, claimERC721Airdrop,
       claimERC1155Airdrop, Transfer
  <2>7. ~ Airdrop
    BY <2>0, <2>1 DEF Airdrop, executeAirdrop, airdropCall, executeAirdropReturns,
       Transfer
  <2>8. CASE Send
    <3>1. ignoreCheck
      <4> PICK x \in Items, to \in Holders : sendItem(x, to) BY <2>8 DEF Send
      <4>1. x = i /\ to = Self BY <2>0 DEF sendItem, VarsTyped
      <4> QED BY <4>1 DEF sendItem, Accepts
    <3> PICK f : f = Head(calls) OBVIOUS
    <3>2. calls # << >> BY <3>1 DEF IInv, CallsOK
    <3>3. calls = <<f>> /\ FrameOK(f) BY <3>2, OneFrame
    <3>4. calls = <<f>> /\ f.fn = "executeAirdrop" BY <3>1, <3>3 DEF FrameOK
    <3>5. 1 \in DOMAIN calls /\ calls[1] = f BY <3>4
    <3> QED BY <3>4, <3>5 DEF InAirdrop
  <2> QED BY <2>2, <2>3, <2>4, <2>5, <2>6, <2>7, <2>8 DEF Next
<1> QED BY Inductive, <1>1, PTL DEF Spec, ERC1155OnlyByAirdrop

-----------------------------------------------------------------------------
\* The contract implements the vault.

C == HeldIn(Committed)
B == Bond(Committed)

\* Between calls the committed storage is the storage; while one is open it is
\* what the open call would be undone to.
LEMMA CommittedIs ==
  ASSUME IInv
  PROVE  /\ calls = << >> => Committed = Storage
         /\ calls # << >> => Committed = Head(calls).saved
<1>1. calls # << >> => calls[Len(calls)] = Head(calls)
  <2> SUFFICES ASSUME calls # << >> PROVE calls[Len(calls)] = Head(calls) OBVIOUS
  <2> PICK f : f = Head(calls) OBVIOUS
  <2>1. calls = <<f>> BY OneFrame
  <2> QED BY <2>1
<1> QED BY <1>1 DEF Committed

\* Keeping the bonds and what is in custody is a Receive.
LEMMA ReceiveStep ==
  ASSUME B' = B, C \subseteq C'
  PROVE  [V!Next]_<<C, B>>
<1>1. C' \subseteq Tokens BY DEF C, HeldIn
<1>2. C' = C \cup C' OBVIOUS
<1> QED BY <1>1, <1>2 DEF V!Next, V!Receive, C, B

\* Losing one bond and at most its token is a Withdraw.
LEMMA WithdrawStep ==
  ASSUME NEW t \in Tokens, B[t] # <<None, None>>,
         B' = [B EXCEPT ![t] = <<None, None>>], C \ {t} \subseteq C'
  PROVE  [V!Next]_<<C, B>>
<1>1. C' \subseteq Tokens BY DEF C, HeldIn
<1>2. C' = (C \ {t}) \cup C' OBVIOUS
<1> QED BY <1>1, <1>2 DEF V!Next, V!Withdraw, V!NoBond, C, B

\* A step of the storage itself, no call being open before or after it.
LEMMA AtomicStep ==
  ASSUME IInv, IInv', Next, calls = << >>, calls' = << >>
  PROVE  [V!Next]_<<C, B>>
<1> VarsTyped /\ VarsTyped' BY TypeByVars DEF IInv
<1>1. /\ C = {t \in Tokens : holder[t] = Self}
      /\ C' = {t \in Tokens : holder'[t] = Self}
      /\ B = [t \in Tokens |-> <<minters[t], bOwner[t]>>]
      /\ B' = [t \in Tokens |-> <<minters'[t], bOwner'[t]>>]
  BY DEF C, B, Committed, HeldIn, Bond, Storage
<1>2. Self \notin Accounts /\ Tokens \cap Airdrops = {} /\ Tokens \subseteq Items
  BY AddressesDistinct, ItemsDistinct DEF Items
<1>3. ASSUME UNCHANGED <<minters, bOwner>>,
             \A t \in Tokens : holder[t] = Self => holder'[t] = Self
      PROVE  [V!Next]_<<C, B>>
  BY <1>1, <1>3, ReceiveStep
<1>4. CASE Bind
  <2> PICK u \in Accounts, to \in Holders, t \in Tokens : mint(u, to, t)
    BY <1>4 DEF Bind
  <2>1. B[t] = <<None, None>> /\ t \notin C
    BY <1>1, <1>2 DEF mint, IInv, MinterIffBound
  <2>2. B' = [B EXCEPT ![t] = <<u, to>>] BY <1>1 DEF mint, Record, VarsTyped
  <2>3. C' = C \cup {t} BY <1>1, <1>2 DEF mint, VarsTyped
  <2>4. V!Deposit(t, u, to) BY <2>1, <2>2, <2>3 DEF V!Deposit, V!NoBond, C, B
  <2> QED BY <2>4 DEF V!Next
<1>5. CASE Release
  <2> PICK u \in Accounts, t \in Tokens : burn(u, t) BY <1>5 DEF Release
  <2>1. B[t] # <<None, None>> BY <1>1 DEF burn, MayBurn
  <2>2. B' = [B EXCEPT ![t] = <<None, None>>]
    BY <1>1 DEF burn, Erase, VarsTyped
  <2>3. C \ {t} \subseteq C' BY <1>1, <1>2 DEF burn, VarsTyped
  <2> QED BY <2>1, <2>2, <2>3, WithdrawStep
<1>6. CASE Approve \/ Lock
  BY <1>3, <1>6 DEF Approve, setFlashLoanApproval, Lock, setFlashLoanLocking
<1>7. CASE Claim
  <2>1. UNCHANGED <<minters, bOwner>>
    BY <1>7 DEF Claim, claimERC20Airdrop, claimERC721Airdrop, claimERC1155Airdrop
  <2>2. ~ revert BY DEF revert
  <2>3. \A t \in Tokens : bOwner[t] # None => holder'[t] = Self
    BY <2>1 DEF IInv, Backed, OutOnLoan
  <2>4. \A t \in Tokens : bOwner[t] = None /\ holder[t] = Self => holder'[t] = Self
    BY <2>2, StrayStep
  <2> QED BY <1>3, <2>1, <2>3, <2>4
<1>8. CASE Administer
  BY <1>3, <1>8 DEF Administer, setFlashLoanReceiverWhitelist, transferOwnership,
     setClaimAdmin, renounceOwnership, setBNFTRegistry
<1>9. CASE Send BY <1>2, <1>3, <1>9 DEF Send, sendItem, VarsTyped
<1>10. ~ /\ ~ Borrow /\ ~ Airdrop /\ ~ lendNext /\ ~ settleLoan /\ ~ claimNext
         /\ ~ claimReturns /\ ~ burnReturns /\ ~ revert
       => FALSE
  <2>1. ~ Borrow
    BY SuspendFromRest DEF Borrow, flashLoan
  <2>2. ~ Airdrop
    BY SuspendFromRest DEF Airdrop, executeAirdrop, ClaimGuard, airdropCall,
       executeAirdropReturns, Running
  <2> QED
    BY <2>1, <2>2 DEF lendNext, settleLoan, claimNext, claimReturns, burnReturns,
       revert, Running
<1> QED BY <1>4, <1>5, <1>6, <1>7, <1>8, <1>9, <1>10 DEF Next

\* The step that ends a call commits it, or undoes it.
LEMMA CommitStep ==
  ASSUME IInv, IInv', Next, calls # << >>, calls' = << >>
  PROVE  [V!Next]_<<C, B>>
<1> VarsTyped /\ VarsTyped' BY TypeByVars DEF IInv
<1> PICK f : f = Head(calls) OBVIOUS
<1> PICK s : s = f.saved OBVIOUS
<1>1. /\ C = {t \in Tokens : s.holder[t] = Self}
      /\ C' = {t \in Tokens : holder'[t] = Self}
      /\ B = [t \in Tokens |-> <<s.minters[t], s.bOwner[t]>>]
      /\ B' = [t \in Tokens |-> <<minters'[t], bOwner'[t]>>]
  <2>1. Committed = s BY CommittedIs
  <2>2. Committed' = Storage' BY DEF Committed
  <2> QED BY <2>1, <2>2 DEF C, B, HeldIn, Bond, Storage
<1>2. f \in FrameType /\ FrameOK(f) /\ s \in StorageType
  BY OneFrame DEF FrameType, Frames
<1>3. CASE revert
  <2>1. holder' = s.holder /\ minters' = s.minters /\ bOwner' = s.bOwner
    BY <1>3 DEF revert
  <2> QED BY <1>1, <2>1, ReceiveStep
<1>4. CASE burnReturns
  <2>1. f.fn = "burn" /\ UNCHANGED <<holder, minters, bOwner>>
    BY <1>4 DEF burnReturns, Running
  <2>2. PICK t \in Tokens : /\ f.list = <<t>> /\ s.bOwner[t] # None
                            /\ bOwner = [s.bOwner EXCEPT ![t] = None]
                            /\ minters = [s.minters EXCEPT ![t] = None]
    BY <1>2, <2>1 DEF FrameOK
  <2>3. LoanList(f) = {t} BY <2>2 DEF LoanList, Range
  <2>4. B[t] # <<None, None>> BY <1>1, <2>2
  <2>5. B' = [B EXCEPT ![t] = <<None, None>>]
    BY <1>1, <1>2, <2>1, <2>2 DEF StorageType
  <2>6. C \ {t} \subseteq C' BY <1>1, <1>2, <2>1, <2>3 DEF FrameOK
  <2> QED BY <2>4, <2>5, <2>6, WithdrawStep
<1>5. CASE settleLoan \/ claimReturns \/ executeAirdropReturns
  <2>1. f.fn # "burn" /\ UNCHANGED <<minters, bOwner>>
    BY <1>5 DEF settleLoan, claimReturns, executeAirdropReturns, Running
  <2>2. B' = B BY <1>1, <1>2, <2>1 DEF FrameOK
  <2>3. \A t \in Tokens : s.holder[t] = Self => holder'[t] = Self
    <3>1. CASE settleLoan
      <4>1. holder' = Transfer(LoanList(f), Self) BY <3>1 DEF settleLoan, TakesBack
      <4> QED BY <1>2, <4>1 DEF FrameOK, Transfer, Items
    <3>2. CASE claimReturns
      <4>1. UNCHANGED holder /\ f.fn = "claim" BY <3>2 DEF claimReturns, Running
      <4>2. LoanList(f) \subseteq Airdrops BY <1>2, <4>1 DEF FrameOK, LoanList, Range
      <4> QED BY <1>2, <4>1, <4>2, ItemsDistinct DEF FrameOK
    <3>3. CASE executeAirdropReturns
      <4>1. UNCHANGED holder /\ f.fn = "executeAirdrop"
        BY <3>3 DEF executeAirdropReturns, Running
      <4>2. LoanList(f) = {}
        BY <1>2, <4>1 DEF FrameOK, LoanList, Range
      <4> QED BY <1>2, <4>1, <4>2 DEF FrameOK
    <3> QED BY <1>5, <3>1, <3>2, <3>3
  <2> QED BY <1>1, <2>2, <2>3, ReceiveStep
<1>6. revert \/ burnReturns \/ settleLoan \/ claimReturns \/ executeAirdropReturns
  <2>1. ~ NotReentrant BY OneFrame DEF NotReentrant
  <2>2. ~ (Bind \/ Release \/ Borrow \/ Approve \/ Claim)
    BY <2>1 DEF Bind, mint, Release, burn, Borrow, flashLoan, Approve,
       setFlashLoanApproval, Claim, claimERC20Airdrop, claimERC721Airdrop,
       claimERC1155Airdrop, ClaimGuard
  <2>3. ~ (lendNext \/ claimNext)
    <3> SUFFICES ASSUME NEW g, calls' = <<g>> \o Tail(calls) PROVE FALSE
      BY DEF lendNext, claimNext
    <3>1. <<g>> \o << >> = <<g>> /\ <<g>> # << >> OBVIOUS
    <3> QED BY <3>1, OneFrame
  <2>4. ~ (Lock \/ Administer \/ Send)
    BY DEF Lock, setFlashLoanLocking, Administer, setFlashLoanReceiverWhitelist,
       transferOwnership, setClaimAdmin, renounceOwnership, setBNFTRegistry, Send,
       sendItem
  <2>5. Airdrop => executeAirdropReturns
    BY <2>1 DEF Airdrop, executeAirdrop, ClaimGuard, airdropCall
  <2> QED BY <2>2, <2>3, <2>4, <2>5 DEF Next
<1> QED BY <1>3, <1>4, <1>5, <1>6

\* A step that leaves a call open commits nothing.
LEMMA OpenStep ==
  ASSUME IInv, IInv', Next, calls' # << >>
  PROVE  UNCHANGED <<C, B>>
<1>0. Len(calls') = 1 BY DEF IInv, CallsOK
<1>1. ASSUME NEW g, calls' = <<g>>, g.saved = Committed
      PROVE  Committed' = Committed
  <2>1. calls'[Len(calls')] = g BY <1>1
  <2> QED BY <1>1, <2>1 DEF Committed
<1>2. ASSUME UNCHANGED calls PROVE Committed' = Committed
  <2>1. Committed' = Head(calls').saved
    <3>1. calls'[Len(calls')] = Head(calls')
      <4> PICK g : g = Head(calls) OBVIOUS
      <4>1. calls' = <<g>> BY <1>2, OneFrame
      <4> QED BY <4>1
    <3> QED BY <3>1 DEF Committed
  <2> QED BY <1>2, <2>1, CommittedIs
<1>3. ASSUME lendNext \/ claimNext PROVE Committed' = Committed
  <2> PICK f : f = Head(calls) OBVIOUS
  <2> PICK g : g = [f EXCEPT !.done = f.done + 1] OBVIOUS
  <2>1. calls # << >> BY <1>3 DEF lendNext, claimNext, Running
  <2>2. calls' = <<g>>
    <3>1. calls' = <<g>> \o Tail(calls) BY <1>3 DEF lendNext, claimNext
    <3>2. <<g>> \o << >> = <<g>> OBVIOUS
    <3> QED BY <2>1, <3>1, <3>2, OneFrame
  <2>3. g.saved = f.saved BY <2>1, OneFrame DEF FrameType, Frames
  <2> QED BY <1>1, <2>1, <2>2, <2>3, CommittedIs
<1>4. ASSUME NEW fn, NEW u, NEW target, NEW list, NEW done, NotReentrant,
             Suspend(fn, u, target, list, done)
      PROVE  Committed' = Committed
  <2> PICK g : g = [fn |-> fn, by |-> u, target |-> target, list |-> list,
                    done |-> done, saved |-> Storage]
    OBVIOUS
  <2>1. calls' = <<g>> BY <1>4, SuspendFromRest
  <2>2. g.saved = Committed BY <1>4, GuardedStartsAtRest, CommittedIs
  <2> QED BY <1>1, <2>1, <2>2
<1>5. ~ (burnReturns \/ settleLoan \/ claimReturns \/ executeAirdropReturns \/ revert)
  <2>1. calls # << >> => Tail(calls) = << >> BY OneFrame
  <2> QED
    BY <2>1 DEF burnReturns, settleLoan, claimReturns, executeAirdropReturns, revert,
       Running, Return
<1>6. Committed' = Committed
  <2>1. CASE Bind \/ Approve \/ Lock \/ Administer \/ Send
    BY <1>2, <2>1 DEF Bind, mint, Approve, setFlashLoanApproval, Lock,
       setFlashLoanLocking, Administer, setFlashLoanReceiverWhitelist,
       transferOwnership, setClaimAdmin, renounceOwnership, setBNFTRegistry, Send,
       sendItem
  <2>2. CASE Release BY <1>2, <1>4, <2>2 DEF Release, burn
  <2>3. CASE Borrow BY <1>4, <2>3 DEF Borrow, flashLoan
  <2>4. CASE Claim
    BY <1>2, <1>4, <2>4 DEF Claim, claimERC20Airdrop, claimERC721Airdrop,
       claimERC1155Airdrop, ClaimGuard
  <2>5. CASE Airdrop
    BY <1>2, <1>4, <1>5, <2>5 DEF Airdrop, executeAirdrop, ClaimGuard, airdropCall
  <2> QED BY <1>3, <1>5, <2>1, <2>2, <2>3, <2>4, <2>5 DEF Next
<1> QED BY <1>6 DEF C, B

\* The bNFT contract is a vault: every step commits a deposit, a receipt or a
\* withdrawal, or nothing.
THEOREM Refinement == Spec => ImplementsVault
<1>1. Init => V!Init
  BY AddressesDistinct DEF Init, V!Init, V!NoBond, Committed, HeldIn, Bond, Storage,
     Items, Holders
<1>2. IInv /\ IInv' /\ [Next]_vars => [V!Next]_<<C, B>>
  <2> SUFFICES ASSUME IInv, IInv', [Next]_vars PROVE [V!Next]_<<C, B>> OBVIOUS
  <2>1. CASE Next
    BY <2>1, AtomicStep, CommitStep, OpenStep
  <2>2. CASE UNCHANGED vars
    BY <2>2 DEF vars, auth, admin, C, B, Committed, HeldIn, Bond, Storage
  <2> QED BY <2>1, <2>2
<1> QED BY Inductive, <1>1, <1>2, PTL DEF Spec, ImplementsVault, V!Spec, C, B

=============================================================================
