------------------------------- MODULE MCTasks -------------------------------
(***************************************************************************)
(* The deployment tasks of ProxyTasks and the scripts of ClaimScripts, in  *)
(* small families.  Tasks of different families share no state worth       *)
(* interleaving, so that a behaviour runs the tasks of one family only,    *)
(* chosen at the start: the families' state spaces add up.                 *)
(***************************************************************************)
EXTENDS ProxyTasks, ClaimScripts

CONSTANT Families \* the families that are run

VARIABLE family

mcVars == <<family, proxyVars, claimVars>>

NamesOf(f) ==
  CASE f = "gateway" -> {"full:deploy-proxy-admin", "full:deploy-boundpunk-gateway"}
    [] f = "flash claim" -> {"full:deploy-proxy-admin", "full:deploy-flashclaim-registry-v3"}
    [] f = "distribution" -> {"full:deploy-proxy-admin", "full:deploy-airdrop-distribution",
                              "verify:airdrop-distribution"}
    [] f = "receivers" -> {"full:deploy-flashclaim-receiver-v2", "verify:airdrop-flashclaim-v2"}
    [] f = "registries" -> {"full:deploy-flashclaim-registry-v1",
                            "full:deploy-flashclaim-registry-v2"}
    [] f = "mocks" -> {"dev:deploy-mock-nfts", "dev:add-mock-nfts", "verify:mock-nfts"}
    [] f = "trials" -> {"dev:deploy-mock-receiver", "dev:deploy-mock-airdrop",
                        "verify:mock-airdrops", "verify:bnft"}
    [] f = "minters" -> {"dev:deploy-mock-minters", "verify:general",
                         "verify:airdrop-flashclaim-v3", "verify:Contract"}
    [] f = "claim" -> {"azuki:claim-tiger", "clonex:bnft-mint-egg", "clonex:native-mint-egg"}
    [] f = "distribute" -> {"azuki:claim-tiger", "azuki:distribution"}
    [] f = "configure" -> {"dev:configure-airdrop-distribution"}
    [] f = "admin" -> {"admin:transfer-owner", "admin:claim-airdrop"}
    [] OTHER -> {"dev:apply-airdrop", "dev:flashloan-airdrop", "dev:snapshot-airdrop"}

FlagsOf(f) == CASE f = "distribution" -> {"keyed"}
                [] f = "trials"       -> {"no", "keyless"}
                [] OTHER              -> {"no"}

Claims == family \in {"claim", "distribute", "configure", "admin", "apply"}

\* The first token may be bound, for its user or another; the second is not.
Arrangements == {a \in [Tokens -> Users \X BOOLEAN] : /\ a[1] \in {Operator} \X BOOLEAN
                                                      /\ ~a[2][2]}
Unbound      == [t \in Tokens |-> <<Operator, FALSE>>]

\* Only where tokens are configured does it matter what the mock airdrop is of.
KindsOf(f) == CASE f = "configure" -> BOOLEAN [] f = "admin" -> {TRUE} [] OTHER -> {FALSE}

MCInit ==
  /\ family \in Families /\ ProxyInit
  /\ ClaimInit(StartWorlds(IF Claims THEN Arrangements ELSE {Unbound}, KindsOf(family)))

\* Bound: the proxy admins' task is run while there are few transactions, enough
\* for the admins and a proxy to be there.
AdminsUntil(f) == IF f = "flash claim" THEN 5 ELSE 4

Startable == {name \in NamesOf(family) :
                name = "full:deploy-proxy-admin" => Len(ledger) + Len(pool) <= AdminsUntil(family)}

MCNext ==
  \/ ~Claims /\ ProxyNext(Startable, FlagsOf(family)) /\ UNCHANGED <<family, claimVars>>
  \/ Claims /\ ClaimNext(NamesOf(family)) /\ UNCHANGED <<family, proxyVars>>

MCSpec == MCInit /\ [][MCNext]_mcVars /\ ProxyFairness /\ ClaimFairness

\* The ids an operator may give a script.
Ids == {<<1>>, <<1, 2>>}
=============================================================================
