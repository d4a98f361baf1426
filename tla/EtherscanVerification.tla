------------------------ MODULE EtherscanVerification ------------------------
(***************************************************************************)
(* The verification of one contract's source at Etherscan, with its        *)
(* retries (helpers/etherscan-verification.ts).  Tasks that deploy go      *)
(* through it with --verify, and the verification tasks consist of it.     *)
(* Etherscan itself is known by what it answers.                           *)
(***************************************************************************)
EXTENDS Naturals

CONSTANT Times \* submissions at most; 4 in verifyEtherscanContract

ASSUME TimesTyped == Times \in Nat \ {0}

VARIABLE attempt \* the verification under way

\* left: submissions left; related: only related sources are submitted.
NotVerifying == [left |-> 0, related |-> FALSE, open |-> FALSE]

Attempts == [left : 0..Times, related : BOOLEAN, open : BOOLEAN]

Verifying == attempt.open

\* What ends the retries: success, a message of okErrors or one of fatalErrors.
Final == {"verified", "ok error", "fatal error"}

\* "Fail - Unable to verify", or any other error, time outs among them.
Retried == {"unable", "error"}

Answers == Final \cup Retried

\* The key for Etherscan is set and the network is one of those it serves; it
\* is looked at outside the try, so that a task stops where it is not so.
verifyEtherscanContract ==
  /\ ~Verifying
  /\ attempt' = [NotVerifying EXCEPT !.left = Times, !.related = TRUE, !.open = TRUE]

\* The last submission is of all sources.
Related == attempt.related /\ attempt.left > 1

\* Definitions marked "faulty" are no part of the model: each is a slip the next
\* definition guards against.
\* Faulty: the submission of all sources is given retries of its own.
LeftAnew(left) == IF left = 1 THEN Times ELSE left - 1

LeftAfter(left) == left - 1

\* A submission that is answered with an error that may pass.
retry(answer) ==
  /\ Verifying /\ attempt.left > 0 /\ answer \in Retried
  /\ attempt' = [attempt EXCEPT !.left = LeftAfter(@),
                                !.related = Related /\ answer # "unable"]

\* A submission whose answer is final, or the end of all retries.  Neither
\* throws: the task that asked goes on.
resume(answer) ==
  /\ Verifying /\ (attempt.left = 0 \/ answer \in Final)
  /\ attempt' = NotVerifying
=============================================================================
