----------------------------- MODULE MCAccounts -----------------------------
\* Accounts on the instances TLC checks.
EXTENDS Accounts, TLC

\* Handlers are interchangeable.
HandlerSymmetry == Permutations(Handlers)
============================================================================
