----------------------------- MODULE MCAccounts -----------------------------
(* What the runs of Accounts change of an account, and their symmetry.       *)
EXTENDS Accounts, TLC

Promoted == [role |-> "owner", disabled |-> FALSE]
Demoted  == [role |-> "other", disabled |-> FALSE]
Disabled == [role |-> "owner", disabled |-> TRUE]

Changes == {Promoted, Demoted, Disabled}

Symmetry == {f @@ g @@ h : f \in Permutations(Request), g \in Permutations(Session),
                           h \in Permutations(Password)}
=============================================================================
