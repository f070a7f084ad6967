----------------------------- MODULE MCAccounts -----------------------------
(***************************************************************************)
(* A small instance of Accounts: one address in two spellings and another  *)
(* one; one team and an identifier of none; two passwords.                 *)
(***************************************************************************)
EXTENDS Accounts, TLC, FiniteSets

CONSTANTS bob, Bob, ann, A, nowhere, good, bad

MCEmails == {bob, Bob, ann}
MCAddresses == {bob, ann}
MCClean == bob :> bob @@ Bob :> bob @@ ann :> ann
MCTeams == {A}
MCTeamIds == {A, nowhere}
MCPasswords == {good, bad}

Reg(email, team, password) ==
    [op |-> "register", email |-> email, team |-> team, password |-> password]
Log(email, password) ==
    [op |-> "login", email |-> email, team |-> None, password |-> password]

MCCalls == {Reg(bob, A, good), Reg(Bob, A, bad), Reg(bob, nowhere, good), Reg(None, A, good),
            Log(Bob, good), Log(bob, bad), Log(ann, good)}

RequestSymmetry == Permutations(Requests)
=============================================================================
