CONSTANTS
    None = None
    bob = bob
    Bob = Bob
    ann = ann
    A = A
    nowhere = nowhere
    good = good
    bad = bad
    Emails <- MCEmails
    Addresses <- MCAddresses
    Clean <- MCClean
    Teams <- MCTeams
    TeamIds <- MCTeamIds
    Passwords <- MCPasswords
    Calls <- MCCalls
    Requests = {r1, r2, r3, r4}
    AccessTTL = 1
    RefreshTTL = 2
    Faults = {"db", "ack", "save", "read"}
SPECIFICATION Spec
SYMMETRY RequestSymmetry
INVARIANTS
    TypeOK
    OneAccountPerEmail
    RegistrationAnswers
    SessionBacksTokens
    ActsAsLogin
    DeadTokensRefused
