SPECIFICATION MCSpec
CONSTANTS
    alice = alice
    bob = bob
    carol = carol
    bob2 = bob2
    k1 = k1
    k2 = k2
    Packages = {alice, bob, carol, bob2}
    EndpointOf <- MCEndpointOf
    Keys = {k1, k2}
    MaxAdmins = 2
    MaxControls = 3
    MaxBatch = 2
    Founder = alice
    Times = {0, 2}
    WireMembers = 9
    MaxCheckpoints = 9
    Restarts = FALSE
    MaxClock = 2
    Cases <- MCCases
INVARIANTS
    AdministratorsRemain
    InvitationsAreRespected
    MembersAcceptTheBranch
    RetainedCheckpointsReplay
    RepliesAreUsable
CHECK_DEADLOCK FALSE
PROPERTIES
    NamesStay
    
