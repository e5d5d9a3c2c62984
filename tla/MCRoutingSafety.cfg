SPECIFICATION Spec
CONSTANTS
    Agents = {"a1", "a2"}
    Rank <- Order
    Target = "a1"
    Users = {"u", "admin"}
    Nobody = "nobody"
    Admins = {"admin"}
    Msgs = {1, 2}
    Arrivals <- Incoming
    Setups <- Wirings
    Policies = {"strict", "request_approval", "public"}
    IsGroup = TRUE
    MaxFaults = 1

CHECK_DEADLOCK FALSE

 
INVARIANT ApprovedReachesInbox
INVARIANT NoSilentLoss
INVARIANT CardsAreOpen
