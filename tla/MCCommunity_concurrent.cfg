\* Two handlers at a time; the owner of a community and an admin.
SPECIFICATION Spec
CONSTANTS
    w1 = w1
    w2 = w2
    NoRow = NoRow
    Users = {"ann", "bob"}
    Admins = {"bob"}
    Moderators = {}
    Names = {"Club", "club", "Two"}
    SlugOf <- SlugsOfNames
    NumberOf <- Numbers
    Workers = {w1, w2}
    Faults = {}
    MaxCommunity = 2
    MaxMember = 3
    MaxRequests = 5
SYMMETRY Symmetry
CHECK_DEADLOCK FALSE
INVARIANT TypeOK
INVARIANT OwnerModerates
INVARIANT OnlyRacesSplitName
PROPERTY ModeratorsAreAppointed
PROPERTY DeletionIsTold
