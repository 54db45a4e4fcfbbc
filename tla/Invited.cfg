SPECIFICATION Spec
CONSTANTS
    i1 = i1
    i2 = i2
    p1 = p1
    f1 = f1
    f2 = f2
    r1 = r1
    r2 = r2
    Ids <- TwoInvites
    Pubs <- OnePub
    Forms <- TwoForms
    Requests <- TwoRequests
    NoForm = NoForm
    NoInvite = NoInvite
    MaxEdits = 1
SYMMETRY InviteSymmetry
INVARIANTS
    TypeOK
    CompletedIsGranted
    MembersWereInvited
PROPERTIES
    RejectionStands
