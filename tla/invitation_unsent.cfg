SPECIFICATION UnfailingSpec
CONSTANTS
    Thread = {t1}
    Invitation = {i1, i2}
    NoThread = NoThread
    NoInvitation = NoInvitation
SYMMETRY Symmetry
INVARIANTS InvitationIsSent
