SPECIFICATION UnfailingSpec
CONSTANTS
    Thread = {t1, t2}
    Invitation = {i1, i2}
    NoThread = NoThread
    NoInvitation = NoInvitation
SYMMETRY Symmetry
PROPERTIES AccessesAreRevoked
