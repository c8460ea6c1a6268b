SPECIFICATION Spec
CONSTANTS
    Thread = {t1, t2}
    Invitation = {i1, i2, i3}
    NoThread = NoThread
    NoInvitation = NoInvitation
SYMMETRY Symmetry
VIEW WithoutMessage
INVARIANTS OneSessionPerInvitation CirclesAreOfUpdates
PROPERTIES NoSessionForInactive InvitationsAreReplaced ImplementsInvitations
