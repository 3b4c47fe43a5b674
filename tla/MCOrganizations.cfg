CONSTANTS
    Principals = {p1, p2, p3}
    Invitations = {i1, i2}
    Requests = {r1, r2}
    Orgs = {1, 2, 3}
    NoId = NoId
    Ops = {"create", "invite", "accept", "change"}
    Ttl = 1
    MaxTime = 1
SPECIFICATION MCSpec
INVARIANTS
    OrganizationsAreSound
PROPERTIES
    MembershipIsGranted
    AuthorityAtCommit
SYMMETRY Symmetry
