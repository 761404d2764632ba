\* Four requests; two addresses besides the admin's, two sites, one removable.
CONSTANTS
  Emails = {adminMail, ann, bea}
  Sites = {s1, s2}
  Requests = {r1, r2, r3, r4}
  Admin = admin
  AdminEmail = adminMail
  NoSite = NoSite
  Nobody = Nobody
  Removable = {s2}
SPECIFICATION Spec
SYMMETRY Symmetry
INVARIANTS
  OneCoachPerSite
  InviteRedeemedOnce
  SitesAreKnown
PROPERTY
  ImplementsRegistry
CHECK_DEADLOCK FALSE
