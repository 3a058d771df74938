SPECIFICATION Spec
CONSTANTS
  None = None
  root = root
  ann = ann
  bob = bob
  r1 = r1
  r2 = r2
  r3 = r3
  r4 = r4
  q1 = q1
  q2 = q2
  q3 = q3
  Users = {root, ann, bob}
  Superusers = {root}
  Email <- OwnEmail
  Legacy <- LegacyRole
  Roles = {r1, r2, r3, r4}
  Names = {"Admin", "Developer", "QA", "QA copy"}
  Rank <- Alphabet
  CopyNames = {"QA copy"}
  Starter <- StarterRoles
  Fallback = "Developer"
  Perms = {"roles.edit", "roles.assign"}
  Unlimited = Unlimited
  Forms <- Submitted
  Ticks <- TickedRoles
  First <- Installed
  Requests = {q1, q2, q3}
  Kinds = {"create", "edit", "clone", "delete", "assign", "admin", "default", "register", "activate", "deactivate", "seed"}
  AtOnce = 2
  MaxFaults = 1
SYMMETRY Anyone
INVARIANTS
  TypeOK
  RevokedIsGone
  WithdrawnIsGone
  UndisturbedSaveHolds
  UndisturbedAssignHolds
  NewcomerHasRole
  GoneGivesNothing
  LimitIsMostPermissive
CHECK_DEADLOCK FALSE
