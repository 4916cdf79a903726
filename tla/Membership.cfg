\* Invites, members, ownership and deletions, two requests at a time.
SPECIFICATION Spec
CONSTANTS
  None = None
  Founder = alice
  Guest = bob
  Users = {alice, bob, carol}
  Home = home
  Workspaces = {home, spare}
  Links = {l1}
  Mails = {m1}
  MaxUses = 1
  Requests = {r1, r2}
\* Everything may be deleted.
CHECK_DEADLOCK FALSE
INVARIANTS
  JoinsAreCounted
  OvershootIsBounded
  AtMostOneOwner
PROPERTIES
  OwnershipIsKept
