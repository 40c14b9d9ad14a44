SPECIFICATION FairSpec
CONSTANTS
  r1 = r1
  r2 = r2
  r3 = r3
  r4 = r4
  ann = ann
  bob = bob
  cyd = cyd
  sales = sales
  legal = legal
  staff = staff
  o1 = o1
  o2 = o2
  Requests = {r1, r2, r3, r4}
  Operations = {o1, o2}
  Closers = {preClose, onClose}
  Actors = {ann, bob, cyd}
  Projects = {sales, legal, staff}
  tracks <- Tracks
  actorOf <- ActorOf
  projectOf <- ProjectOf
  global = 2
  actor = 1
  project = 1
INVARIANTS
  TypeOK
  CountersAreExact
  WorkIsBounded
  DrainedIsQuiet
PROPERTIES
  NoWorkAfterStop
  RoomComesBack
CHECK_DEADLOCK FALSE
