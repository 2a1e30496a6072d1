CONSTANTS
  o1 = o1
  o2 = o2
  Objects = {o1, o2}
  MaxEdits = 2
  MaxWrites = 4
  MaxRestarts = 1
  Nothing = Nothing
  r1 = r1
  r2 = r2
  r3 = r3
  u1 = u1
  u2 = u2
  c1 = c1
  c2 = c2
  k1 = k1
  Requests = {r1, r2, r3}
  Users = {u1, u2}
  Slots = {c1, c2}
  SendKeys = {k1}
  MaxSends = 2
  Unset = Unset
  t1 = t1
  page = page
  Tools = {t1}
  Schemas = {1, 2}
  Routes = {1, 2}
  Clients = {page}
  MaxChanges = 3
  x1 = x1
  x2 = x2
  f1 = f1
  f2 = f2
  Commands = {x1, x2}
  MaxBoxes = 2
  MaxFaults = 1
  Free = Free
  Paths = {f1, f2}
  BasePaths = {f1}
  MaxFileChanges = 3
  MaxContainers = 2
  Modes = {"client", "native"}
  MaxMessages = 8
  MaxInjected = 1
  MaxCuts = 2
  d1 = d1
  d2 = d2
  b1 = b1
  b2 = b2
  Digests = {d1, d2}
  Spaces = {b1, b2}
  NoDigest = NoDigest
  MaxRepublished = 1
  l1 = l1
  l2 = l2
  w1 = w1
  Legacy = {l1, l2}
  Merged = {l2}
  Things = {w1}
  MaxStops = 2
  k0 = k0
  People = {u1, u2}
  Seed = u1
  Keys = {k0, k1}
  Standalone = k0
  Filings = {f1, f2}
  MaxCalls = 4
  MaxBoots = 1
  w2 = w2
  g1 = g1
  g2 = g2
  Places = {w1, w2}
  Skills = {d1, d2}
  Bases = {b1, b2}
  Default = b1
  MaxLoads = 1
  MaxChoices = 1
  MaxItems = 3
  Deployments = {g1, g2}
  Own = g1
  Revisions = {r1, r2}
  ApiKeys = {k1}
  Makers = {u1, u2}
  Creator = u1
  Labels = {l1, l2}
  Bundles = {d1, d2}
  Tokens = {k1}
  MaxTrail = 3
  NoExtension = NoExtension
SPECIFICATION SyncSpec
INVARIANT UploadsAreKept
CHECK_DEADLOCK FALSE
