SPECIFICATION FairSpec
CONSTANTS
  p1 = p1
  p2 = p2
  t1 = t1
  t2 = t2
  t3 = t3
  app = app
  lib = lib
  util = util
  old = old
  app1 = app1
  app2 = app2
  lib1 = lib1
  util1 = util1
  lib0 = lib0
  mod = mod
  body = body
  Procs = {p1, p2}
  Threads = {t1, t2}
  Home <- MCOneProcess
  Refs = {app, lib, util, old}
  Entries = {app}
  Layers = {app1, app2, lib1, util1, lib0}
  RefOf <- MCRefOf
  NameOf <- MCNameOf
  Needs <- MCNeeds
  Files = {mod, body}
  Manifest = mod
  None = None
  Resting = TRUE
  MaxMoves = 1
  MaxFaults = 1
  MaxWipes = 1
INVARIANTS PublishedComplete RaceIsHarmless
PROPERTIES FreshPull RendersResume
CHECK_DEADLOCK FALSE
