CONSTANTS
  Keys = {k1, k2}
  k1 = k1
  k2 = k2
  h1 = h1
  h2 = h2
  NoState = NoState
  States = {NoState, asking}
  Fields = {name, age}
  Values = {ok, chan}
  Unmarshalable = {chan}
  Absent = Absent
  Nil = Nil
  MemoryTTL = 1
  MapHandlers = {h1}
  Refs = {r1, r2, r3, r4, r5}
  RedisTTL = 2
  RedisHandlers = {h1, h2, h3}
  OwnKey <- MCOwnKey
  Reach <- MCOwnOnly
  Callers = {c1, c2}
  None = None
  defaultCallTimeout = 2
  autoRetryMaxWait = 3
  RetryAfters = {1, 2}
  Members = {m1}
  ttl = 2
  Nobody = Nobody
  Burst = 4
  Cost = 2
  IdleTTL = 2
  Second = 1
  Starters = {s1, s2}
  Workers = {w1, w2}
  MaxQueued = 1
  Routers = {main, admin, shop}
  Root = main
  Leaves = {x}
  Walkers = {g1, g2}
  MaxRoutes = 2
  Empty = Empty
  Languages = {"en", "ru", "fr"}
  Regions = {"GB", "RU"}
  Slavic = {"ru"}
  Words = {"start", "START", "stop", "bot", "other"}
  Lower <- MCLower
  TextLength = 4
  Limits = {1, 2, 3}
  Plain = Plain
  NoText = NoText
  MaxHtml = 9
  MaxBlocks = 3
  MaxDepth = 1
  MaxColumns = 1
  Letters = {"a", "b"}
  MaxCallbackDataLength = 7
  MaxInt = 15
VIEW View
SYMMETRY Symmetry
SPECIFICATION MCSpec
INVARIANT RetriesFit
INVARIANT VerdictsAreRecent
INVARIANT StopIsFinal
INVARIANT FrozenForGood
INVARIANT TextSurvives
INVARIANT RendersRight
INVARIANT ButtonsWork
INVARIANT TextsFitTheUser
INVARIANT FiltersRight
PROPERTY MemoryKeepsPromise
PROPERTY RedisKeepsPromise
PROPERTY KeepsRate
