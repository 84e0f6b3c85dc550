CONSTANTS
  k1 = k1
  k2 = k2
  h1 = h1
  h2 = h2
  NoState = NoState
  Absent = Absent
  Nil = Nil
  States = {NoState, asking}
  Keys = {k1}
  Fields = {name}
  Values = {ok}
  Unmarshalable = {}
  TTL = 3
  Handlers = {h1}
  OwnKey <- MCOwnKey
  Reach <- MCOwnOnly
SPECIFICATION Spec
PROPERTY NeverMidFlow
