SPECIFICATION Spec
CONSTANTS
  Publishers = {c1}
  Players = {p1}
  Adapters = {a1}
  Sources = {s1, s2}
  None = None
  Cleanup = 1
  IdleTimeout = 1
INVARIANT AdapterReachable
