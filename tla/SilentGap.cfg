SPECIFICATION CSpec
CONSTANTS
  c1 = c1
  s1 = s1
  s2 = s2
  p1 = p1
  p2 = p2
  Publishers = {p1, p2}
  Clients = {c1}
  Streams = {s1, s2}
  ClientOf <- MCClientOf
  Topics = {"download", "auth"}
  Wants <- MCWants
  Cap = 2
  Buf = 1
  MaxEvents = 2
  MaxRestarts = 0
INVARIANTS NoSilentGap
