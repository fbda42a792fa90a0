SPECIFICATION Spec
CONSTANTS
  User = {u1, u2}
  Message = {m1, m2}
  Address = {a1, a2}
  New = New
  Gone = Gone
  Faults = {"statement", "flush", "crash"}
  MaxFaults = 2
  MaxPraise = 3
INVARIANTS
  TypeOK
  PraiseCounted
  OneDefault
