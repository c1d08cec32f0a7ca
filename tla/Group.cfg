\* Two processes of one member: joins by key packages, a store that is set back, and an
\* outbox with two commits.
SPECIFICATION MCSpec
CONSTANTS
  Owner = {o1, o2}
  Op = {a, b, c, d}
  Second = d
  Removal = {c}
  Adding = {b}
  Package = {p}
  Windows = {1, 2}
  MaxEpoch = 2
  MaxOutbox = 2
  MaxReplay = 3
  MaxFaults = 1
  MaxBackups = 1
INVARIANTS OneLine PromisesKept
PROPERTIES RefinesLineage OutboxDrains
CHECK_DEADLOCK FALSE
