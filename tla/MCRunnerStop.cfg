CONSTANTS
    c1 = c1  c2 = c2  c3 = c3  c4 = c4  c5 = c5  p1 = p1  p2 = p2  p3 = p3
    none = none  one = one  two = two
    s0 = s0  s1 = s1  s2 = s2  t2 = t2
    Pod = {p1, p2, p3}
    Lists <- ListsOf
    Registry = {none, one, two}
    Built <- BuiltOf
    MaxRunning = 1
SPECIFICATION RSpec
PROPERTY EveryStartIsServed
CHECK_DEADLOCK FALSE
