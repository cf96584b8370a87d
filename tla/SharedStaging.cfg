SPECIFICATION CacheSpec
CONSTANTS
    Items = {i1}
    Versions = {v1}
    Sound = {good1}
    Broken = {bad1}
    Commands = {c1, c2}
INVARIANT
    OnlyOnceItPasses
CHECK_DEADLOCK FALSE
