SPECIFICATION FairSpec
CONSTANTS
    m1 = m1
    m2 = m2
    c1 = c1
    c2 = c2
    none = none
    Cpu = {c1, c2}
    Mm = {m1, m2}
    Addr = {0, 1}
    Vmalloc = {0}
    Top <- TwoTops
    None = none
INVARIANTS NoBadArea CopiesAgree
PROPERTY AccessEnds
