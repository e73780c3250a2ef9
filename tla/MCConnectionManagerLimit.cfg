CONSTANTS
    c1 = c1
    c2 = c2
    c3 = c3
    Conns <- ThreeConns
    MaxConcurrent = 1
    IntMax = 1
SPECIFICATION Spec
SYMMETRY Symmetry
INVARIANT WithinLimit
