SPECIFICATION Spec
CONSTANTS
    p1 = p1
    p2 = p2
    p3 = p3
    a = a
    b = b
    c = c
    d = d
    Processes = {p1, p2, p3}
    Objects = {a, b, c, d}
    OwnerOf <- MCOwnerOf
    Nobody = Nobody
INVARIANTS TypeOK MutualExclusion NoStaleFile
PROPERTIES ImplementsMutex HonestAnswer
