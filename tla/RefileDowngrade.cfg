SPECIFICATION RefileSpec
CONSTANTS
    s1 = s1
    o1 = o1
    e1 = e1
    e2 = e2
    p1 = p1
    p2 = p2
    k1 = k1
    k2 = k2
    k3 = k3
    j1 = j1
    j2 = j2
    j3 = j3
    d1 = d1
    b1 = b1
    b2 = b2
    Subs = {}
    Papers = {s1, o1}
    Edits = {e1, e2}
    MaxEdits = 2
    Ops = {"identify", "refresh"}
    Nobody = Nobody
    Writers = {s1, o1, e1, e2}
    Contents = {p1, p2}
    Keys = {k1, k2, k3, j1, j2, j3}
    Bases = {b1, b2}
    Idents = {d1}
    Variants <- MCVariants
    Prior <- MCPrior
    Disposal <- MCDisposal
    Metas <- MCMetas
    NoRow = NoRow
    NoBase = NoBase
    Absent = Absent
    NoContent = NoContent
    NoMeta = NoMeta
    NoPath = NoPath
PROPERTY NoDowngrade
CHECK_DEADLOCK FALSE
