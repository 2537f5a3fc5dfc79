SPECIFICATION FairSpec
CONSTANTS
    s1 = s1
    s2 = s2
    old = old
    p1 = p1
    p2 = p2
    k1 = k1
    k2 = k2
    k3 = k3
    d1 = d1
    b1 = b1
    Subs = {s1, s2}
    Papers = {s1, s2, old}
    Writers = {s1, s2, old}
    Contents = {p1, p2}
    Keys = {k1, k2, k3}
    Bases = {b1}
    Idents = {d1}
    Variants <- MCVariants
    Prior <- MCPrior
    Disposal <- MCDisposal
    Metas <- MCMetas
    NoRow = NoRow
    NoBase = NoBase
    Absent = Absent
    NoContent = NoContent
    NoMeta = NoMeta
    NoPath = NoPath
INVARIANTS TypeOK FiledIntact SourceSafe
PROPERTIES StrandedOnlyByFault IngestEnds ImplementsCatalog
CHECK_DEADLOCK FALSE
