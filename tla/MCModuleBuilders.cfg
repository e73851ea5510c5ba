CONSTANTS
    n1 = n1  n2 = n2  d1 = d1  d2 = d2
    Name = {n1, n2}
    IP = {i1}
    CID = {d1, d2, b1}
    Bare = {b1}
    Statuses <- MCStatuses
    Port = {1, 2}
    Type = {"prometheus", "redis", "other"}
    RegisteredSets <- Sets
    Namespace = {"apiserver"}
    Secured = {"apiserver"}
    Token = {k1}
    Secrets <- Contents
    Blank = Blank  NoPod = NoPod  NoIP = NoIP  NoCID = NoCID  NoPath = NoPath  NoType = NoType
    NoNamespace = NoNamespace  NoSets = NoSets  NoMeta = NoMeta  NoToken = NoToken
    Specs <- Annotations
SPECIFICATION BSpec
SYMMETRY Symmetric
INVARIANTS BTypeOK FilesMatchPods EachContainerOnce
PROPERTIES KeepsFiles
