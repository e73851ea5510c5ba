CONSTANTS
    Name = {n1, n2, n3}
    f1 = f1  f2 = f2  fb = fb  k1 = k1  k2 = k2  t1 = t1  t2 = t2
    NoPod = NoPod  NoTemplate = NoTemplate
    Filter = {f1, f2, fb}
    Base = {fb}
    Key = {k1, k2}
    Tags = {t1, t2}
    GPods <- Pods
    MaxErrors = 0
SPECIFICATION GSpec
INVARIANT OneServer
