SPECIFICATION Spec
CONSTANTS
    ct1 = ct1
    ct2 = ct2
    Ctxts = {ct1, ct2}
    MaxCtxts = 3
    Sessions = {7, 8}
    SizeMax = 65535
INVARIANTS
    RoundTrip
