\* One item with a distribution obligation, delivered again after a crash; -continue shows both traces.
CONSTANTS
    mail1 = mail1
    echo1 = echo1
    orphan1 = orphan1
    notice1 = notice1
    request1 = request1
    junk1 = junk1
    Ids = {echo1}
    Kind <- KindOf
    Size <- SizeOf
    Erase = {}
    Foreign = {}
    BatchMax = 1
    MaxClaims = 3
SPECIFICATION Spec
INVARIANTS
    PublishedOnce
    RedeliveryResolves
