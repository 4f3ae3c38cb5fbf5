\* Items of every kind: conversions cut short, names taken, answers lost, claims that
\* run out, a tosser that takes what it finds.
CONSTANTS
    mail1 = mail1
    echo1 = echo1
    orphan1 = orphan1
    notice1 = notice1
    request1 = request1
    junk1 = junk1
    Ids = {mail1, echo1, notice1, request1, orphan1, junk1}
    Kind <- KindOf
    Size <- SizeOf
    Erase = {request1}
    Foreign = {3}
    BatchMax = 2
    MaxClaims = 3
SPECIFICATION Spec
INVARIANTS
    AcknowledgedIsSafe
    CompanionsFirst
    RemovalRemembered
PROPERTIES
    PublishedIsFinal
