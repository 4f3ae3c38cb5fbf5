\* Two items, and a consumer that claims and dies.
CONSTANTS
    app = app
    mail = mail
    request = request
    i1 = i1
    i2 = i2
    q1 = q1
    q2 = q2
    t1 = t1
    t2 = t2
    c1 = c1
    c2 = c2
    InboundIds = {i1, i2}
    Items = {mail, request}
    Signed = {mail}
    Applications = {app}
    ClaimKeys = {q1}
    NoClaimKey = NoClaimKey
    Tokens = {t1}
    NoToken = NoToken
    Connections = {c1}
    Duration = 1
    Overlap = FALSE
    MaxTime = 1
SPECIFICATION FairSpec
PROPERTIES
    ClaimIsTransient
