\* A copy claimed by a poll, the service killed, and one without schedules started.
CONSTANTS
    app = app
    relay = relay
    hub = hub
    anon = anon
    k1 = k1
    t1 = t1
    t2 = t2
    j1 = j1
    j2 = j2
    i1 = i1
    i2 = i2
    JobIds = {j1}
    Applications = {app, relay}
    RelayApplication = relay
    IdempotencyKeys = {i1}
    Blueprints <- MailOnly
    RelayDigest = RelayDigest
    Hops = {hub, anon}
    Anonymous = {anon}
    PeerKeys = {k1}
    NoKey = NoKey
    Tokens = {t1, t2}
    NoToken = NoToken
    Texts = {"accepted"}
    MaxTime = 0
    MaxAttempts = 1
    MaxClaims = 1
    MaxBatch = 1
    MaxAcks = 0
SYMMETRY Symmetry
SPECIFICATION Spec
INVARIANTS
    RecoveredAtStartup
