\* Two Jobs, of EchoMail with two copies or of NetMail, one of an application and one
\* relayed: the driver, poll connections, control requests and restarts with and
\* without schedules meet on them, and their submissions are repeated and conflict.
CONSTANTS
    app = app
    relay = relay
    hub = hub
    anon = anon
    k1 = k1
    t1 = t1
    t2 = t2
    j1 = j1
    j2 = j2
    i1 = i1
    i2 = i2
    JobIds = {j1, j2}
    Applications = {app, relay}
    RelayApplication = relay
    IdempotencyKeys = {i1}
    Blueprints <- MailAndEcho
    RelayDigest = RelayDigest
    Hops = {hub, anon}
    Anonymous = {anon}
    PeerKeys = {k1}
    NoKey = NoKey
    Tokens = {t1, t2}
    NoToken = NoToken
    Texts = {"accepted"}
    MaxTime = 1
    MaxAttempts = 2
    MaxBatch = 1
    MaxClaims = 2
    MaxAcks = 1
SYMMETRY Symmetry
SPECIFICATION Spec
INVARIANTS
    JobStateIsAggregate
    ClaimsAreCurrent
    NoOrphanedCopy
    EventsTellTheStory
    OneJobPerIdentity
PROPERTIES
    SettledIsFinal
    OnlyItsWorkerAnswers
