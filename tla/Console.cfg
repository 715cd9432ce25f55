SPECIFICATION Spec
CONSTANTS
    Rotations = {r1, r2}
    Signers = {s1, s2}
    Graces = {0, 1}
    KeyGrace = 2
    Life = 1
    MaxKeys = 3
    MaxTime = 3
    Emails = {e1, e2}
    Member = e1
    Handlers = {h1, h2}
    MaxInvites = 3
    MaxSecrets = 2
    MaxChallenges = 2
    Creators = {q1, q2}
    Uploads = {u1, u2}
    Certs = {c1}
    Slugs = {g1, g2, g3}
    Contents = {x1, x2}
    None = None
    MaxOperators = 3
    MaxTokens = 2
    MaxFiles = 3
    Soon = 3
    SoonAtBoot = 6
    Epoch = 2
    Width = 16
    Warn = 1
    Alert = 2
    Bytes = {0, 1, 90, 127, 128, 255}
    Size = 2
    TotpWindow = 1
    MaxRounds = 2
    MaxWire = 2
    MaxLinks = 2
    MaxBets = 2
    Kept = 2
INVARIANTS
    RotationIsSeamless
    UsersAreSound
    RegistryIsSound
    RulesAreExact
    DicePageIsTrue
    CrashPageIsTrue
PROPERTIES
    NoWayBack
CHECK_DEADLOCK FALSE
