SPECIFICATION FairSpec
CONSTANTS
    Celery = {c1, c2}
    Web = {w1, w2}
    MaxRetries = 1
    KeepDays = 0
    Choices <- ChoicesMade
    MaxDays = 4
    MaxReminders = 4
    MaxQueued = 1
    MaxEvents = 1
INVARIANTS
    TypeOK
    MailedOnce
PROPERTIES
    OnlyActiveMailed
    ImplementsLife
    DueIsMailed
