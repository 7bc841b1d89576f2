SPECIFICATION WorkflowSpec
CONSTANTS
    t1 = t1
    t2 = t2
    t3 = t3
    Payloads = {1}
    MaxSources = 2
    MaxCrashes = 1
    MaxEdits = 1
    MaxRevisions = 2
    EntryOps = 2
    MaxPolicies = 2
    ReviewOps = 3
    AttachmentOps = 3
    Queued = {1, 2}
    Kin = {1, 2}
    Ids = {1, 2, 3, 4}
    MaxPending = 2
    Makers = {t1, t2}
    Adopters = {t3}
    MaxDeaths = 1
    Configurations = {1, 2}
    EvidenceFiles = {t1}
    Added = {1}
    Replaced = {2}
    Withdrawn = {3}
    Helpers = {t1, t2}
    MaxFaults = 1
    MaxAttempts = 1
    Installers = {t1}
    Rollers = {t2}
    MaxBackups = 2
    Guides = {1}
    Common = {2}
    Dropped = {3}
INVARIANTS
    TaskSound
    JudgmentSound
    WebSound
    KnowledgeSound
    LearningSound
    InstallSound
CHECK_DEADLOCK FALSE
