CONSTANTS
    STEPS <- MCSteps
    MaxEdits = 1
    MaxTroubles = 2
SPECIFICATION FairSpec
INVARIANTS TypeOK ResumePoint TlsReady
PROPERTY UneditedKeeps WizardEnds
CHECK_DEADLOCK FALSE
