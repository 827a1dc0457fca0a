SPECIFICATION Spec
CONSTANTS
    plain = plain
    skill = skill
    nested = nested
    File = {plain, skill, nested}
    Skill = {skill}
    FlatOf <- Predecessor
    MaxRelease = 2
    Ships <- TwoReleases
    HookText <- NewHooks
    MigrationMayThrow = FALSE
    RepairMayStop = FALSE
    MaxEdits = 2
INVARIANTS
    EccFilesAreClaimed
    HooksAreRecorded
PROPERTIES
    UninstallSparesUserWork
    InstallSparesUnclaimed
    RepairAdoptsNothing
