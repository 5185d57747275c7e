SPECIFICATION FairSpec
CONSTANTS
    Cases = {1, 2, 3, 4}
    FirstListed = {2, 3}
    Files <- MCFiles
    CaseOf <- MCCaseOf
    Size <- MCSize
    Uploads = {"scan"}
    Checked = {"brief", "scan", "misc"}
    Unmapped = {"misc"}
    Large <- MCLarge
    Colliding = {1}
    MaxVersion = 1
    Edited = {"brief", "scan", "memo"}
    MaxEdits = 2
    MaxFaults = 3
INVARIANTS DriveTypeOK Recoverable ProofsAreOfThePlan
PROPERTIES CursorPassesSynced CursorMoves
CHECK_DEADLOCK FALSE
