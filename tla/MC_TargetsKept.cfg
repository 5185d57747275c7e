SPECIFICATION Spec
CONSTANTS
    Cases = {1, 2, 3, 4}
    FirstListed = {2, 3}
    Files <- MCFiles
    CaseOf <- MCCaseOf
    Size <- MCSize
    Uploads = {"scan"}
    Checked = {"brief", "scan", "misc"}
    Unmapped = {"misc"}
    Large <- MCLarge
    Colliding = {1}
    MaxVersion = 1
    Edited = {"brief", "scan", "memo"}
    MaxEdits = 1
    MaxFaults = 0
PROPERTIES NoOverwrite
CHECK_DEADLOCK FALSE
