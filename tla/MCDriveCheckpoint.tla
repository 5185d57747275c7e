------------------------- MODULE MCDriveCheckpoint -------------------------
(* Four cases, of which people may list the first and the last: names collide *)
(* in case 1; case 2 has a file of two chunks and case 3 one to upload, which *)
(* grow too large when they are edited, and case 3 one the rules refuse, which *)
(* nobody touches; case 4 has one without a checksum.                         *)
EXTENDS DriveCheckpoint

MCFiles == {"brief", "scan", "memo", "misc"}
MCCaseOf == [brief |-> 2, scan |-> 3, memo |-> 4, misc |-> 3]
MCSize == [brief |-> 2, scan |-> 1, memo |-> 1, misc |-> 1]
MCLarge == {<<"brief", 1>>, <<"scan", 1>>}
=============================================================================
