---------------------------- MODULE MCCloudBackup ----------------------------
(* A device that edits and one that uploads, restores and, in the larger    *)
(* instance, edits too.                                                     *)
EXTENDS CloudBackup

CONSTANTS d1, d2, x, y

MCEmpty  == [d \in Devices |-> NewStore]
MCSeeded == [d \in Devices |-> [NewStore EXCEPT !.rec = [i \in Ids |-> x], !.used = Ids]]

\* The cloud holds a backup from before watermarks.
MCGiven == {[rec |-> [i \in Ids |-> x], wm |-> None]}
=============================================================================
