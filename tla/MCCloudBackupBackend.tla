------------------------ MODULE MCCloudBackupBackend ------------------------
(* Two threads, two accounts and two backups, a limit of one request per     *)
(* window and a clock that passes more than one window.                      *)
EXTENDS CloudBackupBackend, TLC

CONSTANTS h1, h2, u1, u2, b1, b2

Symmetry == Permutations({h1, h2}) \cup Permutations({u1, u2})
            \cup Permutations({b1, b2})
=============================================================================
