-------------------------- MODULE PlayerInstallMC --------------------------
(* A player as old as the firmware's and a newer one; the older one is      *)
(* rejected once the firmware has been updated.                             *)
EXTENDS PlayerInstall

CONSTANTS packagedOne, newer

StampOf == [i \in Images |-> IF i = packagedOne THEN 1 ELSE 2]
=============================================================================
