-------------------------- MODULE MCFirmwareUpdate --------------------------
(***************************************************************************)
(* Small instances of FirmwareUpdate: the image installed over USB, two    *)
(* ota releases, each replacing the one before it, and local-recovery      *)
(* releases of the first two images.                                       *)
(***************************************************************************)
EXTENDS FirmwareUpdate, TLC

MCRelease  == {"initial1", "ota2", "ota3", "usb4", "usb5"}
MCImage    == {"a1", "a2", "a3"}
MCPurpose  == [initial1 |-> "initial-install", ota2 |-> "ota",
               ota3 |-> "ota", usb4 |-> "local-recovery", usb5 |-> "local-recovery"]
MCSequence == [initial1 |-> 1, ota2 |-> 2, ota3 |-> 3, usb4 |-> 4, usb5 |-> 5]
MCAppOf    == [initial1 |-> "a1", ota2 |-> "a2", ota3 |-> "a3", usb4 |-> "a1", usb5 |-> "a2"]
MCFromApps == [initial1 |-> {}, ota2 |-> {"a1"}, ota3 |-> {"a2"}, usb4 |-> {}, usb5 |-> {}]
MCBuild    == [a1 |-> 1, a2 |-> 2, a3 |-> 3]

MCErrors == {"", "network", "approval_unavailable", "owner_cancelled", "local_cancelled",
             "storage", "boot_failed", "hash_mismatch", "image_rejected"}
MCSelectionError == {"storage", "image_rejected", "approval_unavailable", "local_cancelled"}

\* Reports come from the client.
MCReports == {}

Symmetric == Permutations(JobId) \cup Permutations(RequestKey)
=============================================================================
