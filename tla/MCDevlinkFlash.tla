-------------------------- MODULE MCDevlinkFlash ---------------------------
(* Circumstances for DevlinkFlash: alone, and after a flash of the same    *)
(* device by another process, without and with notifications of other      *)
(* kinds; and with a child that is killed.                                 *)
EXTENDS DevlinkFlash

FlashSetup(o, k, n) == [other |-> o, kill |-> k, noise |-> n]
SomeFlashSetups == {FlashSetup(FALSE, FALSE, FALSE), FlashSetup(TRUE, FALSE, FALSE),
                    FlashSetup(FALSE, FALSE, TRUE), FlashSetup(TRUE, FALSE, TRUE),
                    FlashSetup(FALSE, TRUE, FALSE)}

=============================================================================
