------------------------------- MODULE MCHub -------------------------------
(* Small root hubs for TLC.  With words of four bits the hub has up to three *)
(* ports and two packed speeds to a word; with bytes of three bits port 3 is  *)
(* alone in the second byte of the status.                                    *)
EXTENDS VirtUsbHub

MCCapabilities == {{"low"}, {"full", "high"}}
=============================================================================
