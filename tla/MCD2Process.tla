---------------------------- MODULE MCD2Process ----------------------------
(* Small instances of D2Process for TLC. *)
EXTENDS D2Process

(* The listener is configured, configured again, and told to shut down. *)
Sessions == {<<"configure", "configure", "drain_first">>,
             <<"configure", "bad_shutdown", "normal">>,
             <<"bad_configure", "configure", "now">>}
=============================================================================
