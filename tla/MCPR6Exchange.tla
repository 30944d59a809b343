--------------------------- MODULE MCPR6Exchange ----------------------------
(* Instances of PR6Exchange for TLC: constant values a .cfg cannot write. *)
EXTENDS PR6Exchange, TLC

StopOrSilent == {<<TRUE, TRUE>>, <<FALSE, FALSE>>}

=============================================================================
