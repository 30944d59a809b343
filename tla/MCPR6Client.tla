---------------------------- MODULE MCPR6Client -----------------------------
(* Instances of PR6Client for TLC: constant values a .cfg cannot write. *)
EXTENDS PR6Client

BothModes == {<<TRUE, FALSE>>, <<FALSE, TRUE>>}

\* complete, short, empty, too long, and with a code no castResult accepts
MixedAnswers == {<<"SUCCESS">>, <<"PERMANENT", "SUCCESS">>, <<>>,
                 <<"SUCCESS", "PERMANENT", "SUCCESS">>, <<"PERMANENT", "INVALID">>}
=============================================================================
