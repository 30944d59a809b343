--------------------------- MODULE MCWranglePeer ---------------------------
(* The requests, answers and incoming messages of the checked peers. *)
EXTENDS WranglePeer, TLC

Asks(confirmed, periods, retries) ==
    [confirmed : confirmed, retryPeriod : periods, retryMax : retries]

Retrying   == Asks({TRUE}, {0, 1}, {0, 1})
Default    == Asks({TRUE}, {0}, {0})
Unanswered == Asks({FALSE}, {0}, {0})
AnyAsk     == Asks({TRUE}, {0}, {1}) \cup Unanswered

Success  == {<<"SUCCESS">>}
OkOrJunk == {<<"SUCCESS">>, <<"unknown">>}
AnyOrder == Permutations(Jobs)

Nothing_ == {}
ConfirmedOnly == {TRUE}

\* AnswerIsOwn says nothing of what comes after a crossing.
NotCrossed == ~crossed
=============================================================================
