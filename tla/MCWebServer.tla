----------------------------- MODULE MCWebServer -----------------------------
(* Instances of WebServer for TLC.                                          *)
EXTENDS WebServer

\* One client asks for a REST URI, the other for one that nobody registered.
MCAsks == [a |-> "api", b |-> "unknown"]

\* One client may reset its connection, or close its half of it.
MCFaults == {<<"a", "halfclose">>, <<"a", "reset">>}

=============================================================================
