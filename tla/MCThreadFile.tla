--------------------------- MODULE MCThreadFile ---------------------------
(* Instances of ThreadFile for TLC. *)
EXTENDS ThreadFile

MCFiles == {"a", "b", "c", "d", "e"}
MCKindOf == [a |-> "plain", b |-> "log", c |-> "soh", d |-> "unreadable", e |-> "soh"]

\* Queues that fill the threads of one CPU (three) unevenly, and one that
\* names a file twice.
MCInputs == {<<"a">>, <<"b", "d">>, <<"a", "d", "a", "b">>, <<"c", "c", "a", "e">>,
             <<"b", "c", "d", "a", "b">>}

\* Short queues, so that a second call may overlap the first.
MCReopenInputs == {<<"a">>, <<"a", "d">>}
===========================================================================
