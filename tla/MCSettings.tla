----------------------------- MODULE MCSettings -----------------------------
(* Three uses of the panel, each with the operations that belong together: *)
(* the defaults file, the sort criteria, the filters.                      *)
EXTENDS Settings

MCDesc == [PQLSORT |-> <<"Input Order", "Station Name", "File Type">>,
           SEGYSORT |-> <<"Input Order", "Sensor", "Station Name">>]

MCTags == {<<"P">>, <<"S", "1">>, <<>>}

MCUses == {[ops |-> {"start", "stop", "other", "panel", "DSPMD", "MP0", "MZF", "bar", "save", "restore"}, max |-> 8],
           [ops |-> {"start", "stop", "panel", "type", "sort", "dir", "crit", "save", "restore"}, max |-> 9],
           [ops |-> {"start", "panel", "DSPMD", "restore", "filter", "list", "other"}, max |-> 9]}
=============================================================================
