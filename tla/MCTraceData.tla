---------------------------- MODULE MCTraceData -----------------------------
(* Instances of TraceData for TLC: files of three or four packets. *)
EXTENDS TraceData

Packets(chans, starts, counts, rates, odds, lens) ==
    {[ch |-> c, s |-> s, n |-> n, rate |-> r, odd |-> o, len |-> l] :
        c \in chans, s \in starts, n \in counts, r \in rates, o \in odds, l \in lens}
Plain == [inc |-> {}, exc |-> {}, length |-> 0]
Use(packets, max, options, times, n) ==
    [packets |-> packets, max |-> max, opts |-> options, shots |-> times, opens |-> n]

\* One channel: gaps, overlaps and packets out of order.
Single == Use(Packets({"A"}, {2, 4, 6, 10}, {1, 2, 3}, {TRUE}, {FALSE}, {1}), 4, {Plain}, {<<>>}, 1)
\* Starts off the grid, packets without samples, unknown encodings.
Uneven == Use(Packets({"A"}, 2..7, {1, 2}, {TRUE}, {FALSE}, {1})
              \cup Packets({"A"}, {2, 4}, {0}, BOOLEAN, {FALSE}, {1}) \cup Packets({"A"}, {2}, {1}, {TRUE}, {TRUE}, {1}),
              3, {Plain}, {<<>>}, 1)
\* Several channels, windows, options, a log, a file opened again after it grew.
Multi == Use(Packets({"A", "B", "LOG"}, {2, 4, 8}, {1}, {TRUE}, {FALSE}, {1}) \cup Packets({"A"}, {2}, {1}, {TRUE}, {TRUE}, {1}),
             4, {Plain, [Plain EXCEPT !.length = 6], [Plain EXCEPT !.exc = {"B"}]}, {<<>>}, 1)
Again == Use(Packets({"A", "B", "LOG"}, {2, 6}, {2}, {TRUE}, {FALSE}, {1, 2}),
             3, {Plain, [Plain EXCEPT !.inc = {"A"}]}, {<<>>}, 2)
\* Excerpts.
Shots == Use(Packets({"A", "B"}, {2, 4, 8}, {3}, {TRUE}, {FALSE}, {1}), 3, {Plain}, {<<2, 6>>, <<4>>}, 1)

MCUses == [single |-> Single, uneven |-> Uneven, multi |-> Multi, again |-> Again, shots |-> Shots]
MCShots == [shots |-> Shots]
=============================================================================
