----------------------------- MODULE TraceData ------------------------------
(***************************************************************************)
(* From a miniSEED file to the samples of a trace: the index of a file and *)
(* its cache, the traces made of it by channel and window, their data read *)
(* packet by packet or by trace groups, the log, and excerpts at shot      *)
(* times.  src/utils/data/data_mseed.c, data_excerpt.c, data_entry.c       *)
(* (readTrace) and src/src/data.c (readHdr_2, cutTrace).                   *)
(*                                                                         *)
(* A packet is [ch, s, n, rate, odd, len]: channel, start, samples, has it *)
(* a sample rate, is its encoding unknown, record length.  Packets of      *)
(* unknown encoding have the length of the first.  The acquisition system  *)
(* (external) may append packets at any time.                              *)
(***************************************************************************)
EXTENDS MseedGroup

CONSTANTS
    Uses,       \* inputs explored together, by name: [packets, max, opts, shots, opens]
    ShotLen     \* settings.general.input.shotLength, in ticks

\* Times are ticks since the epoch.
Packet(p) ==
    p.s \in Nat /\ p.n \in Nat /\ p.rate \in BOOLEAN /\ p.odd \in BOOLEAN /\ p.len \in Nat \ {0}

ASSUME UsesAssumption ==
    /\ ShotLen \in Nat
    /\ \A u \in DOMAIN Uses :
        /\ \A p \in Uses[u].packets : Packet(p)
        /\ \A o \in Uses[u].opts : o.length \in Nat
        /\ \A list \in Uses[u].shots : list \in Seq(Nat)
        /\ Uses[u].opens \in Nat

VARIABLES
    file,       \* the packets on disk
    cache,      \* mplex_files: the length of the file when it was indexed, or 0
    trs,        \* the traces
    log,        \* packets whose text the log shows, or <<>>
    opens,      \* how often the file was opened
    use, opts, shots    \* what is explored, multiplex options, shot times

vars == <<file, cache, trs, log, opens, use, opts, shots>>

None == [none |-> TRUE]

-----------------------------------------------------------------------------
(* The index, and the traces made of it.                                   *)

ToPackets(f, nums) == [i \in DOMAIN nums |-> f[nums[i]]]

\* Valid packets of a channel by number, ordered by time; ties as prepended.
Index(f, c) ==
    LET nums == Only([i \in DOMAIN f |-> i], {i \in DOMAIN f : f[i].ch = c /\ ~f[i].odd})
    IN  StableSort(Reverse(nums), [i \in DOMAIN f |-> f[i].s])

First(nums) == CHOOSE i \in Elems(nums) : \A j \in Elems(nums) : i <= j

\* Channels with a valid packet, the one met last first.
Channels(f) ==
    LET new == {i \in DOMAIN f : ~f[i].odd /\ \A j \in 1 .. i - 1 : f[j].odd \/ f[j].ch # f[i].ch}
        nums == Reverse(Only([i \in DOMAIN f |-> i], new))
    IN  [k \in DOMAIN nums |-> f[nums[k]].ch]

\* 0 once a valid packet differs in length from the first one.
blkSize(f) == IF \E i \in DOMAIN f : ~f[i].odd /\ f[i].len # f[1].len THEN 0 ELSE f[1].len

\* What index_mplex returns: "index a file only once".
index_mplex == IF cache = 0 THEN file ELSE SubSeq(file, 1, cache)

includeChan(c) ==
    /\ c # "LOG"
    /\ IF opts.inc # {} THEN c \in opts.inc ELSE c \notin opts.exc

\* MUTANT: a packet at the end of the window belongs to it.
BreachedLate(f, i, start) == opts.length # 0 /\ f[i].s - start > opts.length

Breached(f, i, start) == opts.length # 0 /\ f[i].s - start >= opts.length

\* The packets of a channel cut into windows, each from its first packet on.
Windows(f, nums) ==
    FoldLeft(LAMBDA acc, i :
                IF acc = <<>> \/ Breached(f, i, f[acc[Len(acc)][1]].s) THEN Append(acc, <<i>>)
                ELSE [acc EXCEPT ![Len(acc)] = Append(@, i)],
             <<>>, nums)

\* A trace as its header says: s is head.epochs, set is head.sampInt known, some is
\* numSamples counted from the packets nums.
Header(type, f, nums, s, blk, set) ==
    [type |-> type, ch |-> f[nums[1]].ch, s |-> s, blk |-> blk, set |-> set,
     pk |-> IF type = "MSEED_DATA" THEN <<>> ELSE StableSort(nums, [i \in Elems(nums) |-> i]), some |-> \E i \in Elems(nums) : f[i].n > 0,
     cut |-> None, data |-> None, seen |-> 0]

\* make_mseed_trace orders the packets by number.
makeTraces(f) ==
    LET chans == Channels(f)
        traces(c) ==
            LET nums == Index(f, c)
                win == Windows(f, nums)
            IN  [w \in DOMAIN win |-> Header("MSEED_MPLEX_DATA", f, win[w], f[win[w][1]].s,
                                             blkSize(f), f[First(nums)].rate)]
    IN  FlattenSeq([k \in DOMAIN chans |-> IF includeChan(chans[k]) THEN traces(chans[k]) ELSE <<>>])

\* A file with one channel is one trace, whatever the options say.
get_mseed_hedrM(f) ==
    LET nums == Index(f, Channels(f)[1]) IN
    IF Len(Channels(f)) = 1
    THEN <<Header("MSEED_DATA", f, nums, f[First(nums)].s, 0, f[First(nums)].rate)>>
    ELSE makeTraces(f)

\* MUTANT: the packets of the log in the order of the file.
LogPacketsFile(f) == StableSort(Index(f, "LOG"), [i \in DOMAIN f |-> i])

LogPackets(f) == Index(f, "LOG")

\* makeLogs: seeks to a packet, but an offset of 0 does not seek.
makeLogs(f) ==
    LET read == FoldLeft(LAMBDA a, i :
                    LET at == IF blkSize(f) * (i - 1) = 0 THEN a.pos ELSE i
                    IN  [pos |-> at + 1, got |-> Append(a.got, at)],
                  [pos |-> 1, got |-> <<>>], LogPackets(f))
    IN  IF Len(Channels(f)) > 1 THEN read.got ELSE <<>>

-----------------------------------------------------------------------------
(* Reading the data of a trace.                                            *)

\* pluckPackets: by seeking, or by a loop over the file with no tolerance.
pluckPackets(t) == Assemble(ToPackets(file, t.pk), t.blk = 0)

\* MUTANT: an overlap does not lead to the slower way.
BrokenByGap(a, p) == a.data # <<>> /\ p.s > a.next

\* A packet does not start where the one before ended.
Broken(a, p) == a.data # <<>> /\ p.s # a.next

\* Packet p follows the packets read into a: again says that the file must be read the
\* other way.  The first packet with samples sets the start when the header had no
\* sample rate.
TakePacket(a, p) ==
    IF a.again \/ (~p.odd /\ p.n = 0) THEN a
    ELSE IF p.odd \/ Broken(a, p) THEN [a EXCEPT !.again = TRUE]
    ELSE [a EXCEPT !.s = IF a.set THEN @ ELSE p.s, !.set = TRUE,
                   !.data = @ \o Samples(p), !.next = msr_endtime(p) + One]

\* The packets one after another, of any channel.
Fast(t) ==
    FoldLeft(TakePacket, [s |-> t.s, set |-> t.set, data |-> <<>>, next |-> 0, again |-> FALSE], file)

\* ms_readtraces of the file fails at a packet of unknown encoding.
Failed == Nothing

get_mseed_trace(t) ==
    IF t.type = "MSEED_MPLEX_DATA" THEN pluckPackets(t)
    ELSE IF \E i \in DOMAIN file : file[i].odd THEN Failed
    ELSE Assemble(Only(file, {p \in Elems(file) : p.ch = t.ch}), FALSE)

\* The data with the start they are labelled with, data <<>> when unreadable.
get_mseed_data(t) ==
    LET fast == Fast(t) IN
    IF ~t.some THEN Failed
    ELSE IF t.type = "MSEED_DATA" /\ ~fast.again
    THEN [Nothing EXCEPT !.s = fast.s, !.data = fast.data, !.fast = TRUE]
    ELSE get_mseed_trace(t)

startSamp(t, r) == IF t.cut.at < r.s THEN 0 ELSE (t.cut.at - r.s) \div One

\* trace_excerpt in place: head.epochs is what reading left there, and the gaps
\* are forgotten before they are carried over.  (The clipping of the length to one
\* sample past the end is not met: cutTrace asks for the whole excerpt.)
trace_excerpt(t, r) ==
    LET from == startSamp(t, r)
        n == Smaller(ShotLen \div One, Len(r.data) - from)
    IN  [r EXCEPT !.s = IF t.cut.at < r.s THEN r.s ELSE t.cut.at,
                  !.data = SubSeq(r.data, from + 1, from + n),
                  !.gaps = <<>>, !.olaps = <<>>]

\* readTrace: t with its data; none is a trace that must be removed.
readTrace(t) ==
    LET r == get_mseed_data(t)
        x == IF t.cut = None THEN r ELSE trace_excerpt(t, r)
    IN  IF r.data = <<>> THEN [t EXCEPT !.data = r]
        ELSE [t EXCEPT !.s = x.s, !.set = TRUE, !.data = x, !.seen = Len(file)]

\* freeData(trc, FALSE)
Freed(t) == [t EXCEPT !.data = None, !.seen = 0]

\* cutTrace: copies of a trace that was read, labelled with the shot times
\* whose excerpt lies in it.
cutTrace(t) ==
    LET length == (Len(t.data.data) - 1) * One
        fit == Only(shots, {at \in Elems(shots) : at >= t.s /\ at + ShotLen <= t.s + length})
    IN  [i \in DOMAIN fit |-> [Freed(t) EXCEPT !.s = fit[i], !.cut = [at |-> fit[i]]]]

\* readHdr_2
CutUp(headers) ==
    FlattenSeq([i \in DOMAIN headers |->
        LET t == readTrace(headers[i]) IN IF t.data.data = <<>> THEN <<>> ELSE cutTrace(t)])

-----------------------------------------------------------------------------

Init ==
    /\ file = <<>> /\ cache = 0 /\ trs = <<>> /\ log = <<>> /\ opens = 0
    /\ use \in DOMAIN Uses /\ opts \in Uses[use].opts /\ shots \in Uses[use].shots

\* External: another packet arrives in the file.
Arrive ==
    /\ Len(file) < Uses[use].max
    /\ \E p \in Uses[use].packets : file' = Append(file, p)
    /\ UNCHANGED <<cache, trs, log, opens, use, opts, shots>>

\* Opening the file with no traces in memory: the header threads' work.
Open ==
    /\ file # <<>> /\ trs = <<>> /\ opens < Uses[use].opens
    /\ LET f == index_mplex
           headers == get_mseed_hedrM(f)
       IN  /\ Channels(f) # <<>>
           /\ cache' = IF Len(Channels(f)) > 1 THEN Len(f) ELSE cache
           /\ trs' = IF shots = <<>> THEN headers ELSE CutUp(headers)
           /\ log' = IF headers = <<>> THEN <<>> ELSE makeLogs(f)
    /\ opens' = opens + 1
    /\ UNCHANGED <<file, use, opts, shots>>

\* MUTANT: a trace that cannot be read stays.
ReadDataKept(i) ==
    /\ trs[i].data = None
    /\ trs' = [trs EXCEPT ![i] = readTrace(@)]
    /\ UNCHANGED <<file, cache, log, opens, use, opts, shots>>

\* A reading thread; a trace that cannot be read is removed.
ReadData(i) ==
    /\ trs[i].data = None
    /\ LET t == readTrace(trs[i])
       IN  trs' = IF t.data.data = <<>> THEN RemoveAt(trs, i) ELSE [trs EXCEPT ![i] = t]
    /\ UNCHANGED <<file, cache, log, opens, use, opts, shots>>

\* The trace leaves the screen.
FreeData(i) ==
    /\ trs[i].data # None
    /\ trs' = [trs EXCEPT ![i] = Freed(@)]
    /\ UNCHANGED <<file, cache, log, opens, use, opts, shots>>

\* kill_all_traces(ALL): the index stays.
Close ==
    /\ trs # <<>>
    /\ trs' = <<>> /\ log' = <<>>
    /\ UNCHANGED <<file, cache, opens, use, opts, shots>>

Next ==
    \/ Arrive \/ Open \/ Close
    \/ \E i \in DOMAIN trs : ReadData(i) \/ FreeData(i)

Spec == Init /\ [][Next]_vars

-----------------------------------------------------------------------------
(* Properties.                                                             *)

\* Every variable has its type; a trace whose data are in memory has some (not an
\* excerpt, which may be shorter than a sample), and its label is the time of the
\* first (no trace without data survives a read).
TypeOK ==
    /\ file \in Seq(Uses[use].packets) /\ cache \in 0..Len(file) /\ opens \in 0..Uses[use].opens
    /\ log \in Seq(Nat)
    /\ \A i \in DOMAIN trs :
        LET t == trs[i] IN
        /\ t.type \in {"MSEED_DATA", "MSEED_MPLEX_DATA"} /\ Elems(t.pk) \subseteq DOMAIN file
        /\ t.data # None =>
            t.s = t.data.s /\ t.seen \in DOMAIN file /\ (t.cut = None => t.data.data # <<>>)

\* The packets a trace that was read is made of, by number.
Read(t) == IF t.type = "MSEED_MPLEX_DATA" THEN Elems(t.pk) ELSE 1..t.seen
Has(p, x) == p.n > 0 /\ p.s <= x /\ x <= msr_endtime(p) /\ (x - p.s) % One = 0

\* Exempt from what follows: packets without samples but with a rate, which a group
\* takes for coverage, or with samples but no rate, which it joins to none; several
\* record lengths, whose gaps the loop does not see; an overlap longer by one
\* sample; a channel that came into a single-channel file after it was opened; and
\* starts and shot times off the grid of the samples.
Regular(t) ==
    LET ps == {file[i] : i \in Read(t)} IN
    /\ \A p \in ps : ~p.odd /\ p.ch = t.ch /\ (p.rate <=> p.n > 0)
    /\ \A p, q \in ps : (p.s - q.s) % One = 0
    /\ t.cut # None => \A p \in ps : (t.cut.at - p.s) % One = 0
    /\ t.type = "MSEED_MPLEX_DATA" => t.blk # 0
    /\ ~t.data.short

ReadTraces == {trs[i] : i \in {k \in DOMAIN trs : trs[k].data # None}}
Uncut == {t \in ReadTraces : t.cut = None}

\* Every sample stands where its time says: the trace starts at its label and has
\* one entry per sampling interval, through gaps, overlaps, packets out of order and
\* cut excerpts (get_mseed_data, get_mseed_trace, trace_excerpt); the second data of
\* an overlap are drawn over the entries of the same times.  Exempt: excerpts of
\* single-channel files without gaps, see CutAtShot.
InPlace ==
    /\ \A t \in ReadTraces :
        Regular(t) /\ (t.cut = None \/ ~t.data.fast) =>
            \A k \in DOMAIN t.data.data : t.data.data[k] \in {Zero, t.s + (k - 1) * One}
    /\ \A t \in Uncut : Regular(t) =>
        \A o \in Elems(t.data.olaps) :
            /\ 0 <= o.from /\ o.from + Len(o.d) <= Len(t.data.data)
            /\ \A k \in DOMAIN o.d : o.d[k] = t.s + (o.from + k - 1) * One

\* No sample is lost or doubled: each sample of each packet is once in the array or
\* in the data of an overlap, also off the grid and with several record lengths.
\* Exempt: packets with samples but no rate, which then join no group.
NothingLost ==
    \A t \in Uncut : (\A i \in Read(t) : file[i].ch = t.ch /\ (file[i].n > 0 => file[i].rate)) =>
        LET all == FoldLeft(LAMBDA acc, o : acc \o o.d, t.data.data, t.data.olaps)
        IN  \A x \in Elems(all) \cup UNION {Elems(Samples(file[i])) : i \in Read(t)} : x = Zero \/
                Cardinality({k \in DOMAIN all : all[k] = x}) = Cardinality({i \in Read(t) : Has(file[i], x)})

\* The gaps that are marked are the entries without data, and no packet has a
\* sample for a time in them.
GapsExact ==
    \A t \in Uncut : Regular(t) =>
        \A k \in DOMAIN t.data.data :
            /\ t.data.data[k] = Zero <=> \E g \in Elems(t.data.gaps) : g[1] < k /\ k <= g[2]
            /\ t.data.data[k] = Zero => \A i \in Read(t) : ~Has(file[i], t.s + (k - 1) * One)

\* data_mseed.c:1098: "if no gaps or overlaps are detected, we're done": a file read
\* packet by packet gives what the trace groups would.
FastIsSlow ==
    \A t \in Uncut : Regular(t) /\ t.type = "MSEED_DATA" =>
        LET slow == Assemble(SubSeq(file, 1, t.seen), FALSE)
        IN  t.data.data = slow.data /\ t.s = slow.s

\* Traces of one channel each share out the packets of the channels asked for; with a
\* length, those of a channel follow each other and are no longer.
SharedOut(f, list) ==
    LET mine(i) == {k \in DOMAIN list : i \in Elems(list[k].pk)} IN
    /\ \A i \in DOMAIN f : Cardinality(mine(i)) = IF ~f[i].odd /\ includeChan(f[i].ch) THEN 1 ELSE 0
    /\ \A k \in DOMAIN list, i \in DOMAIN f : k \in mine(i) =>
          /\ f[i].ch = list[k].ch /\ list[k].s <= f[i].s
          /\ opts.length # 0 => f[i].s < list[k].s + opts.length
          /\ \A m \in DOMAIN list : list[m].ch = list[k].ch /\ list[m].s > list[k].s => f[i].s < list[m].s

\* Opening a file of several channels (makeTraces) shares its packets out.  Exempt: a
\* file that grew since it was indexed.
Demux ==
    [][opens' # opens /\ shots = <<>> /\ cache \in {0, Len(file)} /\ Len(Channels(file)) > 1 =>
        SharedOut(file, trs')]_vars

\* The log shows each packet of the log channel once, in order of time.  Exempt: a
\* file of several record lengths, and one whose first packet is a log packet but
\* not the earliest, where the offset 0 does not seek.
LogInOrder ==
    LET f == SubSeq(file, 1, cache)
        logs == {i \in DOMAIN f : f[i].ch = "LOG" /\ ~f[i].odd}
    IN  log # <<>> /\ blkSize(f) # 0 /\ (1 \in logs => \A i \in logs : f[1].s < f[i].s \/ i = 1) =>
          /\ Elems(log) = logs /\ Len(log) = Cardinality(logs)
          /\ \A i, j \in DOMAIN log : i < j => f[log[i]].s <= f[log[j]].s

\* data.c:34: "traces must be cut up as per input list of start times": an excerpt
\* begins with the sample recorded at its shot time.
CutAtShot == \A t \in ReadTraces : t.cut # None => t.data.data[1] = t.cut.at
=============================================================================
