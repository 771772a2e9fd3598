------------------------------- MODULE MCStats --------------------------------
(* Sessions of the last days and of three years ago, at the edges of days and
   buckets, in zones whose clocks skip the midnight of yesterday, show that of
   a day twice, go back one minute after midnight, and leave out a day. *)
EXTENDS Stats, TLC

MCImportSpans ==
    {<<0 - 2 * Day - 3600, 300>>, <<0 - 2 * Day, 299>>, <<0 - Day - 1, 7200>>, <<0 - Day, 14400>>,
     <<0 - 7 * Day + 600, 5>>, <<0 - 8 * Day + 67, 1>>, <<0 - 1100 * Day, 3600>>}

MCZones ==
    {[before |-> 0, after |-> 3600, at |-> 0 - Day],
     [before |-> 3600, after |-> 0, at |-> 0 - 2 * Day],
     [before |-> 0, after |-> 0 - 3600, at |-> 0 - 8 * Day + 60],
     [before |-> 0 - 36000, after |-> 50400, at |-> 0 - 7 * Day + 36000]}

\* Some weeks before today, and four days that surround a corner.
MCCorner == {YearBegins(2021) + k : k \in {9, 10, 16, 17}}

MCInputs ==
    {[data |-> [d \in {YearBegins(2012), YearBegins(2013) - 1, YearBegins(2013) + 90} |-> 1800],
      today |-> YearBegins(2013) + t] : t \in {60, 365}}
    \cup {[data |-> f, today |-> YearBegins(2021) + 40] : f \in [MCCorner -> {1799, 1800}]}

MCSymmetry == Permutations(Clients)

=============================================================================
