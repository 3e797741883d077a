----------------------------- MODULE MCHistogram -----------------------------
(***************************************************************************)
(* Small instances of Histogram.                                           *)
(***************************************************************************)
EXTENDS Histogram

SmallSizes == <<2, 3, 2>>
SmallGrains == <<1, 2, 4>>

(* The longest graph of each buffer, and a shorter one of the second.      *)
SmallLengths ==
    {[level |-> 1, span |-> 2], [level |-> 2, span |-> 4],
     [level |-> 2, span |-> 6], [level |-> 3, span |-> 8]}
=============================================================================
