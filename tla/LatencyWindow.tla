---------------------------- MODULE LatencyWindow ----------------------------
(***************************************************************************)
(* LatencyWindow: a ring of the newest latencies, with their mean and      *)
(* percentiles.  Latencies are whole milliseconds; a mean is a pair of     *)
(* integers, a percentile is in hundredths of a millisecond.               *)
(***************************************************************************)
EXTENDS Integers, Sequences, Functions

NewWindow == [samples |-> <<>>, next |-> 0]

\* mutant: the place of the next sample stays the first one
RecordAtFront(window, capacity, ms) ==
    IF Len(window.samples) < capacity
      THEN [window EXCEPT !.samples = Append(@, ms)]
      ELSE [window EXCEPT !.samples[1] = ms]
\* The ring grows to its capacity, then the oldest sample is replaced.
Record(window, capacity, ms) ==
    IF Len(window.samples) < capacity
      THEN [window EXCEPT !.samples = Append(@, ms)]
      ELSE [samples |-> [window.samples EXCEPT ![window.next + 1] = ms],
            next |-> (window.next + 1) % capacity]

Reset(window) == NewWindow

Total(samples) ==
    LET Sum[i \in 0..Len(samples)] == IF i = 0 THEN 0 ELSE Sum[i - 1] + samples[i]
    IN  Sum[Len(samples)]
Mean(window) == IF window.samples = <<>> THEN <<0, 1>>
                ELSE <<Total(window.samples), Len(window.samples)>>

\* A copy of the samples, sorted.
Sorted(samples) ==
    LET Rises(order) == \A i, j \in DOMAIN samples : i <= j => samples[order[i]] <= samples[order[j]]
        order == CHOOSE order \in Bijection(DOMAIN samples, DOMAIN samples) : Rises(order)
    IN  [i \in DOMAIN samples |-> samples[order[i]]]

\* mutant: the samples are not sorted
PercentileUnsorted(window, percent) ==
    LET rank == percent * (Len(window.samples) - 1)
    IN  IF window.samples = <<>> THEN 0 ELSE 100 * window.samples[rank \div 100 + 1]
\* Between the two samples nearest to the rank, in proportion.
Percentile(window, percent) ==
    LET sorted == Sorted(window.samples)
        rank == percent * (Len(sorted) - 1)
        lo == rank \div 100 + 1
        part == rank % 100
    IN  IF sorted = <<>> THEN 0
        ELSE IF part = 0 THEN 100 * sorted[lo]
        ELSE 100 * sorted[lo] + part * (sorted[lo + 1] - sorted[lo])
==============================================================================
