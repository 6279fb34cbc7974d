--------------------------- MODULE SimpleAverage ---------------------------
(***************************************************************************)
(* SimpleAverage<int, N>: the last N values in a ring of N slots, with     *)
(* their number, their sum, and the slot that is written next.             *)
(***************************************************************************)
EXTENDS Integers, Sequences

CONSTANTS N,       \* the template's N
          Values   \* the values that may be averaged

ASSUME SizeAssumption == N \in Nat \ {0} /\ Values \subseteq Int

VARIABLES buffer,  \* m_buffer
          count,   \* m_count
          sum,     \* m_sum
          index    \* m_index

vars == <<buffer, count, sum, index>>

Slots == 0..N-1

\* The constructor resets the ring and leaves the slots as they are.
Init ==
    /\ buffer \in [Slots -> Values]
    /\ count = 0
    /\ sum = 0
    /\ index = 0

\* Mutant: the value that is overwritten stays in the sum.
FilterKeepsOld(d) ==
    /\ sum' = sum + d
    /\ buffer' = [buffer EXCEPT ![index] = d]
    /\ index' = IF index + 1 >= N THEN 0 ELSE index + 1
    /\ count' = IF count < N THEN count + 1 ELSE count

\* Mutant: the first slot is skipped when the ring wraps.
FilterSkipsFirst(d) ==
    /\ sum' = sum + d - IF count = N THEN buffer[index] ELSE 0
    /\ buffer' = [buffer EXCEPT ![index] = d]
    /\ index' = IF index + 1 >= N THEN N - 1 ELSE index + 1
    /\ count' = IF count < N THEN count + 1 ELSE count

Filter(d) ==
    /\ sum' = sum + d - IF count = N THEN buffer[index] ELSE 0
    /\ buffer' = [buffer EXCEPT ![index] = d]
    /\ index' = IF index + 1 >= N THEN 0 ELSE index + 1
    /\ count' = IF count < N THEN count + 1 ELSE count

Reset ==
    /\ count' = 0
    /\ sum' = 0
    /\ index' = 0
    /\ UNCHANGED buffer

Next == Reset \/ \E d \in Values : Filter(d)

Spec == Init /\ [][Next]_vars

-----------------------------------------------------------------------------
(* Properties                                                               *)

TypeOK ==
    /\ buffer \in [Slots -> Values]
    /\ count \in 0..N
    /\ index \in Slots
    /\ sum \in Int

\* The slots in the order they were written: the oldest of count values is
\* count slots before the next one.
Slot(k) == LET i == index - count + k - 1 IN IF i < 0 THEN i + N ELSE i

Contents == [k \in 1..count |-> buffer[Slot(k)]]

\* Through any wraps and resets the ring remembers the last N values.
Window == INSTANCE SampleWindow WITH window <- Contents
RemembersLast == Window!Spec

\* The sums of the first k elements of a sequence.
PartialSums(s) ==
    LET total[k \in 0..Len(s)] == IF k = 0 THEN 0 ELSE total[k - 1] + s[k]
    IN  total

\* The running sum is the sum of what is remembered: nothing that was
\* overwritten or reset is left in it.
SumMatches == sum = PartialSums(Contents)[count]

=============================================================================
