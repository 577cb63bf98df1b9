------------------------------ MODULE RingBuffer ------------------------------
(***************************************************************************)
(* vk::RingBuffer (externals/vikit/src/ringbuffer.h): an array whose       *)
(* oldest element the next one replaces once it is full.  The tracker      *)
(* keeps its timings and its numbers of observations in two of them.       *)
(***************************************************************************)
EXTENDS Integers, Sequences, SequencesExt, FiniteSetsExt

CONSTANTS
  Values,   \* the numbers that are pushed: none is negative
  arr_size_ \* the size given to the constructor: 10 in FrameHandlerBase

ASSUME SizeAssumption == arr_size_ \in Nat \ {0}
ASSUME ValuesAssumption == 0 \in Values /\ Values \subseteq Nat

VARIABLES arr_, begin_, end_, num_elem_

ringVars == <<arr_, begin_, end_, num_elem_>>

(* The constructor; the vector is filled with zeros.                        *)
RingInit ==
  /\ arr_ = [i \in 0 .. arr_size_ - 1 |-> 0]
  /\ begin_ = 0 /\ end_ = -1 /\ num_elem_ = 0

PushBackFree(elem) ==
  /\ num_elem_ < arr_size_
  /\ end_' = end_ + 1
  /\ num_elem_' = num_elem_ + 1
  /\ arr_' = [arr_ EXCEPT ![end_'] = elem]
  /\ begin_' = begin_

(* Mutant: the oldest element is overwritten and stays the first.           *)
PushBackFullBeginKept(elem) ==
  /\ num_elem_ = arr_size_
  /\ end_' = (end_ + 1) % arr_size_
  /\ arr_' = [arr_ EXCEPT ![end_'] = elem]
  /\ UNCHANGED <<begin_, num_elem_>>

PushBackFull(elem) ==
  /\ num_elem_ = arr_size_
  /\ end_' = (end_ + 1) % arr_size_
  /\ begin_' = (begin_ + 1) % arr_size_
  /\ arr_' = [arr_ EXCEPT ![end_'] = elem]
  /\ num_elem_' = num_elem_

RingNext == \E elem \in Values : PushBackFree(elem) \/ PushBackFull(elem)

RingSpec == RingInit /\ [][RingNext]_ringVars

-----------------------------------------------------------------------------
(* What the buffer returns                                                  *)

(* Defined for 0 <= i < num_elem_ (get asserts the second).                 *)
Get(i) == arr_[(begin_ + i) % arr_size_]

(* Mutant: only the elements up to the newest are summed up.                *)
GetSumToEnd == MapThenSumSet(LAMBDA i : arr_[i], begin_ .. end_)

(* The elements are summed up in the order of the array.                    *)
GetSum == MapThenSumSet(LAMBDA i : arr_[i], 0 .. num_elem_ - 1)

GetMean == IF num_elem_ = 0 THEN 0 ELSE GetSum \div num_elem_

-----------------------------------------------------------------------------
(* Properties                                                               *)

Window == [i \in 1 .. num_elem_ |-> Get(i - 1)]

Promise == INSTANCE SlidingWindow WITH window <- Window, Size <- arr_size_

(* The indices are those of a buffer that fills up from 0 and then goes     *)
(* round: the newest element is just before the oldest.                    *)
IndicesCorrect ==
  /\ arr_ \in [0 .. arr_size_ - 1 -> Values]
  /\ num_elem_ \in 0 .. arr_size_
  /\ num_elem_ < arr_size_ => begin_ = 0 /\ end_ = num_elem_ - 1
  /\ num_elem_ = arr_size_ =>
       /\ begin_ \in 0 .. arr_size_ - 1
       /\ end_ = IF begin_ = 0 THEN arr_size_ - 1 ELSE begin_ - 1

(* get(0), get(1), ... are the values pushed last, oldest first.            *)
KeepsLatest == Promise!Spec

SumOf(values) == FoldSeq(LAMBDA x, y : x + y, 0, values)

(* getSum goes over the array without regard to where it begins, and getMean *)
(* is still the mean of what get returns, rounded down.                    *)
MeanOfWindow ==
  Window # <<>> =>
    /\ GetMean * Len(Window) <= SumOf(Window)
    /\ SumOf(Window) < (GetMean + 1) * Len(Window)
=============================================================================
