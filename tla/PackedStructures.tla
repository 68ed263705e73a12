-------------------------- MODULE PackedStructures --------------------------
(***************************************************************************)
(* The arrays of a model file (persistent_structures): numbers of few bits *)
(* one after the other.  A bit array is a sequence of bits, the low one of *)
(* a number first; the bytes it is kept in are left out.                   *)
(*                                                                         *)
(* The arrays are indexed from 0, their sequences here from 1.             *)
(***************************************************************************)
EXTENDS Integers, Sequences, SequencesExt, FiniteSetsExt

CONSTANT PartSize  \* of a CompIncreasingArray: 4096 in the code

ASSUME PartSizeAssumption == PartSize \in Nat \ {0}

Needed(value) == CHOOSE n \in 0 .. 31 : value < 2 ^ n /\ (n = 0 \/ 2 ^ (n - 1) <= value)

-----------------------------------------------------------------------------
(* values is a sequence of pairs of a number and its width.                *)
BitArray(values) ==
  FlattenSeq([j \in DOMAIN values |->
                [k \in 1 .. values[j][2] |-> (values[j][1] \div 2 ^ (k - 1)) % 2]])

(* GetValueAt reads eight bytes, perhaps after the end, and masks the bits. *)
ValueAt(data, index, num_bits) ==
  MapThenSumSet(LAMBDA k : data[index + k] * 2 ^ (k - 1),
                {k \in 1 .. num_bits : index + k <= Len(data)})

PackedArray(values) ==
  LET num_bits == Needed(Max(Range(values) \union {0}))
  IN  [bits_per_value |-> num_bits,
       data |-> BitArray([j \in DOMAIN values |-> <<values[j], num_bits>>])]

PackedAt(array, index) ==
  ValueAt(array.data, index * array.bits_per_value, array.bits_per_value)

-----------------------------------------------------------------------------
(* The line through the first and the last value, in 1/1024, and how much  *)
(* each value is above it.  One value alone has no line (0.0 / 0), but its *)
(* multiplier is only used times 0.                                        *)
IncreasingArray(vec) ==
  LET multiplier == IF Len(vec) = 1 THEN 0
                    ELSE (1024 * (Last(vec) - vec[1])) \div (Len(vec) - 1)
      offsets == [j \in DOMAIN vec |->
                    vec[j] - ((j - 1) * multiplier) \div 1024 - vec[1]]
      min_offset == Min(Range(offsets))
  IN  [multiplier      |-> multiplier,
       value_shift     |-> vec[1] + min_offset,
       shifted_offsets |-> PackedArray([j \in DOMAIN vec |-> offsets[j] - min_offset])]

IncreasingAt(array, index) ==
  (index * array.multiplier) \div 1024
    + PackedAt(array.shifted_offsets, index) + array.value_shift

(* A line for each part; val is not empty.                                 *)
CompIncreasingArray(val, last) ==
  [num_values |-> Len(val),
   last_val_last_index |-> last,
   mia_vec |->
     [p \in 1 .. (Len(val) + PartSize - 1) \div PartSize |->
        IncreasingArray(SubSeq(val, (p - 1) * PartSize + 1,
                               Min({p * PartSize, Len(val)})))]]

CompIncreasingAt(array, index) ==
  IncreasingAt(array.mia_vec[index \div PartSize + 1], index % PartSize)

(* Where a run of values that starts at an element begins and ends.        *)
FirstLastPair(array, index) ==
  LET last == IF index < array.num_values - 1
              THEN CompIncreasingAt(array, index + 1) - 1
              ELSE array.last_val_last_index
  IN  IF last = -1 THEN <<1, 0>> ELSE <<CompIncreasingAt(array, index), last>>
=============================================================================
