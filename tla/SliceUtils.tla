------------------------------ MODULE SliceUtils ------------------------------
(***************************************************************************)
(* The string-slice functions of src/utils/sliceutils/slice.go:            *)
(* ContainsStringSlice, ProcessSliceOperation and IntersectionString.      *)
(* A []string is a sequence of model values; a Go map used as a set is a   *)
(* set.  A slice is a value here: that append may write into the backing   *)
(* array of its argument is not represented.                               *)
(***************************************************************************)
EXTENDS Sequences, SequencesExt

\* The SliceOperation constants; any other value reaches the default case.
OpAppend == "append"
OpOverwrite == "overwrite"
OpRemove == "remove"

\* ContainsStringSlice: false when contained is the longer slice, else
\* whether every element of contained is found in container.
ContainsStringSlice(container, contained) ==
    /\ Len(contained) <= Len(container)
    /\ \A i \in DOMAIN contained : Contains(container, contained[i])

\* Mutant: remove takes out only the first occurrence of each value.
ProcessSliceOperationRemoveOnce(ini, op, values) ==
    CASE op = OpAppend    -> ini \o values
      [] op = OpOverwrite -> values
      [] op = OpRemove    -> FoldLeft(LAMBDA acc, v : RemoveFirst(acc, v), ini, values)
      [] OTHER            -> <<>>

\* ProcessSliceOperation: append, overwrite, or keep the elements of ini
\* not among values; nil (the empty slice) for an unknown op.
ProcessSliceOperation(ini, op, values) ==
    CASE op = OpAppend    -> ini \o values
      [] op = OpOverwrite -> values
      [] op = OpRemove    -> SelectSeq(ini, LAMBDA s : ~Contains(values, s))
      [] OTHER            -> <<>>

\* Mutant: the sets are built from slices[2:], skipping the second slice.
IntersectionStringSkipSecond(slices) ==
    IF slices = <<>> THEN <<>>
    ELSE IF Len(slices) = 1 THEN slices[1]
    ELSE
    LET keep(out, v) ==
            IF v \notin ToSet(out) /\ \A j \in 3..Len(slices) : v \in ToSet(slices[j])
            THEN Append(out, v) ELSE out
    IN  FoldLeft(keep, <<>>, slices[1])

\* IntersectionString: [] for no slices, the first slice itself for one;
\* otherwise the slices after the first become sets, and each element of
\* the first slice found in all of them is kept once (the `got' set).
IntersectionString(slices) ==
    IF slices = <<>> THEN <<>>
    ELSE IF Len(slices) = 1 THEN slices[1]
    ELSE
    LET mapsList == [j \in 1..Len(slices) - 1 |-> ToSet(slices[j + 1])]
        keep(out, v) ==
            IF v \notin ToSet(out) /\ \A j \in DOMAIN mapsList : v \in mapsList[j]
            THEN Append(out, v) ELSE out
    IN  FoldLeft(keep, <<>>, slices[1])

\* Mutant: an entry is compared with the previous one only.
UniqueAdjacent(stringSlice) ==
    FoldLeft(LAMBDA list, entry :
                 IF list # <<>> /\ Last(list) = entry THEN list ELSE Append(list, entry),
             <<>>, stringSlice)

\* Unique: each entry the first time it is seen (the `keys' map).
Unique(stringSlice) ==
    FoldLeft(LAMBDA list, entry :
                 IF entry \in ToSet(list) THEN list ELSE Append(list, entry),
             <<>>, stringSlice)

=============================================================================
