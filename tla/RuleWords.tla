------------------------------- MODULE RuleWords -------------------------------
(***************************************************************************)
(* mapKeyWords of src/ruleprocessor/decoder.go: the split of a condition   *)
(* string into its words.  strings.FieldsFunc calls the predicate once per *)
(* rune, left to right; the predicate toggles `quoted' on each quote mark  *)
(* and reports a space outside quotes as a separator.  A field is a        *)
(* maximal run of non-separators; empty fields are dropped.  A string is a *)
(* sequence of one-letter strings.                                         *)
(***************************************************************************)
EXTENDS Sequences, SequencesExt

quoteMark == "'"
spaceChar == " "

\* The fold state: the closure's `quoted', the fields so far and the field
\* being read.
FieldsStart == [quoted |-> FALSE, fields |-> <<>>, cur |-> <<>>]
EndField(st) ==
    IF st.cur = <<>> THEN st.fields ELSE Append(st.fields, st.cur)

\* Mutant: the predicate ignores quote marks.
mapKeyWordsNoQuotes(s) ==
    LET step(st, r) ==
            IF r = spaceChar
            THEN [st EXCEPT !.fields = EndField(st), !.cur = <<>>]
            ELSE [st EXCEPT !.cur = Append(st.cur, r)]
    IN  EndField(FoldLeft(step, FieldsStart, s))

\* mapKeyWords: FieldsFunc with the quote-tracking predicate.
mapKeyWords(s) ==
    LET step(st, r) ==
            LET quoted == IF r = quoteMark THEN ~st.quoted ELSE st.quoted
            IN  IF ~quoted /\ r = spaceChar
                THEN [quoted |-> quoted, fields |-> EndField(st), cur |-> <<>>]
                ELSE [quoted |-> quoted, fields |-> st.fields, cur |-> Append(st.cur, r)]
    IN  EndField(FoldLeft(step, FieldsStart, s))

=============================================================================
