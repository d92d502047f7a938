---------------------------- MODULE MCRuleProcessor ----------------------------
(***************************************************************************)
(* Inputs for the rule processor: every rule of a bounded shape over a     *)
(* few keys, values and logic words, with every field map over a few Go    *)
(* values.                                                                 *)
(***************************************************************************)
EXTENDS RuleProcessor

CONSTANTS k1, k2

Str(s) == [t |-> "string", v |-> s]
Quoted(s) == [kind |-> "quoted", s |-> s]
Num(n) == [kind |-> "num", n |-> n]
Word(w) == [kind |-> "word", w |-> w]

\* Rules of one chain of one or two conditions on one key.
OneChain(conds, logic) ==
    {<<[conds |-> <<c>>, logic |-> <<>>]>> : c \in conds}
    \cup {<<[conds |-> <<c, d>>, logic |-> <<w>>]>> : c, d \in conds, w \in logic}

\* Every field map over the keys: a key absent or holding one of the values.
FieldMaps(keys, values) ==
    UNION {[ks -> values] : ks \in SUBSET keys}

(* Operators, test values and contents: every operator against a string, a
   boolean, a number and a word that is none of them; contents of three Go
   types, strings in two cases. *)
EvalConds ==
    [key : {k1}, op : Ops,
     val : {Quoted(<<"a">>), Quoted(<<"b">>), Word("true"), Word("yes"), Num(1)}]
EvalRules == OneChain(EvalConds, {"and", "OR", "xor"})
EvalFields ==
    FieldMaps({k1}, {[t |-> "int", v |-> 1], [t |-> "uint8", v |-> 1],
                     [t |-> "int", v |-> 0], [t |-> "bool", v |-> TRUE],
                     Str(<<"A">>), Str(<<"a", "b">>)})

(* Chains: "k == true" conditions on two keys joined by and/or, up to three
   per chain, one or two chains per processor. *)
ChainConds == [key : {k1, k2}, op : {"=="}, val : {Word("true")}]
Chains ==
    UNION {{[conds |-> cs, logic |-> ls] :
               cs \in [1..n -> ChainConds], ls \in [1..n - 1 -> {"and", "or"}]} : n \in 1..3}
ChainRules == {<<r>> : r \in Chains} \cup {<<r, s>> : r, s \in Chains}
ChainFields ==
    FieldMaps({k1, k2}, {[t |-> "bool", v |-> TRUE], [t |-> "bool", v |-> FALSE]})

\* Both shapes, each against both sets of field maps.
AllRules == EvalRules \cup ChainRules
AllFields == EvalFields \cup ChainFields

(* Numbers: comparisons with 0 and 1 against integer, unsigned and float
   contents; 2^(Bits-1) is the least uint64 that int64() wraps. *)
NumConds == [key : {k1}, op : {"==", ">", "<"}, val : {Num(0), Num(1)}]
NumRules == {<<[conds |-> <<c>>, logic |-> <<>>]>> : c \in NumConds}
NumFields ==
    FieldMaps({k1}, {[t |-> "int", v |-> 1], [t |-> "uint64", v |-> 1],
                     [t |-> "uint64", v |-> 2^(Bits - 1)], [t |-> "float64", v |-> 1]})

=============================================================================
