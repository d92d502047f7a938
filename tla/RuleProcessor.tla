----------------------------- MODULE RuleProcessor -----------------------------
(***************************************************************************)
(* The rule processor of src/ruleprocessor.                                *)
(*                                                                         *)
(* A rule is a condition string "key op value [logic key op value ...]"    *)
(* and a result value.  decodeConditionsString turns its words into a      *)
(* chain of ruleConditions; IsValid runs the chain with short-circuit      *)
(* stops; Process returns the value of the first valid chain, or the       *)
(* default.  Every syntax error is l.Fatal, which exits the process.       *)
(*                                                                         *)
(* Everything here is a pure function, written as operators.  Go dynamic   *)
(* values (interface{}) are records [t |-> type, v |-> value]; a string    *)
(* is a sequence of one-letter strings, so that strings.ToLower and        *)
(* strings.Contains are computed, not assumed.  mapKeyWords (splitting on  *)
(* spaces outside quotes) is abstracted: a rule arrives as its words, a    *)
(* value word being [kind |-> "quoted", s], [kind |-> "num", n] (digits)   *)
(* or [kind |-> "word", w].  Integers of `Bits' bits stand for int64:      *)
(* TLC's integers are 32 bits wide, and the wrap of uint64 is the same at  *)
(* every width.                                                            *)
(***************************************************************************)
EXTENDS Integers, Sequences, SequencesExt

CONSTANTS
    Bits,        \* width of int64/uint64 (scaled down)
    Rules,       \* inputs: sequences of rules, each [conds, logic]
    Fields,      \* inputs: the map given to Process (key -> value)
    LowerFlags   \* inputs: values of force-lowercase

VARIABLES rules, fields, flc
vars == <<rules, fields, flc>>

(***************************************************************************)
(* types.go                                                                *)
(***************************************************************************)
Signed == {"int", "int8", "int16", "int32", "int64"}
Unsigned == {"uint", "uint8", "uint16", "uint32", "uint64"}
\* uint and uint64 are as wide as int64: int64(t) wraps above 2^(Bits-1)-1
Wide == {"uint", "uint64"}

IsInt64Able(x) == x.t \in Signed \cup Unsigned

asInt64(x) ==
    IF x.t \in Wide /\ x.v >= 2^(Bits - 1) THEN x.v - 2^Bits ELSE x.v

Int64(n) == [t |-> "int64", v |-> n]

(***************************************************************************)
(* test_functions.go                                                       *)
(***************************************************************************)
\* Go's == on interface values: same dynamic type and same value.
GoEq(a, b) == a.t = b.t /\ a.v = b.v

equalsTest(a, b) ==
    GoEq(IF IsInt64Able(a) THEN Int64(asInt64(a)) ELSE a, b)

\* strings.Contains(a, b)
StrContains(a, b) ==
    \E i \in 0..(Len(a) - Len(b)) : SubSeq(a, i + 1, i + Len(b)) = b

containsTest(a, b) ==
    a.t = "string" /\ b.t = "string" /\ StrContains(a.v, b.v)

withInt64(test(_, _), a, b) ==
    IsInt64Able(a) /\ IsInt64Able(b) /\ test(asInt64(a), asInt64(b))

withNot(test(_, _), a, b) == ~test(a, b)

Ops == {"==", "!=", "has", "!has", ">", "<", ">=", "<="}

\* testOperatorsList[op](a, b)
testOperatorsList(op, a, b) ==
    CASE op = "=="   -> equalsTest(a, b)
      [] op = "!="   -> withNot(equalsTest, a, b)
      [] op = "has"  -> containsTest(a, b)
      [] op = "!has" -> withNot(containsTest, a, b)
      [] op = ">"    -> withInt64(LAMBDA x, y : x > y, a, b)
      [] op = "<"    -> withInt64(LAMBDA x, y : x < y, a, b)
      [] op = ">="   -> withInt64(LAMBDA x, y : x >= y, a, b)
      [] op = "<="   -> withInt64(LAMBDA x, y : x <= y, a, b)

(***************************************************************************)
(* rule_condition.go                                                       *)
(***************************************************************************)
ToLower(s) == [i \in DOMAIN s |-> IF s[i] = "A" THEN "a" ELSE s[i]]

\* Mutant: the content is tested as it is, not lowercased.
IsOKNoLower(test, content) ==
    LET result == testOperatorsList(test.op, content, test.value)
    IN  [result |-> result, doStop |-> result # test.stopOnFail]

\* IsOK(content): lowercase a string content when forced, run the test;
\* stop when the result differs from stopOnFail.
IsOK(test, content) ==
    LET c == IF content.t = "string" /\ test.lower
               THEN [content EXCEPT !.v = ToLower(content.v)] ELSE content
        result == testOperatorsList(test.op, c, test.value)
    IN  [result |-> result, doStop |-> result # test.stopOnFail]

(***************************************************************************)
(* rule_chain.go                                                           *)
(***************************************************************************)
\* Mutant: the chain answers TRUE when no test stopped it.
RECURSIVE IsValidEndTrue(_, _, _)
IsValidEndTrue(tests, i, fs) ==
    IF i > Len(tests) THEN TRUE
    ELSE LET test == tests[i] IN
         IF test.key \notin DOMAIN fs
           THEN IF test.stopOnFail THEN FALSE ELSE IsValidEndTrue(tests, i + 1, fs)
         ELSE LET r == IsOK(test, fs[test.key]) IN
              IF r.doStop THEN r.result ELSE IsValidEndTrue(tests, i + 1, fs)

\* IsValid(fields), from test i on: a missing field fails an AND test and
\* is skipped otherwise; a test that stops decides; the end is FALSE.
RECURSIVE IsValid(_, _, _)
IsValid(tests, i, fs) ==
    IF i > Len(tests) THEN FALSE
    ELSE LET test == tests[i] IN
         IF test.key \notin DOMAIN fs
           THEN IF test.stopOnFail THEN FALSE ELSE IsValid(tests, i + 1, fs)
         ELSE LET r == IsOK(test, fs[test.key]) IN
              IF r.doStop THEN r.result ELSE IsValid(tests, i + 1, fs)

(***************************************************************************)
(* decoder.go                                                              *)
(***************************************************************************)
\* strings.ToLower of a logic-operator word (the words inputs use)
LowerWord(w) == IF w \in {"AND", "And"} THEN "and"
                ELSE IF w \in {"OR", "Or"} THEN "or" ELSE w

\* The test value of a value word and the operators allowed with it; not ok
\* for a word that is neither quoted, true, false nor an integer.
TestValue(word, lower) ==
    CASE word.kind = "quoted" ->
           [ok |-> TRUE, allowed |-> {"==", "!=", "has", "!has"},
            value |-> [t |-> "string", v |-> IF lower THEN ToLower(word.s) ELSE word.s]]
      [] word.kind = "word" /\ word.w \in {"true", "false"} ->
           [ok |-> TRUE, allowed |-> {"==", "!="},
            value |-> [t |-> "bool", v |-> word.w = "true"]]
      [] word.kind = "num" ->
           [ok |-> TRUE, allowed |-> {"==", "!=", ">", ">=", "<", "<="},
            value |-> Int64(word.n)]
      [] OTHER -> [ok |-> FALSE, allowed |-> {}, value |-> Int64(0)]

\* The result of decoding: the tests, or a syntax error (l.Fatal).
Failed == [ok |-> FALSE, tests |-> <<>>]

\* decodeConditionsString from word i on, with the tests decoded so far.
RECURSIVE DecodeFrom(_, _, _, _)
DecodeFrom(kw, i, acc, lower) ==
    IF i > Len(kw) THEN [ok |-> TRUE, tests |-> acc]
    ELSE IF i + 2 > Len(kw) THEN Failed                     \* incomplete rule
    ELSE LET key == kw[i]
             op == kw[i + 1]
             hasLogic == i + 3 <= Len(kw)
             logic == IF hasLogic THEN LowerWord(kw[i + 3]) ELSE ""
             tv == TestValue(kw[i + 2], lower)
         IN  IF op \notin Ops \/ logic \notin {"", "and", "or"} \/ ~tv.ok
               THEN Failed
             ELSE IF op \notin tv.allowed THEN Failed
             ELSE DecodeFrom(kw, IF hasLogic THEN i + 4 ELSE i + 3,
                             Append(acc, [key |-> key, op |-> op, value |-> tv.value,
                                          stopOnFail |-> logic = "and",
                                          lower |-> lower]),
                             lower)

decodeConditionsString(kw, lower) == DecodeFrom(kw, 1, <<>>, lower)

(***************************************************************************)
(* rule_processor.go: NewFrom/AddRule decode every rule (a syntax error    *)
(* exits, here -1); Process returns the value of the first valid chain,    *)
(* here its position, or the default, here 0.                              *)
(***************************************************************************)
RECURSIVE ProcessFrom(_, _, _)
ProcessFrom(chains, i, fs) ==
    IF i > Len(chains) THEN 0
    ELSE IF IsValid(chains[i].tests, 1, fs) THEN i
    ELSE ProcessFrom(chains, i + 1, fs)

\* The words of a rule's condition string, a rule being its conditions
\* [key, op, val] and the logic words between them.
RECURSIVE Words(_, _)
Words(r, i) ==
    IF i > Len(r.conds) THEN <<>>
    ELSE <<r.conds[i].key, r.conds[i].op, r.conds[i].val>>
         \o (IF i <= Len(r.logic) THEN <<r.logic[i]>> ELSE <<>>)
         \o Words(r, i + 1)

Process(rs, fs, lower) ==
    LET chains == [i \in DOMAIN rs |-> decodeConditionsString(Words(rs[i], 1), lower)]
    IN  IF \E i \in DOMAIN chains : ~chains[i].ok THEN -1
        ELSE ProcessFrom(chains, 1, fs)

Init ==
    /\ rules \in Rules
    /\ fields \in Fields
    /\ flc \in LowerFlags

\* Process is a pure function of its inputs.
Next == UNCHANGED vars

Spec == Init /\ [][Next]_vars

-----------------------------------------------------------------------------
(***************************************************************************)
(* Reference: what a rule means as a boolean expression over its fields.   *)
(***************************************************************************)

Numeric == Signed \cup Unsigned \cup {"float64"}
Lowered(s, lower) == IF lower THEN ToLower(s) ELSE s

\* A condition on a present field, by the meaning of its operator; a
\* missing field makes the condition false.
RefLeaf(c, fs, lower) ==
    c.key \in DOMAIN fs /\
    LET x == fs[c.key]
        isStr == x.t = "string"
        eqStr == isStr /\ Lowered(x.v, lower) = Lowered(c.val.s, lower)
        hasStr == isStr /\ StrContains(Lowered(x.v, lower), Lowered(c.val.s, lower))
        num == x.t \in Numeric
    IN  CASE c.val.kind = "quoted" /\ c.op = "=="   -> eqStr
          [] c.val.kind = "quoted" /\ c.op = "!="   -> ~eqStr
          [] c.val.kind = "quoted" /\ c.op = "has"  -> hasStr
          [] c.val.kind = "quoted" /\ c.op = "!has" -> ~hasStr
          [] c.val.kind = "word" /\ c.op = "==" -> x.t = "bool" /\ x.v = (c.val.w = "true")
          [] c.val.kind = "word" /\ c.op = "!=" -> ~(x.t = "bool" /\ x.v = (c.val.w = "true"))
          [] c.op = "==" -> num /\ x.v = c.val.n
          [] c.op = "!=" -> ~(num /\ x.v = c.val.n)
          [] c.op = ">"  -> num /\ x.v > c.val.n
          [] c.op = "<"  -> num /\ x.v < c.val.n
          [] c.op = ">=" -> num /\ x.v >= c.val.n
          [] c.op = "<=" -> num /\ x.v <= c.val.n

\* A rule is well formed: a logic word, "and" or "or" in any case, between
\* consecutive conditions, and each operator applicable to its value.
RefAllowed(c) ==
    CASE c.val.kind = "quoted" -> c.op \in {"==", "!=", "has", "!has"}
      [] c.val.kind = "word"   -> c.val.w \in {"true", "false"} /\ c.op \in {"==", "!="}
      [] c.val.kind = "num"    -> c.op \in Ops \ {"has", "!has"}

WellFormed(r) ==
    /\ Len(r.conds) >= 1
    /\ Len(r.logic) = Len(r.conds) - 1
    /\ \A i \in DOMAIN r.logic : LowerWord(r.logic[i]) \in {"and", "or"}
    /\ \A i \in DOMAIN r.conds : RefAllowed(r.conds[i])

IsAnd(r, i) == LowerWord(r.logic[i]) = "and"

\* Each logic word joins a condition to everything on its right:
\* c1 op1 (c2 op2 (... cn)).
RightNested(r, fs, lower) ==
    LET n == Len(r.conds)
        leaf(i) == RefLeaf(r.conds[i], fs, lower)
        step(i, rest) == IF IsAnd(r, i) THEN leaf(i) /\ rest ELSE leaf(i) \/ rest
    IN  FoldRight(step, [i \in 1..n - 1 |-> i], leaf(n))

\* The usual precedence: AND binds tighter than OR, so the rule holds iff
\* some maximal run of AND-joined conditions all hold.
AndBeforeOr(r, fs, lower) ==
    LET n == Len(r.conds) IN
    \E i \in 1..n : \E j \in i..n :
        /\ i = 1 \/ ~IsAnd(r, i - 1)
        /\ j = n \/ ~IsAnd(r, j)
        /\ \A k \in i..(j - 1) : IsAnd(r, k)
        /\ \A k \in i..j : RefLeaf(r.conds[k], fs, lower)

RefProcess(Holds(_, _, _), rs, fs, lower) ==
    IF \E i \in DOMAIN rs : ~WellFormed(rs[i]) THEN -1
    ELSE LET valid == {i \in DOMAIN rs : Holds(rs[i], fs, lower)}
         IN  IF valid = {} THEN 0 ELSE Min(valid)

-----------------------------------------------------------------------------

\* Process answers what the rules mean when a logic word joins a condition
\* to the rest of its rule (the short-circuit loop of ruleChain.IsValid with
\* the stopOnFail that decodeConditionsString derives from "and"/"or"),
\* and rejects exactly the malformed rules.
ProcessMatchesRightNested ==
    Process(rules, fields, flc) = RefProcess(RightNested, rules, fields, flc)

\* Process answers what the rules mean with AND binding tighter than OR, as
\* "a and b or c" is commonly read.
ProcessMatchesPrecedence ==
    Process(rules, fields, flc) = RefProcess(AndBeforeOr, rules, fields, flc)

\* A comparison with an integer in a rule compares the field's numeric
\* value, whatever its Go numeric type (types.go: asInt64 "may get
\* truncated" for uint64).
NumericComparisonsAreNumeric ==
    \A i \in DOMAIN rules : \A j \in DOMAIN rules[i].conds :
        LET c == rules[i].conds[j] IN
        c.val.kind = "num" /\ RefAllowed(c) /\ c.key \in DOMAIN fields =>
            (testOperatorsList(c.op, fields[c.key], Int64(c.val.n))
                = RefLeaf(c, fields, flc))

=============================================================================
