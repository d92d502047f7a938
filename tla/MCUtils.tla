------------------------------- MODULE MCUtils --------------------------------
(***************************************************************************)
(* The string and slice utilities, called on every input of a bounded      *)
(* shape: `call' is one call, chosen in Init, and the properties compare   *)
(* its result with what the function is documented to compute.            *)
(***************************************************************************)
EXTENDS StringUtils, SliceUtils, RuleWords, ConsulHandler, HttpUtils, Logging,
        CryptoUtils

CONSTANTS MaxPlaces   \* decimal places tried: 0..MaxPlaces (and -1 for ParseValue)

VARIABLE call

Strs == {"x", "y"}

\* Decimal strings: a sign or none, one to three integer digits, and no
\* point or a point and up to two decimals.
Signs == {<<>>, <<"-">>, <<"+">>}
IntDigits == {<<d>> : d \in {"0", "1", "9"}}
             \cup {<<d, e>> : d, e \in {"0", "1", "9"}} \cup {<<"1", "2", "8">>}
Fractions == BoundedSeq({"0", "5", "9"}, 2)
Decimals ==
    {sg \o ip : sg \in Signs, ip \in IntDigits}
    \cup {sg \o ip \o <<".">> \o fr : sg \in Signs, ip \in IntDigits, fr \in Fractions}
\* Strings that are not decimals.
Malformed ==
    {<<>>, <<"-">>, <<".", "5">>, <<"1", "x">>, <<"-", "-", "1">>,
     <<"1", ".", "-", "5">>, <<"1", ".", "+", "5">>, <<"1", ".", "5", ".", "0">>}

Slices == BoundedSeq(Strs, 2)

\* Condition words: letters, quote marks and spaces, with the quotes
\* balanced and every space inside a quoted stretch ("a", "'a a'").
QuotesBefore(w, i) == Len(SelectSeq(SubSeq(w, 1, i - 1), LAMBDA c : c = quoteMark))
IsWord(w) ==
    /\ QuotesBefore(w, Len(w) + 1) % 2 = 0
    /\ \A i \in DOMAIN w : w[i] = spaceChar => QuotesBefore(w, i) % 2 = 1
Words == {w \in BoundedSeq({"a", quoteMark, spaceChar}, 3) : w # <<>> /\ IsWord(w)}
\* Service names and instance IDs: one or two of "a" and "_".
Names == BoundedSeq({"a", "_"}, 2) \ {<<>>}
\* DTO fields and request objects: some of two fields set to one of two
\* values.
Fields == {"a", "b"}
Objects == UNION {[D -> {"1", "2"}] : D \in SUBSET Fields}
FormBodies == BoundedSeq(Fields \X {"1", "2"}, 2)
JSONCharset == "application/json; charset=utf-8"
\* Requests by method: GET, DELETE and HEAD carry path variables and a
\* query; PUT, POST and PATCH a JSON body, or a form body and a query.
Requests ==
    [method : {"GET", "DELETE", "HEAD"}, ctype : {NoHeader}, vars : Objects,
     query : Objects, form : {<<>>}, body : {NoBytes}, valid : BOOLEAN]
    \cup [method : {"PUT", "POST", "PATCH"}, ctype : {NoHeader, JSONType, JSONCharset},
          vars : {NoFields}, query : {NoFields}, form : {<<>>},
          body : {JSONObject(o) : o \in Objects} \cup {NoBytes, NotJSON}, valid : BOOLEAN]
    \cup [method : {"PUT", "POST", "PATCH"}, ctype : {FormType}, vars : {NoFields},
          query : Objects, form : FormBodies, body : {NoBytes}, valid : BOOLEAN]
\* Bearer tokens: "t" carries a string user_id and sub, "u" a numeric
\* user_id; anything else does not parse.
Headers == BoundedSeq({"B", " ", "t", "u"}, 3)
Claims == [token \in Headers |->
    [parsed |-> token \in {<<"t">>, <<"u">>},
     m |-> IF token = <<"t">>
           THEN ("user_id" :> [t |-> "string", v |-> <<"x">>])
                  @@ ("sub" :> [t |-> "string", v |-> <<"y">>])
           ELSE IF token = <<"u">> THEN "user_id" :> [t |-> "number", v |-> <<"1">>]
           ELSE NoFields]]
Spaces(n) == [i \in 1..n |-> spaceChar]
\* Logger chains: a root New, then up to three of a child New, SetFrom,
\* SetThread and SetInt; the caller's function name with or without a
\* package prefix.
LogOps ==
    [op : {"new"}, name : {<<>>, <<"c">>}] \cup [op : {"from", "thread"}, v : {"v"}]
    \cup [op : {"int"}, f : {fromFieldName, "client_id"}, n : {1}]
Callers == {<<"m", ".", "F">>, <<"F">>}
Levels == {"debug", "info", "warn", "error", "fatal"}
\* Write calls: a level, or an event that is not JSON; whether a GC
\* emptied the pool; how many bytes of the buffer Out accepts.
WriteIOs == [gc : BOOLEAN, accept : {0, 3, 7}]
\* Keys: two valid AES keys and one of a wrong length; a text that is not
\* base64.
AESKeys == {[id |-> "k1", len |-> 16], [id |-> "k2", len |-> 32], [id |-> "k3", len |-> 5]}
NotBase64 == [raw |-> "%"]

Calls ==
    [fn : {"format"}, v : MinInt..MaxInt, p : 0..MaxPlaces]
    \cup [fn : {"parse"}, s : Decimals \cup Malformed, p : -1..MaxPlaces]
    \cup [fn : {"between"}, s : BoundedSeq({"a", "b", "x"}, 4),
          a : {<<>>, <<"a">>, <<"a", "x">>}, b : {<<"b">>, <<"x">>}]
    \cup [fn : {"intersect"}, slices : {<<>>} \cup UNION {[1..n -> Slices] : n \in 1..3}]
    \cup [fn : {"contains"}, container : Slices, contained : Slices]
    \cup [fn : {"sliceop"}, ini : Slices, op : {OpAppend, OpOverwrite, OpRemove, "other"},
          values : Slices]
    \cup [fn : {"consul"}, s1 : Names, i1 : Names, s2 : Names, i2 : Names,
          iv1 : 0..1, iv2 : 0..1]
    \cup [fn : {"bind"}, r : Requests]
    \cup [fn : {"normalize"}, text : BoundedSeq({"e", "é", "acute", "Z", "_", "!", "\t"}, 3)]
    \cup [fn : {"unique"}, s : BoundedSeq(Strs \cup {"z"}, 4)]
    \cup [fn : {"claim"}, h : Headers, claim : {"user_id", "sub"}]
    \cup UNION {[fn : {"log"}, root : {<<>>, <<"r">>}, caller : Callers,
                 ops : [1..n -> LogOps], level : Levels] : n \in 0..3}
    \cup UNION {[fn : {"console"}, levels : [1..n -> {"info", "fatal", "bad"}],
                 ios : [1..n -> WriteIOs]] : n \in 0..3}
    \cup [fn : {"crypt"}, s1 : {"s1", "s2"}, s2 : {"s1", "s2"}, k1 : AESKeys, k2 : AESKeys]
    \cup UNION {[fn : {"keywords"}, words : [1..n -> Words], seps : [1..n -> 1..2],
                 lead : 0..1] : n \in 0..3}

Init == call \in Calls

\* The utilities are pure functions of their inputs.
Next == UNCHANGED call

Spec == Init /\ [][Next]_call

-----------------------------------------------------------------------------
(***************************************************************************)
(* Reference meanings.                                                     *)
(***************************************************************************)

\* A decimal string: an optional sign, integer digits, and optionally a
\* point followed by digits.
Body(s) == IF s # <<>> /\ s[1] \in {"+", "-"} THEN Tail(s) ELSE s
PointAt(s) == SelectInSeq(Body(s), LAMBDA c : c = ".")
IntOf(s) == IF PointAt(s) = 0 THEN Body(s) ELSE SubSeq(Body(s), 1, PointAt(s) - 1)
FracOf(s) == IF PointAt(s) = 0 THEN <<>> ELSE SubSeq(Body(s), PointAt(s) + 1, Len(Body(s)))
IsDecimal(s) ==
    /\ IntOf(s) # <<>>
    /\ ToSet(IntOf(s)) \cup ToSet(FracOf(s)) \subseteq Digits

\* The number the decimal denotes, times 10^p, truncated toward zero.
Exact(s, p) ==
    LET num == FoldLeft(LAMBDA acc, c : 10 * acc + DigitValue(c), 0, IntOf(s) \o FracOf(s))
        mag == (num * 10^p) \div 10^Len(FracOf(s))
    IN  IF s[1] = "-" THEN -mag ELSE mag

\* t is s with some of its elements left out (matching greedily is exact).
RECURSIVE IsSubsequence(_, _)
IsSubsequence(t, s) ==
    \/ t = <<>>
    \/ /\ s # <<>>
       /\ IF Head(t) = Head(s) THEN IsSubsequence(Tail(t), Tail(s))
          ELSE IsSubsequence(t, Tail(s))

\* The text after the first a, up to the first b that follows it.
RefBetween(s, a, b) ==
    LET pf == Index(s, a)
        rest == SubSeq(s, pf + Len(a) + 1, Len(s))
    IN  IF pf = -1 \/ Index(rest, b) = -1 THEN <<>>
        ELSE SubSeq(rest, 1, Index(rest, b))

\* The words joined as a condition string: lead spaces, then each word
\* followed by its run of spaces.
Joined(c) ==
    Spaces(c.lead) \o FoldLeft(LAMBDA acc, i : acc \o c.words[i] \o Spaces(c.seps[i]),
                               <<>>, [i \in DOMAIN c.words |-> i])

\* The values of a form body, the later of two for one key.
FormValues(form) == FoldLeft(LAMBDA acc, p : (p[1] :> p[2]) @@ acc, NoFields, form)
FormKeys(form) == {form[i][1] : i \in DOMAIN form}

\* What a request carries: the query overlaid by the path variables for
\* GET and DELETE, the JSON body, or the form's values for a form.
RefBound(r) ==
    IF r.method \in {"GET", "DELETE"} THEN r.vars @@ r.query
    ELSE IF r.ctype = FormType THEN FormValues(r.form) @@ r.query
    ELSE r.body.o

\* The logger a chain builds, and what its last step setting f put there:
\* the root's or a child's name, a string, or "" for a number.
ApplyLogOp(ctx, o, caller) ==
    IF o.op = "new" THEN LoggerNew(ctx, o.name, caller)
    ELSE IF o.op = "from" THEN SetFrom(ctx, o.v)
    ELSE IF o.op = "thread" THEN SetThread(ctx, o.v)
    ELSE SetInt(ctx, o.f, o.n)
ChainOf(c) == FoldLeft(LAMBDA ctx, o : ApplyLogOp(ctx, o, c.caller), New(c.root, c.caller), c.ops)
Sets(o, f) ==
    \/ o.op = "new" /\ f = loggerFieldName
    \/ o.op = "from" /\ f = fromFieldName
    \/ o.op = "thread" /\ f = threadNameFieldName
    \/ o.op = "int" /\ o.f = f
LastSet(c, f) ==
    LET i == SelectLastInSeq(c.ops, LAMBDA o : Sets(o, f))
    IN  IF i = 0 THEN (IF f = loggerFieldName THEN getFuncName(c.root, c.caller) ELSE "")
        ELSE IF c.ops[i].op = "new" THEN getFuncName(c.ops[i].name, c.caller)
        ELSE IF c.ops[i].op = "int" THEN ""
        ELSE c.ops[i].v

\* The events of a sequence of write calls: the i-th logs message i.
ConsoleEvents(c) ==
    [i \in DOMAIN c.levels |->
        IF c.levels[i] = "bad" THEN NotJSONEvent
        ELSE LogEvent(New(<<"r">>, <<"F">>), c.levels[i], <<"m1", "m2", "m3">>[i], "ts")]

\* The position of the first occurrence of v in s.
FirstIndex(s, v) == SelectInSeq(s, LAMBDA x : x = v)

\* The letters e a text spells: e, é, or e with a combining acute.
Es(text) == Len(SelectSeq(text, LAMBDA c : c \in {"e", "é"}))

-----------------------------------------------------------------------------
(***************************************************************************)
(* Properties.                                                             *)
(***************************************************************************)

(* FormatValue then ParseValue with the same number of places gives back
   the value, for every int and every number of places whose power of ten
   is an int: negative values with a zero integer part ("-0.05") and the
   least int included. *)
FormatParseRoundTrip ==
    call.fn = "format" /\ 10^call.p <= MaxInt =>
        ParseValue(FormatValue(call.v, call.p), call.p) = Ok(call.v)

(* ParseValue of a decimal string is its value times 10^placesToRight,
   truncated toward zero ("2.554", 2 -> 255; "-2.555", 2 -> -255), whenever
   that fits an int: the sign of value[0] carried to the cents, and the
   cents cut or padded. *)
ParseValueTruncates ==
    call.fn = "parse" /\ IsDecimal(call.s) /\ call.p >= 0
      /\ Exact(call.s, call.p) \in MinInt..MaxInt =>
        ParseValue(call.s, call.p) = Ok(Exact(call.s, call.p))

(* IntersectionString of one or more slices holds exactly the strings found
   in every slice, in the order of the first slice. *)
IntersectionIsCommon ==
    call.fn = "intersect" /\ call.slices # <<>> =>
        LET out == IntersectionString(call.slices)
        IN  /\ ToSet(out) = {v \in ToSet(call.slices[1]) :
                               \A j \in DOMAIN call.slices : v \in ToSet(call.slices[j])}
            /\ IsSubsequence(out, call.slices[1])

(* ProcessSliceOperation: removing values from ini with those values
   appended gives what removing them from ini gives. *)
RemoveUndoesAppend ==
    call.fn = "sliceop" =>
        ProcessSliceOperation(ProcessSliceOperation(call.ini, OpAppend, call.values),
                              OpRemove, call.values)
          = ProcessSliceOperation(call.ini, OpRemove, call.values)

(* ContainsStringSlice(container, contained) is whether every string of
   contained is in container, the question its loop asks. *)
ContainsIsSubset ==
    call.fn = "contains" =>
        ContainsStringSlice(call.container, call.contained)
          = (ToSet(call.contained) \subseteq ToSet(call.container))

(* GetStringInBetween returns the text between the first a and the first b
   after it. *)
BetweenIsNextOccurrence ==
    call.fn = "between" =>
        GetStringInBetween(call.s, call.a, call.b) = RefBetween(call.s, call.a, call.b)

(* A value ParseValue returns without error is the value of the decimal:
   a result that does not fit an int is an error, not a wrapped number. *)
ParseValueNoSilentOverflow ==
    call.fn = "parse" /\ IsDecimal(call.s) /\ call.p >= 0
      /\ ParseValue(call.s, call.p).kind = "ok" =>
        ParseValue(call.s, call.p).v = Exact(call.s, call.p)

(* ParseValue returns an error for a string that is not a decimal. *)
ParseValueRejectsMalformed ==
    call.fn = "parse" /\ ~IsDecimal(call.s) /\ call.p >= 0 =>
        ParseValue(call.s, call.p).kind = "err"

(* mapKeyWords splits a condition string back into its words, however many
   spaces lie between, before or after them: a space inside a quoted value
   does not split it, and the quote state carried across the whole string
   by the FieldsFunc predicate starts each word unquoted. *)
KeyWordsRoundTrip ==
    call.fn = "keywords" => mapKeyWords(Joined(call)) = call.words

(* Two registrations of different (service, instance) pairs, both with a
   check, get different check IDs, so that each heartbeat keeps its own
   instance alive. *)
CheckIDsDistinct ==
    call.fn = "consul" /\ call.iv1 > 0 /\ call.iv2 > 0
      /\ <<call.s1, call.i1>> # <<call.s2, call.i2>> =>
        RegisterInstance(call.s1, call.i1, call.iv1).Check.CheckID
          # RegisterInstance(call.s2, call.i2, call.iv2).Check.CheckID

(* A caller of the Handler interface that passes (instanceID, serviceName),
   as its RegisterInstance declares, registers a service with that ID and
   name. *)
HandlerRegistersInstanceID ==
    call.fn = "consul" =>
        LET r == HandlerRegisterInstance(call.i1, call.s1, call.iv1)
        IN  r.ID = call.i1 /\ r.Name = call.s1

(* A request BindHTTPRequest accepts binds the DTO to what the request
   carries: for GET and DELETE the query decoded first and the path
   variables over it; the JSON body; or the form body's values, when the
   URL query sets none of the same fields. *)
BindIsRequestContent ==
    call.fn = "bind" /\ FormKeys(call.r.form) \cap DOMAIN call.r.query = {} =>
        LET res == BindHTTPRequest(call.r, NoFields)
        IN  res.kind = "ok" => res.v = RefBound(call.r)

(* A form body's value of a field takes precedence over the URL query's,
   as r.Form documents for POST, PUT and PATCH. *)
FormBodyOverQuery ==
    call.fn = "bind" =>
        LET res == BindHTTPRequest(call.r, NoFields)
        IN  res.kind = "ok" => res.v = RefBound(call.r)

(* A valid JSON object sent as "application/json; charset=utf-8" is bound
   like one sent as "application/json". *)
BindAcceptsJSONCharset ==
    call.fn = "bind" /\ call.r.ctype = JSONCharset =>
        BindHTTPRequest(call.r, NoFields)
          = BindHTTPRequest([call.r EXCEPT !.ctype = JSONType], NoFields)

(* GetClaimFromRequest(r, claim) returns the claim asked for when it is a
   string, and "" otherwise, never panicking. *)
ClaimIsRequested ==
    call.fn = "claim" =>
        LET claims == Claims[GetJWTFromHeader(call.h)]
            want == IF GetJWTFromHeader(call.h) # <<>> /\ claims.parsed
                         /\ call.claim \in DOMAIN claims.m
                         /\ claims.m[call.claim].t = "string"
                    THEN claims.m[call.claim].v ELSE <<>>
        IN  GetClaimFromRequest(call.h, call.claim, Claims) = [kind |-> "ok", v |-> want]

(* NormalizeString takes the accents off letters rather than dropping the
   letters: each e, precomposed é or e with a combining accent of the text
   is an e of the result, whatever surrounds it. *)
NormalizeFoldsAccents ==
    call.fn = "normalize" =>
        /\ Es(NormalizeString(call.text)) = Es(call.text)
        /\ "é" \notin ToSet(NormalizeString(call.text))

(* NormalizeString leaves only ASCII letters, digits, whitespace and
   slashes. *)
NormalizeKeepsOnlyLettersDigits ==
    call.fn = "normalize" =>
        \A i \in DOMAIN NormalizeString(call.text) :
            NormalizeString(call.text)[i] \in {"e", "Z", " ", "\t", "/", "\\"}

(* Unique keeps each string once, at its first occurrence, in order. *)
UniqueIsFirstOccurrences ==
    call.fn = "unique" =>
        LET u == Unique(call.s)
        IN  /\ ToSet(u) = ToSet(call.s)
            /\ Len(u) = Cardinality(ToSet(u))
            /\ \A i, j \in DOMAIN u :
                   i < j => FirstIndex(call.s, u[i]) < FirstIndex(call.s, u[j])


(* A message logged through a chain of loggers (New, child News, SetFrom,
   SetThread, SetInt) shows in the console line the from, thread and
   logger name the chain set last: zerolog keeps every duplicate field in
   the context, and the ConsoleWriter's json.Unmarshal must resolve each to
   its latest value, a child's name over its parent's. *)
LineShowsLastSetFields ==
    call.fn = "log" =>
        LET line == Line(LogEvent(ChainOf(call), call.level, "msg", "ts"))
        IN  <<line[2], line[3], line[5]>>
              = <<LastSet(call, fromFieldName), LastSet(call, threadNameFieldName),
                  LastSet(call, loggerFieldName)>>

(* Whatever Out accepts and whenever the pool loses its buffer, the console
   never repeats or reorders output: what reaches Out is the lines of the
   events written, in order, with some bytes left out.  The pooled buffer
   must be drained by WriteTo before it is put back. *)
ConsoleOutIsSubsequence ==
    call.fn = "console" =>
        LET st == WriteAll(ConsoleEvents(call), call.ios)
        IN  IsSubsequence(st.out, FoldLeft(LAMBDA acc, w : acc \o w.line, <<>>, st.calls))

(* Each ConsoleWriter.Write sends to Out only a prefix of its own line, as
   "reads a JSON object per write operation and output ... on the Out
   writer" says. *)
ConsoleWriteSendsOwnLine ==
    call.fn = "console" =>
        LET st == WriteAll(ConsoleEvents(call), call.ios)
        IN  \A i \in DOMAIN st.calls : IsPrefix(st.calls[i].sent, st.calls[i].line)

(* Two encryptions under one key never use the same GCM nonce: crypto/cipher
   requires a nonce to be unique for a given key, since a repeated one
   reveals the XOR of the secrets and lets the tag be forged. *)
NoncesNotReused ==
    call.fn = "crypt" /\ call.k1.len \in AESKeySizes =>
        EncryptAES(call.s1, call.k1).v.b64.nonce # EncryptAES(call.s2, call.k1).v.b64.nonce

=============================================================================
