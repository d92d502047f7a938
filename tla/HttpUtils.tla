------------------------------- MODULE HttpUtils -------------------------------
(***************************************************************************)
(* BindHTTPRequest and GetJWTFromHeader of src/utils/httputils/http.go and *)
(* GetClaimFromRequest of src/utils/jwtutils/jwt.go, as operators.         *)
(*                                                                         *)
(* A DTO's fields are Keys and a decoded object is a function from some    *)
(* keys to values: json.Unmarshal and the schema decoder into a struct     *)
(* overwrite the fields they carry and keep the others, which is `@@'      *)
(* with the new object on the left.  The bytes handed to ToObject are a    *)
(* JSON object, none (the initial []byte{}) or bytes that are not a JSON   *)
(* object (only a raw body can be).  The DTO's IsValid verdict is an       *)
(* input.  A header is a sequence                                          *)
(* of one-letter strings, so that strings.Split is computed.               *)
(***************************************************************************)
EXTENDS Sequences, SequencesExt

NoHeader == "none"   \* req.Header has no Content-Type entry
FormType == "application/x-www-form-urlencoded"
JSONType == "application/json"

LOCAL Ok(v) == [kind |-> "ok", v |-> v]
LOCAL Err == [kind |-> "err", v |-> <<>>]

\* No fields set: the zero DTO the caller passes, or an empty JSON object.
NoFields == <<>>

JSONObject(o) == [k |-> "object", o |-> o]
NoBytes == [k |-> "empty", o |-> NoFields]
NotJSON == [k |-> "invalid", o |-> NoFields]

\* dtoIn.ToObject: json.Unmarshal into the struct; no bytes is an error.
ToObject(content, dto) ==
    IF content.k = "object" THEN Ok(content.o @@ dto) ELSE Err

\* The loop over req.Form after ParseForm: for each key its values in order,
\* each one overwriting hCont[key].  r.Form holds the body's values of a key
\* first and the URL query's after them.  A form body is a sequence of
\* <<key, value>> pairs; a query holds one value per key.
FormContent(body, query) ==
    JSONObject(query @@ FoldLeft(LAMBDA acc, p : (p[1] :> p[2]) @@ acc, NoFields, body))

\* The content switch: mux.Vars as JSON (the query already decoded into
\* the DTO) for GET and DELETE; for PUT, POST and PATCH the form or the raw
\* body by the first Content-Type, exactly matched, else nothing; an error
\* without a Content-Type.  Other methods leave the content empty.
Content(r) ==
    IF r.method \in {"GET", "DELETE"} THEN JSONObject(r.vars)
    ELSE IF r.method \notin {"PUT", "POST", "PATCH"} THEN NoBytes
    ELSE IF r.ctype = FormType THEN FormContent(r.form, r.query)
    ELSE IF r.ctype = JSONType THEN r.body
    ELSE NoBytes

\* Mutant: the query is decoded into the DTO after ToObject.
BindHTTPRequestQueryLast(r, dtoIn) ==
    LET bound == ToObject(Content(r), dtoIn)
    IN  IF r.method \in {"PUT", "POST", "PATCH"} /\ r.ctype = NoHeader THEN Err
        ELSE IF bound.kind = "err" \/ ~r.valid THEN Err
        ELSE IF r.method \in {"GET", "DELETE"} THEN Ok(r.query @@ bound.v)
        ELSE bound

\* BindHTTPRequest(log, req, dtoIn, classified): the bound DTO or an error;
\* the schema decoder's error is discarded, ToObject's and IsValid's are
\* returned.
BindHTTPRequest(r, dtoIn) ==
    LET decoded == IF r.method \in {"GET", "DELETE"} THEN r.query @@ dtoIn ELSE dtoIn
        bound == ToObject(Content(r), decoded)
    IN  IF r.method \in {"PUT", "POST", "PATCH"} /\ r.ctype = NoHeader THEN Err
        ELSE IF bound.kind = "err" \/ ~r.valid THEN Err
        ELSE bound

\* strings.Split(s, " "): the pieces between the spaces.
SplitSpace(s) ==
    FoldLeft(LAMBDA acc, c :
                 IF c = " " THEN Append(acc, <<>>)
                 ELSE [acc EXCEPT ![Len(acc)] = Append(@, c)],
             <<<<>>>>, s)

\* GetJWTFromHeader: the second of exactly two space-separated fields of
\* the Authorization header, else "".
GetJWTFromHeader(authorization) ==
    LET fields == SplitSpace(authorization)
    IN  IF Len(fields) # 2 THEN <<>> ELSE fields[2]

\* GetClaimFromRequest(r, claim): the same split, ParseUnverified of the
\* token (Claims[token] is [parsed, m], m the claims map), then claims
\* ["user_id"] as a string: "" when missing, a panic when not a string.
\* A claim value is [t, v] with t "string" or "number".
GetClaimFromRequest(authorization, claim, Claims) ==
    LET fields == SplitSpace(authorization)
        claims == Claims[fields[2]]
    IN  IF Len(fields) # 2 \/ ~claims.parsed THEN Ok(<<>>)
        ELSE IF "user_id" \notin DOMAIN claims.m THEN Ok(<<>>)
        ELSE IF claims.m["user_id"].t # "string" THEN [kind |-> "panic", v |-> <<>>]
        ELSE Ok(claims.m["user_id"].v)

=============================================================================
