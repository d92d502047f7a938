------------------------------- MODULE Logging -------------------------------
(***************************************************************************)
(* The structured logger of src/logging/logging.go and the ConsoleWriter   *)
(* of src/logging/console_writer.go it writes through.                     *)
(*                                                                         *)
(* A zerolog context is the sequence of the fields With().Str/Int appended *)
(* to it, duplicates kept: a field set again is appended again.  An event  *)
(* is the level field, the context, the timestamp of the Timestamp() hook  *)
(* and the message, in the order zerolog writes them.  A JSON value is a   *)
(* tagged record [t, v] ("string" or "number"), as in HttpUtils.           *)
(*                                                                         *)
(* ConsoleWriter.Write decodes the event, formats its line into a buffer   *)
(* taken from consoleBufPool, copies the buffer to Out with WriteTo and    *)
(* puts the buffer back.  A line is the sequence of its six fields and the *)
(* newline: Out may take only a prefix of it (a short write or an error).  *)
(* Colours are layout and left out.                                        *)
(***************************************************************************)
EXTENDS Naturals, Sequences, SequencesExt

\* The field names of logging.go and those init() gives zerolog.
loggerFieldName == "logger_name"
fromFieldName == "from"
threadNameFieldName == "thread_name"
appFieldName == "app"
LevelFieldName == "level"
MessageFieldName == "message"
TimestampFieldName == "@timestamp"

LOCAL NoObject == [f \in {} |-> [t |-> "string", v |-> ""]]

StrField(f, v) == [k |-> f, val |-> [t |-> "string", v |-> v]]
IntField(f, n) == [k |-> f, val |-> [t |-> "number", v |-> n]]

\* getFuncName(name...): the name given, or the caller's function name
\* (runtime.FuncForPC) after its last ".".
getFuncName(name, caller) ==
    IF name # <<>> THEN name[1]
    ELSE LET dot == SelectLastInSeq(caller, LAMBDA c : c = ".")
         IN  SubSeq(caller, dot + 1, Len(caller))

\* New(name...): a logger on the ConsoleWriter with a timestamp, its name
\* and empty app, from and thread_name.
New(name, caller) ==
    <<StrField(loggerFieldName, getFuncName(name, caller)), StrField(appFieldName, ""),
      StrField(fromFieldName, ""), StrField(threadNameFieldName, "")>>

\* Mutant: the child logger shares the parent's context and keeps its name.
LoggerNewKeepsName(ctx, name, caller) == ctx

\* (*Logger).New(name...): a child with the parent's fields and its own name.
LoggerNew(ctx, name, caller) == Append(ctx, StrField(loggerFieldName, getFuncName(name, caller)))

\* SetString, and SetFrom, SetThread, SetApp through it; SetInt.
SetString(ctx, f, v) == Append(ctx, StrField(f, v))
SetFrom(ctx, v) == SetString(ctx, fromFieldName, v)
SetThread(ctx, v) == SetString(ctx, threadNameFieldName, v)
SetApp(ctx, v) == SetString(ctx, appFieldName, v)
SetInt(ctx, f, n) == Append(ctx, IntField(f, n))

\* Info, Debug, Error, Warn, Fatal: the event zerolog hands the writer
\* (the message is the fmt.Sprintf of the format and arguments).
LogEvent(ctx, level, msg, ts) ==
    <<StrField(LevelFieldName, level)>> \o ctx
      \o <<StrField(TimestampFieldName, ts), StrField(MessageFieldName, msg)>>

\* json.Unmarshal into map[string]interface{}: a key given twice keeps its
\* later value.
Unmarshal(event) == FoldLeft(LAMBDA obj, kv : (kv.k :> kv.val) @@ obj, NoObject, event)

\* getField: the field's value if it is a string, "" otherwise.
getField(obj, f) == IF f \in DOMAIN obj /\ obj[f].t = "string" THEN obj[f].v ELSE ""

\* strings.ToUpper of the level names zerolog writes.
ToUpper == ("debug" :> "DEBUG") @@ ("info" :> "INFO") @@ ("warn" :> "WARN")
             @@ ("error" :> "ERROR") @@ ("fatal" :> "FATAL")

\* The six fields ConsoleWriter.Write prints: timestamp, [from], [thread],
\* level (upper-cased, "????" if absent), [logger_name] and the message.
Line(event) ==
    LET obj == Unmarshal(event)
        level == getField(obj, LevelFieldName)
    IN  <<obj[TimestampFieldName].v, getField(obj, fromFieldName),
          getField(obj, threadNameFieldName),
          IF level # "" THEN ToUpper[level] ELSE "????",
          getField(obj, loggerFieldName), obj[MessageFieldName].v, "\n">>

\* A byte string json.Unmarshal rejects.
NotJSONEvent == <<>>

\* The writer's state: the buffer in consoleBufPool, if any, what Out has
\* received, and for each Write call its line and the bytes it sent.
WriterInit == [pool |-> <<>>, out |-> <<>>, calls |-> <<>>]

\* Mutant: the buffer's bytes are sent with Out.Write(buf.Bytes()) and the
\* buffer is put back without being drained.
ConsoleWriteUndrained(st, p, io) ==
    IF p = NotJSONEvent THEN st
    ELSE LET buf == (IF st.pool # <<>> /\ ~io.gc THEN Head(st.pool) ELSE <<>>) \o Line(p)
             k == IF io.accept < Len(buf) THEN io.accept ELSE Len(buf)
         IN  [pool |-> <<buf>>, out |-> st.out \o SubSeq(buf, 1, k),
              calls |-> Append(st.calls, [line |-> Line(p), sent |-> SubSeq(buf, 1, k)])]

\* ConsoleWriter.Write(p) on one goroutine: p that is not JSON returns the
\* decoding error; otherwise Get returns the pooled buffer (or a new one
\* when a GC emptied the pool, io.gc), Fprintf appends the line, WriteTo
\* sends what Out accepts (io.accept bytes) and drops it from the buffer,
\* and Put returns the buffer with what is left.  Write reports len(p) and
\* no error whatever WriteTo returned.
ConsoleWrite(st, p, io) ==
    IF p = NotJSONEvent THEN st
    ELSE LET buf == (IF st.pool # <<>> /\ ~io.gc THEN Head(st.pool) ELSE <<>>) \o Line(p)
             k == IF io.accept < Len(buf) THEN io.accept ELSE Len(buf)
         IN  [pool |-> <<SubSeq(buf, k + 1, Len(buf))>>, out |-> st.out \o SubSeq(buf, 1, k),
              calls |-> Append(st.calls, [line |-> Line(p), sent |-> SubSeq(buf, 1, k)])]

\* A sequence of log calls through the writer; Fatal's os.Exit ends the
\* program after its event is written.
WriteAll(events, ios) ==
    FoldLeft(LAMBDA st, i :
                 IF \E j \in 1..i - 1 : events[j] # NotJSONEvent
                                        /\ Unmarshal(events[j])[LevelFieldName].v = "fatal"
                 THEN st ELSE ConsoleWrite(st, events[i], ios[i]),
             WriterInit, [i \in DOMAIN events |-> i])

=============================================================================
