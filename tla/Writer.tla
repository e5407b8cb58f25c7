------------------------------- MODULE Writer -------------------------------
(***************************************************************************)
(* decaf::io::Writer: nine public overloads of write and append, each      *)
(* handing its arguments to a protected doWrite... or doAppend... method,  *)
(* all of which end in the one method a subclass supplies,                 *)
(* doWriteArrayBounded.  The subclass modelled here appends to a sink.     *)
(***************************************************************************)
EXTENDS Integers, Sequences, TLC

CONSTANTS Chars,      \* the characters callers write
          NULL,
          SizeBits,   \* the width of std::size_t
          Buffers,    \* the arrays, vectors, strings and char sequences passed
          Sizes,      \* the integers passed as size, offset, length, start, end
          MaxLen      \* bound on the length of the sink

VARIABLES sink,     \* the characters the subclass has written
          last,     \* the latest call, as the caller made it
          result    \* "ok" or the exception that left the latest call

vars == <<sink, last, result>>

IOException == "IOException"
NullPointerException == "NullPointerException"
IndexOutOfBoundsException == "IndexOutOfBoundsException"

SizeT(v) == v % 2^SizeBits   \* arithmetic in std::size_t

\* The exception specification of every public method: anything else that
\* leaves it ends the program.
Declared ==
    [m \in {"write", "writeVector", "writeString", "append", "appendSequence"} |-> {IOException}]
    @@ [m \in {"writeArray"} |-> {IOException, NullPointerException}]
    @@ [m \in {"writeArrayBounded"} |->
            {IOException, NullPointerException, IndexOutOfBoundsException}]
    @@ [m \in {"writeStringBounded", "appendRange"} |->
            {IOException, IndexOutOfBoundsException}]

\* The exception specifications of the protected methods.
Protected ==
    [m \in {"doWriteChar", "doWriteVector", "doWriteString", "doAppendChar",
            "doAppendCharSequence"} |-> {IOException}]
    @@ [m \in {"doWriteArray"} |-> {IOException, NullPointerException}]
    @@ [m \in {"doWriteStringBounded", "doAppendCharSequenceStartEnd"} |->
            {IOException, IndexOutOfBoundsException}]

\* The protected methods a public one passes through on its way to
\* doWriteArrayBounded: an exception has to be in the specification of each.
Through ==
    [write |-> {"doWriteChar"}, writeVector |-> {"doWriteVector"},
     writeArray |-> {"doWriteArray"}, writeArrayBounded |-> {},
     writeString |-> {"doWriteString"}, writeStringBounded |-> {"doWriteStringBounded"},
     append |-> {"doAppendChar", "doWriteChar"},
     appendSequence |-> {"doAppendCharSequence", "doWriteString"},
     appendRange |-> {"doAppendCharSequenceStartEnd", "doWriteStringBounded"}]

Call(m, buffer, size, offset, length) ==
    [m |-> m, buffer |-> buffer, size |-> size, offset |-> offset, length |-> length]

TypeOK ==
    /\ sink \in Seq(Chars) /\ Len(sink) <= MaxLen
    /\ last \in [m : DOMAIN Declared \cup {"none"},
                 buffer : Buffers \cup {<<c>> : c \in Chars} \cup {NULL},
                 size : Nat, offset : Nat, length : Int]
    /\ last.m # "none" =>
          \A k \in {Declared[last.m]} \cup {Protected[p] : p \in Through[last.m]} :
             result \in {"ok"} \cup k
    /\ last.m = "none" => result = "ok"

Init ==
    /\ sink = <<>>
    /\ last = Call("none", NULL, 0, 0, 0)
    /\ result = "ok"

Throws(k) == result' = k /\ sink' = sink

-----------------------------------------------------------------------------
\* "NullPointerException if buffer is NULL", "IndexOutOfBoundsException if
\* offset + length > size of the buffer", the sum being a std::size_t; then the
\* subclass writes the range, or fails having written some of it.
doWriteArrayBounded(buffer, size, offset, length) ==
    LET errors == {k \in {NullPointerException, IndexOutOfBoundsException} :
                      \/ k = NullPointerException /\ buffer = NULL
                      \/ k = IndexOutOfBoundsException /\ SizeT(offset + length) > size}
    IN \/ \E k \in errors : Throws(k)
       \/ /\ errors = {}
          /\ \E n \in 0..length :
                /\ Len(sink) + n <= MaxLen
                /\ sink' = sink \o SubSeq(buffer, offset + 1, offset + n)
                /\ result' \in IF n = length THEN {"ok", IOException} ELSE {IOException}

doWriteChar(v) == doWriteArrayBounded(<<v>>, 1, 0, 1)

doWriteVector(buffer) == doWriteArrayBounded(buffer, Len(buffer), 0, Len(buffer))

doWriteArray(buffer, size) == doWriteArrayBounded(buffer, size, 0, size)

doWriteString(str) == doWriteArrayBounded(str, Len(str), 0, Len(str))

doWriteStringBounded(str, offset, length) == doWriteArrayBounded(str, Len(str), offset, length)

doAppendChar(value) == doWriteChar(value)

doAppendCharSequence(csq) == doWriteString(csq)

\* The characters of csq from start up to, not including, end.
doAppendCharSequenceStartEnd(csq, start, end) ==
    IF start > end \/ end > Len(csq) THEN Throws(IndexOutOfBoundsException)
    ELSE doWriteStringBounded(csq, start, end - start)

-----------------------------------------------------------------------------
write(v) == last' = Call("write", <<v>>, 1, 0, 1) /\ doWriteChar(v)

writeVector(buffer) ==
    last' = Call("writeVector", buffer, Len(buffer), 0, Len(buffer)) /\ doWriteVector(buffer)

\* size is the size of the array, whatever it is for no array.
writeArray(buffer, size) ==
    /\ buffer # NULL => size = Len(buffer)
    /\ last' = Call("writeArray", buffer, size, 0, size)
    /\ doWriteArray(buffer, size)

\* Faulty variant: offset and length change places on the way down.
writeArrayBoundedSwapped(buffer, size, offset, length) ==
    /\ buffer # NULL => size = Len(buffer)
    /\ last' = Call("writeArrayBounded", buffer, size, offset, length)
    /\ doWriteArrayBounded(buffer, size, length, offset)

writeArrayBounded(buffer, size, offset, length) ==
    /\ buffer # NULL => size = Len(buffer)
    /\ last' = Call("writeArrayBounded", buffer, size, offset, length)
    /\ doWriteArrayBounded(buffer, size, offset, length)

\* Faulty variant: the terminating zero of c_str() is counted.
writeStringAndZero(str) ==
    /\ last' = Call("writeString", str, Len(str), 0, Len(str))
    /\ doWriteArrayBounded(str, Len(str), 0, Len(str) + 1)

writeString(str) ==
    last' = Call("writeString", str, Len(str), 0, Len(str)) /\ doWriteString(str)

writeStringBounded(str, offset, length) ==
    /\ last' = Call("writeStringBounded", str, Len(str), offset, length)
    /\ doWriteStringBounded(str, offset, length)

append(value) == last' = Call("append", <<value>>, 1, 0, 1) /\ doAppendChar(value)

appendSequence(csq) ==
    last' = Call("appendSequence", csq, Len(csq), 0, Len(csq)) /\ doAppendCharSequence(csq)

appendRange(csq, start, end) ==
    /\ last' = Call("appendRange", csq, Len(csq), start, end - start)
    /\ doAppendCharSequenceStartEnd(csq, start, end)

Next ==
    \/ \E v \in Chars : write(v) \/ append(v)
    \/ \E b \in Buffers : writeVector(b) \/ writeString(b) \/ appendSequence(b)
    \/ \E b \in Buffers \cup {NULL}, size \in Sizes :
          \/ writeArray(b, size)
          \/ \E offset, length \in Sizes : writeArrayBounded(b, size, offset, length)
    \/ \E b \in Buffers, i, j \in Sizes : writeStringBounded(b, i, j) \/ appendRange(b, i, j)

Spec == Init /\ [][Next]_vars

-----------------------------------------------------------------------------
\* Every overload that returns has added to the sink exactly the characters
\* its comment names (the character, the whole array or string, length
\* characters from position offset); one that fails with IOException has added
\* the first of them and nothing else; one that rejects its arguments has
\* added nothing, and the caller did pass no buffer or a range that is not in
\* the buffer.  The arguments each doWrite... method hands on denote the range
\* the caller named.
Asked == SubSeq(last.buffer, last.offset + 1, last.offset + last.length)

WritesWhatWasAsked ==
    [][CASE result' = "ok" -> sink' = sink \o Asked'
         [] result' = IOException ->
               \E n \in 0..Len(Asked') : sink' = sink \o SubSeq(Asked', 1, n)
         [] result' = NullPointerException -> sink' = sink /\ last'.buffer = NULL
         [] OTHER -> /\ sink' = sink
                     /\ last'.length < 0 \/ last'.offset + last'.length > last'.size]_vars
=============================================================================
