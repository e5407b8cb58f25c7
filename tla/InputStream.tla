---------------------------- MODULE InputStream ----------------------------
(***************************************************************************)
(* What a decaf::io::InputStream promises its callers, as the comments of  *)
(* FilterInputStream.h state it for the stream "in" that a filter wraps:   *)
(* every call is one atomic step on the stream.  FilterInputStream is      *)
(* shown to implement this specification.                                  *)
(***************************************************************************)
EXTENDS Integers, Sequences, FiniteSetsExt

CONSTANTS Sources,   \* the streams
          Content,   \* Content[s]: the bytes stream s delivers
          SizeBits   \* the width of std::size_t

VARIABLES pos,      \* pos[s]: how many bytes of s are consumed
          closed,   \* closed[s]: close() was called on s
          result    \* what the latest call returned or threw

streamVars == <<pos, closed, result>>

IOException == "IOException"
Unsupported == "UnsupportedOperationException"
Methods == {"available", "read", "readArray", "close", "skip"}

EOF == -1
SIZE_MAX == 2^SizeBits - 1
UChar(v) == v % 256              \* conversion to unsigned char
SizeT(v) == v % (SIZE_MAX + 1)   \* conversion to std::size_t

\* An outcome of a call: what it returns or throws, and how far it advances.
Return(v, n) == [kind |-> "ok", val |-> v, adv |-> n]
Throw(k) == [kind |-> k, val |-> 0, adv |-> 0]
NoResult == [kind |-> "none", val |-> 0]

Left(s, p) == Len(Content[s]) - p

available(s, p) == {Return(Left(s, p), 0)}

read(s, p) == IF Left(s, p) > 0 THEN {Return(Content[s][p + 1], 1)} ELSE {Return(EOF, 0)}

\* Up to size bytes, at least one: a short read is a normal result.
readArray(s, p, size) ==
    IF Left(s, p) = 0 THEN {Return(EOF, 0)}
    ELSE {Return(n, n) : n \in Min({1, size}) .. Min({size, Left(s, p)})}

\* Discards up to num bytes, possibly fewer, possibly none; not every stream
\* supports it.
skip(s, p, num) == {Return(n, n) : n \in 0 .. Min({num, Left(s, p)})} \cup {Throw(Unsupported)}

close(s, p) == {Return(0, 0)}

\* All that a call of m may do on s at position p; any call may fail with an
\* I/O error, and every call but close() does on a closed stream.
Outcomes(m, arg, s, p, isClosed) ==
    IF isClosed /\ m # "close" THEN {Throw(IOException)}
    ELSE {Throw(IOException)} \cup
         CASE m = "available" -> available(s, p)
           [] m = "read"      -> read(s, p)
           [] m = "readArray" -> readArray(s, p, arg)
           [] m = "skip"      -> skip(s, p, arg)
           [] m = "close"     -> close(s, p)

\* The value as the method's return type holds it.
Narrow(m, v) ==
    CASE m = "read" -> UChar(v)
      [] m \in {"available", "skip"} -> SizeT(v)
      [] OTHER -> v

TypeOK ==
    /\ pos \in [Sources -> Nat]
    /\ \A s \in Sources : pos[s] <= Len(Content[s])
    /\ closed \in [Sources -> BOOLEAN]
    /\ result \in [kind : {"none", "ok", IOException, Unsupported}, val : -1 .. 255]

Init ==
    /\ pos = [s \in Sources |-> 0]
    /\ closed = [s \in Sources |-> FALSE]
    /\ result = NoResult

\* A thread calls method m of s; the call takes effect at once.
Invoke(s, m, arg) ==
    \E o \in Outcomes(m, arg, s, pos[s], closed[s]) :
        /\ pos' = [pos EXCEPT ![s] = @ + o.adv]
        /\ closed' = [closed EXCEPT ![s] = @ \/ (m = "close" /\ o.kind = "ok")]
        /\ result' = [kind |-> o.kind, val |-> Narrow(m, o.val)]

Next == \E s \in Sources, m \in Methods, arg \in 0..SIZE_MAX : Invoke(s, m, arg)

Spec == Init /\ [][Next]_streamVars
=============================================================================
