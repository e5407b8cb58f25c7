------------------------------ MODULE TcpSocket ------------------------------
(***************************************************************************)
(* decaf::internal::net::tcp::TcpSocket: sockets that client threads       *)
(* create, bind, listen on, accept into, connect, read, write, shut down   *)
(* and close, over an operating system that hands out handles and carries  *)
(* the bytes.  accept, connect, read and write block: they begin in one    *)
(* step and end in a later one, and close() on another thread ends them.   *)
(***************************************************************************)
EXTENDS Integers, Sequences, SequencesExt

CONSTANTS Sockets, Threads, Handles, NULL,
          Ports,          \* the addresses a socket can bind and listen on
          Silent,         \* an address that never answers
          Malformed,      \* a host or port that does not parse
          Ephemeral,      \* the local address of a socket connected without bind
          Timeouts,       \* the timeouts passed to connect; 0 is "no limit"
          Buffers,        \* the [buffer, size, offset, length] passed to read and write
          Options,        \* the socket option ids, known and unknown
          TrafficClass,   \* the id of the one option TcpSocket keeps itself
          Unknown,        \* an id that is no option
          Values,         \* the values passed to setOption
          Backlog,        \* bound on the accept queue of a listening socket
          MaxBytes        \* bound on the bytes sent in one direction of a connection

VARIABLES socket,   \* socket[s]: the fields of TcpSocket s
          os,       \* os[h]: what the operating system knows of handle h
          call,     \* call[t]: the blocking call thread t is in
          result    \* what the latest call returned or threw

vars == <<socket, os, call, result>>

IOException == "IOException"
Refused == "SocketException: connection refused"
TimedOut == "SocketTimeoutException"
IllegalArgumentException == "IllegalArgumentException"
IndexOutOfBoundsException == "IndexOutOfBoundsException"
NullPointerException == "NullPointerException"
Kinds == {"none", "ok", IOException, Refused, TimedOut, IllegalArgumentException,
          IndexOutOfBoundsException, NullPointerException}

Operations == {"create", "accept", "bind", "connect", "listen", "getInputStream",
               "getOutputStream", "available", "close", "shutdownInput",
               "shutdownOutput", "getOption", "setOption", "read", "write"}
IOExceptions == {IOException, Refused, TimedOut}   \* IOException and its subclasses

\* The exception specifications of read and of write.
DeclaredRead == IOExceptions \cup {IndexOutOfBoundsException, NullPointerException}
DeclaredWrite == IOExceptions \cup {IndexOutOfBoundsException, NullPointerException}

\* The exception specification of operation m: anything else that leaves m
\* ends the program.
Declared(m) ==
    CASE m = "connect" -> IOExceptions \cup {IllegalArgumentException}
      [] m = "read" -> DeclaredRead
      [] m = "write" -> DeclaredWrite
      [] OTHER -> IOExceptions

EOF == -1
Addresses == Ports \cup {Silent, Ephemeral}
NoCall == [op |-> "none"]
Free == [mode |-> "free", port |-> NULL, remote |-> NULL, peer |-> NULL,
         pending |-> <<>>, inbox |-> <<>>, fin |-> FALSE, total |-> 0]

\* "NullPointerException if buffer is Null", "IndexOutOfBoundsException if
\* offset + length is greater than buffer size"; which of the two when both
\* hold is not said.
ArgErrors(b) ==
    {k \in {NullPointerException, IndexOutOfBoundsException} :
        \/ k = NullPointerException /\ b.buffer = NULL
        \/ k = IndexOutOfBoundsException /\ b.offset + b.length > b.size}

\* The call of a thread that is in read(): the socket and the arguments.
Reading(s, b) ==
    [op |-> "read", on |-> s,
     buffer |-> b.buffer, size |-> b.size, offset |-> b.offset, length |-> b.length]

TypeOK ==
    /\ socket \in [Sockets -> [socketHandle : Handles \cup {NULL},
                               localAddress : Addresses \cup {NULL},
                               remoteAddress : Addresses \cup {NULL},
                               inputShutdown : BOOLEAN, outputShutdown : BOOLEAN,
                               closed : BOOLEAN, trafficClass : Values \cup {0}]]
    /\ os \in [Handles -> [mode : {"free", "open", "bound", "listening", "connected"},
                           port : Addresses \cup {NULL}, remote : Addresses \cup {NULL},
                           peer : Handles \cup {NULL}, pending : Seq(Handles),
                           inbox : Seq(1..MaxBytes), fin : BOOLEAN,
                           total : 0..MaxBytes]]
    /\ call \in [Threads -> {NoCall} \cup [op : {"accept"}, on : Sockets]
                     \cup [op : {"connect"}, on : Sockets, to : Addresses, timeout : Timeouts]
                     \cup [op : {"write"}, on : Sockets, left : Nat]
                     \cup {Reading(s, b) : s \in Sockets, b \in {a \in Buffers : ArgErrors(a) = {}}}]
    /\ result \in [kind : Kinds, val : Int]

\* TcpSocket(): "Construct a non-connected socket."
Init ==
    /\ socket = [s \in Sockets |->
                   [socketHandle |-> NULL, localAddress |-> NULL, remoteAddress |-> NULL,
                    inputShutdown |-> FALSE, outputShutdown |-> FALSE, closed |-> FALSE,
                    trafficClass |-> 0]]
    /\ os = [h \in Handles |-> Free]
    /\ call = [t \in Threads |-> NoCall]
    /\ result = [kind |-> "none", val |-> 0]

getSocketHandle(s) == socket[s].socketHandle
isConnected(s) == socket[s].socketHandle # NULL
isClosed(s) == socket[s].closed

-----------------------------------------------------------------------------
Returns(v) == result' = [kind |-> "ok", val |-> v]
Throws(k) == result' = [kind |-> k, val |-> 0]
Rejects(k) == Throws(k) /\ UNCHANGED <<socket, os, call>>   \* thrown before anything changed
Done(t) == call' = [call EXCEPT ![t] = NoCall]

FreeHandles == {h \in Handles : os[h].mode = "free"}
Listeners(a) == {l \in Handles : os[l].mode = "listening" /\ os[l].port = a}
InUse(p) == \E h \in Handles : os[h].mode \in {"bound", "listening"} /\ os[h].port = p

\* s is open and its handle is in one of modes.
Usable(s, modes) == ~isClosed(s) /\ isConnected(s) /\ os[getSocketHandle(s)].mode \in modes

create(t, s) ==
    /\ call[t] = NoCall
    /\ \/ /\ ~isClosed(s) /\ ~isConnected(s)
          /\ \E h \in FreeHandles :
                /\ os' = [os EXCEPT ![h].mode = "open"]
                /\ socket' = [socket EXCEPT ![s].socketHandle = h]
          /\ Returns(0) /\ UNCHANGED call
       \/ (isClosed(s) \/ isConnected(s) \/ FreeHandles = {}) /\ Rejects(IOException)

\* A host or port that does not parse is malformed input, an address in use
\* or a socket that cannot be bound a failure of the operation.
bind(t, s, p) ==
    /\ call[t] = NoCall
    /\ LET ok == Usable(s, {"open"}) /\ ~InUse(p) IN
       \/ p = Malformed /\ Rejects(IllegalArgumentException)
       \/ /\ ok /\ p # Malformed
          /\ os' = [os EXCEPT ![getSocketHandle(s)] = [@ EXCEPT !.mode = "bound", !.port = p]]
          /\ socket' = [socket EXCEPT ![s].localAddress = p]
          /\ Returns(0) /\ UNCHANGED call
       \/ ~ok /\ Rejects(IOException)

listen(t, s) ==
    /\ call[t] = NoCall
    /\ \/ /\ Usable(s, {"bound"})
          /\ os' = [os EXCEPT ![getSocketHandle(s)].mode = "listening"]
          /\ Returns(0) /\ UNCHANGED <<socket, call>>
       \/ ~Usable(s, {"bound"}) /\ Rejects(IOException)

accept(t, s) ==
    /\ call[t] = NoCall
    /\ \/ /\ Usable(s, {"listening"})
          /\ call' = [call EXCEPT ![t] = [op |-> "accept", on |-> s]]
          /\ UNCHANGED <<socket, os, result>>
       \/ ~Usable(s, {"listening"}) /\ Rejects(IOException)

\* The socket that accept fills in is one nobody has used yet.
AcceptEnd(t, target) ==
    /\ call[t].op = "accept" /\ ~isClosed(call[t].on)
    /\ ~isClosed(target) /\ ~isConnected(target)
    /\ LET l == getSocketHandle(call[t].on) IN
       /\ os[l].pending # <<>>
       /\ os' = [os EXCEPT ![l].pending = Tail(@)]
       /\ LET n == Head(os[l].pending) IN
          socket' = [socket EXCEPT ![target] = [@ EXCEPT !.socketHandle = n,
                                                         !.localAddress = os[n].port,
                                                         !.remoteAddress = os[n].remote]]
    /\ Done(t) /\ Returns(0)

\* s is not connected and no thread is connecting it.
Connectable(s) ==
    Usable(s, {"open", "bound"}) /\ \A t \in Threads : call[t].op = "connect" => call[t].on # s

connect(t, s, a, timeout) ==
    /\ call[t] = NoCall
    /\ \/ a = Malformed /\ Rejects(IllegalArgumentException)
       \/ ~Connectable(s) /\ Rejects(IOException)
       \/ /\ a # Malformed /\ Connectable(s)
          /\ call' = [call EXCEPT ![t] = [op |-> "connect", on |-> s, to |-> a, timeout |-> timeout]]
          /\ UNCHANGED <<socket, os, result>>

\* A listener answers: the operating system opens the server's end of the
\* connection and queues it for accept.
ConnectEnd(t) ==
    /\ call[t].op = "connect" /\ ~isClosed(call[t].on)
    /\ LET s == call[t].on
           h == getSocketHandle(s)
           here == IF os[h].port = NULL THEN Ephemeral ELSE os[h].port
       IN /\ \E l \in Listeners(call[t].to), n \in FreeHandles :
                /\ Len(os[l].pending) < Backlog
                /\ os' = [os EXCEPT
                            ![h] = [@ EXCEPT !.mode = "connected", !.port = here,
                                             !.remote = call[t].to, !.peer = n],
                            ![n] = [@ EXCEPT !.mode = "connected", !.port = call[t].to,
                                             !.remote = here, !.peer = h],
                            ![l].pending = Append(@, n)]
          /\ socket' = [socket EXCEPT ![s].localAddress = here, ![s].remoteAddress = call[t].to]
    /\ Done(t) /\ Returns(0)

ConnectRefused(t) ==
    /\ call[t].op = "connect" /\ ~isClosed(call[t].on)
    /\ call[t].to \in Ports /\ Listeners(call[t].to) = {}
    /\ Done(t) /\ Throws(Refused) /\ UNCHANGED <<socket, os>>

\* The time is up before anybody answered.
ConnectTimeout(t) ==
    /\ call[t].op = "connect" /\ call[t].timeout > 0
    /\ call[t].to = Silent \/ Listeners(call[t].to) # {}
    /\ Done(t) /\ Throws(TimedOut) /\ UNCHANGED <<socket, os>>

Readable(s) == Usable(s, {"connected"}) /\ ~socket[s].inputShutdown

\* Faulty variant: read() that does not validate its arguments.
readUnchecked(t, s, b) ==
    /\ call[t] = NoCall
    /\ \/ ~Readable(s) /\ Rejects(IOException)
       \/ /\ Readable(s)
          /\ call' = [call EXCEPT ![t] = Reading(s, b)]
          /\ UNCHANGED <<socket, os, result>>

read(t, s, b) ==
    /\ call[t] = NoCall
    /\ \/ \E k \in ArgErrors(b) : Rejects(k)
       \/ ~Readable(s) /\ Rejects(IOException)
       \/ /\ Readable(s) /\ ArgErrors(b) = {}
          /\ call' = [call EXCEPT ![t] = Reading(s, b)]
          /\ UNCHANGED <<socket, os, result>>

\* Faulty variant: read() waits for bytes and never reports the end.
AtEOFNever(h) == FALSE

\* All that was sent to h has been read and nothing follows.
AtEOF(h) == os[h].inbox = <<>> /\ os[h].fin

\* "the actual number of bytes read or -1 if at EOF": the first n bytes of what
\* has arrived, or the end once the peer has finished and all is read.
ReadEnd(t) ==
    /\ call[t].op = "read" /\ Readable(call[t].on)
    /\ LET h == getSocketHandle(call[t].on) IN
       \/ \E n \in 1 .. Min({call[t].length, Len(os[h].inbox)}) :
             os' = [os EXCEPT ![h].inbox = SubSeq(@, n + 1, Len(@))] /\ Returns(n)
       \/ call[t].length = 0 /\ Returns(0) /\ UNCHANGED os
       \/ AtEOF(h) /\ Returns(EOF) /\ UNCHANGED os
    /\ Done(t) /\ UNCHANGED socket

\* Faulty variant: shutdownOutput() does not stop write().
WritableAfterShutdown(s) ==
    Usable(s, {"connected"}) /\ os[getSocketHandle(s)].peer # NULL

Writable(s) ==
    Usable(s, {"connected"}) /\ ~socket[s].outputShutdown /\ os[getSocketHandle(s)].peer # NULL

write(t, s, b) ==
    /\ call[t] = NoCall
    /\ \/ \E k \in ArgErrors(b) : Rejects(k)
       \/ ~Writable(s) /\ Rejects(IOException)
       \/ /\ Writable(s) /\ ArgErrors(b) = {}
          /\ call' = [call EXCEPT ![t] = [op |-> "write", on |-> s, left |-> b.length]]
          /\ UNCHANGED <<socket, os, result>>

\* Faulty variant: the next part of a write starts where this one started.
CarryAgain(p, n) ==
    [os EXCEPT ![p].inbox = @ \o [i \in 1..n |-> os[p].total + i]]

\* n more bytes are on their way to p; the k-th byte sent to a handle is k.
Carry(p, n) ==
    [os EXCEPT ![p] = [@ EXCEPT !.inbox = @ \o [i \in 1..n |-> os[p].total + i], !.total = @ + n]]

\* "Writes the specified data in the passed in buffer to the Socket": the
\* operating system takes the bytes in parts, as far as the connection has
\* room, and write() returns when it has taken them all.
WriteEnd(t) ==
    /\ call[t].op = "write" /\ Writable(call[t].on)
    /\ LET p == os[getSocketHandle(call[t].on)].peer IN
       \E n \in 0 .. Min({call[t].left, MaxBytes - os[p].total}) :
          /\ os' = Carry(p, n)
          /\ \/ n = call[t].left /\ Done(t) /\ Returns(0)
             \/ /\ 0 < n /\ n < call[t].left
                /\ call' = [call EXCEPT ![t].left = @ - n] /\ UNCHANGED result
    /\ UNCHANGED socket

available(t, s) ==
    /\ call[t] = NoCall
    /\ \/ Usable(s, {"connected"}) /\ Returns(Len(os[getSocketHandle(s)].inbox))
                                   /\ UNCHANGED <<socket, os, call>>
       \/ ~Usable(s, {"connected"}) /\ Rejects(IOException)

shutdownInput(t, s) ==
    /\ call[t] = NoCall
    /\ \/ /\ Usable(s, {"connected"})
          /\ socket' = [socket EXCEPT ![s].inputShutdown = TRUE]
          /\ Returns(0) /\ UNCHANGED <<os, call>>
       \/ ~Usable(s, {"connected"}) /\ Rejects(IOException)

\* The peer reads what is on its way and then the end of the stream.
shutdownOutput(t, s) ==
    /\ call[t] = NoCall
    /\ \/ /\ Usable(s, {"connected"})
          /\ socket' = [socket EXCEPT ![s].outputShutdown = TRUE]
          /\ LET p == os[getSocketHandle(s)].peer IN
             os' = IF p = NULL THEN os ELSE [os EXCEPT ![p].fin = TRUE]
          /\ Returns(0) /\ UNCHANGED call
       \/ ~Usable(s, {"connected"}) /\ Rejects(IOException)

\* The operating system closes the handles hs: their peers see the end of the
\* stream and have nobody to write to.
Release(hs) ==
    [h \in Handles |-> IF h \in hs THEN Free
                       ELSE IF os[h].peer \in hs THEN [os[h] EXCEPT !.peer = NULL, !.fin = TRUE]
                       ELSE os[h]]

\* The handle of s goes back to the operating system; a listening socket takes
\* the connections nobody accepted with it.
Dispose(s) ==
    /\ socket' = [socket EXCEPT ![s] = [@ EXCEPT !.closed = TRUE, !.socketHandle = NULL]]
    /\ os' = IF isConnected(s)
             THEN Release({getSocketHandle(s)} \cup ToSet(os[getSocketHandle(s)].pending))
             ELSE os

\* Idempotent.
close(t, s) == call[t] = NoCall /\ Dispose(s) /\ Returns(0) /\ UNCHANGED call

\* Faulty variant: the destructor forgets the handle without closing it.
DestructWithoutClose(s) ==
    /\ ~isClosed(s) /\ \A t \in Threads : call[t] # NoCall => call[t].on # s
    /\ socket' = [socket EXCEPT ![s] = [@ EXCEPT !.closed = TRUE, !.socketHandle = NULL]]
    /\ UNCHANGED <<os, call, result>>

\* ~TcpSocket(): "Releases the socket handle but not gracefully shut down the
\* connection."  Nobody is inside the object that is destroyed, and nobody uses
\* it afterwards.
Destruct(s) ==
    /\ ~isClosed(s) /\ \A t \in Threads : call[t] # NoCall => call[t].on # s
    /\ Dispose(s) /\ UNCHANGED <<call, result>>

\* A call blocked on a socket that is closed, a read of a direction that is shut
\* down and a write that has nobody to write to return with an error.
Interrupted(t) ==
    /\ call[t] # NoCall
    /\ \/ isClosed(call[t].on)
       \/ call[t].op = "read" /\ socket[call[t].on].inputShutdown
       \/ call[t].op = "write" /\ ~Writable(call[t].on)
    /\ Done(t) /\ Throws(IOException) /\ UNCHANGED <<socket, os>>

\* Only the traffic class is kept in the object; the other options live in the
\* operating system and are left out.  An id that is no option is malformed
\* input, a socket that is closed or has no handle a failure of the operation.
setOption(t, s, option, value) ==
    /\ call[t] = NoCall
    /\ \/ option = Unknown /\ Rejects(IllegalArgumentException)
       \/ (isClosed(s) \/ ~isConnected(s)) /\ Rejects(IOException)
       \/ /\ ~isClosed(s) /\ isConnected(s) /\ option = TrafficClass
          /\ socket' = [socket EXCEPT ![s].trafficClass = value]
          /\ Returns(0) /\ UNCHANGED <<os, call>>

getOption(t, s, option) ==
    /\ call[t] = NoCall
    /\ \/ option = Unknown /\ Rejects(IllegalArgumentException)
       \/ (isClosed(s) \/ ~isConnected(s)) /\ Rejects(IOException)
       \/ /\ ~isClosed(s) /\ isConnected(s) /\ option = TrafficClass
          /\ Returns(socket[s].trafficClass) /\ UNCHANGED <<socket, os, call>>

-----------------------------------------------------------------------------
Next ==
    \/ \E t \in Threads, s \in Sockets :
          \/ create(t, s) \/ listen(t, s) \/ accept(t, s) \/ available(t, s)
          \/ shutdownInput(t, s) \/ shutdownOutput(t, s) \/ close(t, s)
          \/ \E p \in Ports \cup {Malformed} : bind(t, s, p)
          \/ \E a \in Ports \cup {Silent, Malformed}, ms \in Timeouts : connect(t, s, a, ms)
          \/ \E b \in Buffers : read(t, s, b) \/ write(t, s, b)
          \/ \E o \in Options : getOption(t, s, o) \/ \E v \in Values : setOption(t, s, o, v)
    \/ \E s \in Sockets : Destruct(s)
    \/ \E t \in Threads :
          \/ ConnectEnd(t) \/ ConnectRefused(t) \/ ConnectTimeout(t)
          \/ \E target \in Sockets : AcceptEnd(t, target)
          \/ ReadEnd(t) \/ WriteEnd(t) \/ Interrupted(t)

Spec == Init /\ [][Next]_vars

\* A blocked call that can only fail is woken, and a read that can return does.
FairSpec == Spec /\ \A t \in Threads : WF_vars(Interrupted(t)) /\ WF_vars(ReadEnd(t))

-----------------------------------------------------------------------------
Holders(h) == {s \in Sockets : getSocketHandle(s) = h}
Queues(h) == {l \in Handles : Contains(os[l].pending, h)}

\* Every handle the operating system has open belongs to exactly one socket or
\* waits in exactly one accept queue, a closed socket holds none, and the two
\* ends of a connection name each other: close() releases the handle once, takes
\* the accept queue with it and cuts the peer off, so that a handle handed out
\* again is never reached through a socket or a connection of its earlier life.
HandlesAccounted ==
    /\ \A h \in Handles :
          /\ Cardinality(Holders(h)) + Cardinality(Queues(h)) = IF os[h].mode = "free" THEN 0 ELSE 1
          /\ os[h].peer # NULL => os[os[h].peer].peer = h
    /\ \A s \in Sockets : isClosed(s) => ~isConnected(s)

\* The handles are the ends of connections as Connection promises them: connect
\* joins two handles nobody has used, write() adds to the far end's bytes, in
\* parts, and never after shutdownOutput() or close() has put the end of the
\* stream there, read() takes from the front, and close() empties the handles
\* it releases and cuts off exactly their peers.
connection ==
    INSTANCE Connection WITH Ends <- Handles,
                             peer <- [h \in Handles |-> os[h].peer],
                             wire <- [h \in Handles |-> os[h].inbox],
                             sent <- [h \in Handles |-> os[h].total],
                             ended <- [h \in Handles |-> os[h].fin]
ImplementsConnection == connection!Spec

\* Once the end of the stream is on its way to a handle no more bytes follow,
\* also when shutdownOutput() or close() on one thread meets a write() in
\* progress on another.
NoDataAfterEnd ==
    [][\A h \in Handles : os[h].fin /\ os'[h].fin => os'[h].total = os[h].total]_vars

\* A read or a write blocked on a connection whose peer has closed returns: the
\* read with what is left and then the end of the stream, the write with an error.
PeerCloseUnblocks ==
    \A t \in Threads :
        (/\ call[t].op \in {"read", "write"} /\ isConnected(call[t].on)
         /\ os[getSocketHandle(call[t].on)].peer = NULL) ~> (call[t] = NoCall)

\* Thread t's call of m on s returns or throws in this step.
Leaves(m, t, s) ==
    /\ call'[t] = NoCall
    /\ \/ call[t].op = m /\ call[t].on = s
       \/ m = "create" /\ create(t, s)
       \/ m = "bind" /\ \E p \in Ports \cup {Malformed} : bind(t, s, p)
       \/ m = "listen" /\ listen(t, s)
       \/ m = "accept" /\ accept(t, s)
       \/ m = "connect" /\ \E a \in Ports \cup {Silent, Malformed}, ms \in Timeouts : connect(t, s, a, ms)
       \/ m = "read" /\ \E b \in Buffers : read(t, s, b)
       \/ m = "write" /\ \E b \in Buffers : write(t, s, b)
       \/ m = "available" /\ available(t, s)
       \/ m = "shutdownInput" /\ shutdownInput(t, s)
       \/ m = "shutdownOutput" /\ shutdownOutput(t, s)
       \/ m = "close" /\ close(t, s)
       \/ m = "getOption" /\ \E o \in Options : getOption(t, s, o)
       \/ m = "setOption" /\ \E o \in Options, v \in Values : setOption(t, s, o, v)

IsConnectedMeansConnected ==
    \A s \in Sockets : isConnected(s) => os[getSocketHandle(s)].mode = "connected"
=============================================================================
