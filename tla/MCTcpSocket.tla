---------------------------- MODULE MCTcpSocket ----------------------------
(* TcpSocket for TLC: a listener, the socket it accepts into and a client, *)
(* three handles, one port, connections that carry up to MaxBytes bytes.   *)
EXTENDS TcpSocket, TLC

CONSTANTS t1, t2, srv, acc, cli, h1, h2, h3, p1, buf

OneThread == {t1}
TwoThreads == {t1, t2}
TwoSockets == {srv, cli}
ThreeSockets == {srv, acc, cli}
ThreeHandles == {h1, h2, h3}
OnePort == {p1}
AnyTimeout == {0, 1}
NoTimeout == {0}

Args(size, offset, length) == [buffer |-> buf, size |-> size, offset |-> offset, length |-> length]
\* One byte, no byte, one byte too many, no buffer.
EdgeBuffers == {Args(1, 0, 1), Args(1, 1, 0), Args(1, 1, 1), [Args(1, 0, 1) EXCEPT !.buffer = NULL]}
FewBuffers == {Args(2, 0, 2), Args(2, 1, 1)}
OneByte == {Args(1, 0, 1)}
NoBuffers == {}

AllOptions == {TrafficClass, Unknown}
NoOptions == {}
OneValue == {1}

ArgumentSymmetric == Permutations(ThreeHandles) \cup Permutations(TwoSockets)
DataSymmetric == Permutations(ThreeHandles) \cup Permutations(ThreeSockets)
Symmetric == Permutations(TwoThreads) \cup Permutations(ThreeHandles) \cup Permutations(ThreeSockets)
=============================================================================
