------------------------ MODULE MCFilterInputStream ------------------------
(* FilterInputStream for TLC: up to three threads and two filters around   *)
(* one source of two bytes, the second of which is 255.                    *)
EXTENDS FilterInputStream, TLC

CONSTANTS t1, t2, t3, f1, f2, s1, Finite

OneThread == {t1}
TwoThreads == {t1, t2}
ThreeThreads == {t1, t2, t3}
OneFilter == {f1}
TwoFilters == {f1, f2}
OneSource == {s1}
TwoBytes == (s1 :> <<7, 255>>)

AnyWait == {WAIT_INFINITE, Finite}   \* wait(WAIT_INFINITE) and wait(millisecs)
NoTimedWait == {WAIT_INFINITE}

\* -1 is what a caller passes who takes the parameter for an int; 2 is the
\* whole content, 1 a part of it.
ChainArgs == {-1, 2}
MonitorArgs == {1}
EdgeArgs == {-1, 0, 1, 2}

ChainSymmetry == {pt @@ pf : pt \in Permutations(TwoThreads), pf \in Permutations(TwoFilters)}
MonitorSymmetry == Permutations(ThreeThreads)
=============================================================================
