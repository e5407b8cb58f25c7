------------------------- MODULE FilterInputStream -------------------------
(***************************************************************************)
(* decaf::io::FilterInputStream: a decorator that forwards every stream    *)
(* call to the stream it wraps, deletes that stream with itself when it    *)
(* owns it, and is a monitor through a mutex of its own.  Filters wrap     *)
(* sources or other filters; client threads construct, use and destroy.    *)
(***************************************************************************)
EXTENDS Integers, Sequences, SequencesExt

CONSTANTS Threads, Filters, Sources, Content, SizeBits,
          NULL, WAIT_INFINITE, MaxDepth,
          Millis,        \* the timeouts passed to wait(millisecs)
          Args           \* the integers passed as buffer size or skip count

VARIABLES life,          \* life[o]: "fresh", "live" or "gone"
          inputStream,   \* inputStream[f]: the stream f wraps
          own,           \* own[f]: f deletes the wrapped stream with itself
          owner, count, park, failed,   \* the mutex of every filter
          held,          \* held[t][f]: how often t has locked f, as t counts it
          call,          \* call[t]: the stream call t is in
          pos, closed, result           \* the sources, and what calls returned

vars == <<life, inputStream, own, owner, count, park, failed, held, call, pos, closed, result>>
objectVars == <<life, inputStream, own>>
sourceVars == <<pos, closed, result>>

mutex == INSTANCE Mutex WITH Monitors <- Filters
stream == INSTANCE InputStream

Objects == Filters \cup Sources
Other == "std::exception"   \* anything thrown that is not a decaf exception
NoCall == [on |-> NULL]

TypeOK ==
    /\ mutex!MutexTypeOK /\ stream!TypeOK
    /\ life \in [Objects -> {"fresh", "live", "gone"}]
    /\ inputStream \in [Filters -> Objects \cup {NULL}]
    /\ own \in [Filters -> BOOLEAN]
    /\ held \in [Threads -> [Filters -> 0..MaxDepth]]
    /\ call \in [Threads -> {NoCall} \cup
                   [on : Filters, m : stream!Methods \cup {"wait"},
                    arg : Args \cup Millis \cup {0}, seen : Nat]]

Init ==
    /\ mutex!MutexInit /\ stream!Init
    /\ life = [o \in Objects |-> IF o \in Sources THEN "live" ELSE "fresh"]
    /\ inputStream = [f \in Filters |-> NULL]
    /\ own = [f \in Filters |-> FALSE]
    /\ held = [t \in Threads |-> [f \in Filters |-> 0]]
    /\ call = [t \in Threads |-> NoCall]

\* f, the stream it wraps, the stream that one wraps, ... down to a source or NULL.
RECURSIVE Chain(_)
Chain(o) == IF o \in Filters THEN <<o>> \o Chain(inputStream[o]) ELSE <<o>>

Wrapped(o) == \E f \in Filters : life[f] = "live" /\ inputStream[f] = o

\* No thread is in a call through o, holds o's lock or waits on o.
Quiescent(o) ==
    /\ \A t \in Threads : call[t] = NoCall \/ o \notin ToSet(Chain(call[t].on))
    /\ o \in Filters => owner[o] = NULL /\ \A t \in Threads : park[t].on # o

Construct(f, in, isOwn) ==
    /\ life[f] = "fresh"
    /\ in # NULL => life[in] = "live" /\ ~Wrapped(in) /\ Quiescent(in)
    /\ inputStream' = [inputStream EXCEPT ![f] = in]
    /\ own' = [own EXCEPT ![f] = isOwn]
    /\ life' = [life EXCEPT ![f] = "live"]
    /\ UNCHANGED <<owner, count, park, failed, held, call, sourceVars>>

\* Faulty variant: a destructor that ignores own.
DoomedAll(f) == ToSet(Chain(f)) \ {NULL}

\* What "delete f" deletes: each destructor deletes the wrapped stream if it owns it.
Doomed(f) ==
    LET c == Chain(f) IN {c[i] : i \in {j \in DOMAIN c : \A k \in 1..j-1 : own[c[k]]}} \ {NULL}

\* Whatever the wrapped stream's destructor throws is caught and dropped.
Destruct(f) ==
    /\ life[f] = "live" /\ ~Wrapped(f)
    /\ \A o \in Doomed(f) : Quiescent(o)
    /\ life' = [o \in Objects |-> IF o \in Doomed(f) THEN "gone" ELSE life[o]]
    /\ UNCHANGED <<inputStream, own, owner, count, park, failed, held, call, sourceVars>>

-----------------------------------------------------------------------------
\* Faulty variant: no catch clauses.
CatchNothing(rethrown, r) == r

\* DECAF_CATCH_RETHROW for each of rethrown, then DECAF_CATCHALL_THROW( IOException ).
Catch(rethrown, r) ==
    IF r.kind \in rethrown \cup {"ok"} THEN r ELSE stream!Throw(stream!IOException)

\* t calls method m of f, which calls it on the wrapped stream, down to the source.
Enter(t, f, m, n) ==
    /\ call[t] = NoCall /\ park[t] = mutex!Running
    /\ life[f] = "live" /\ ~Wrapped(f) /\ Last(Chain(f)) # NULL
    /\ m # "close" => held[t][f] > 0
    /\ call' = [call EXCEPT ![t] = [on |-> f, m |-> m, arg |-> n, seen |-> pos[Last(Chain(f))]]]
    /\ UNCHANGED <<objectVars, owner, count, park, failed, held, pos, closed, result>>

\* The source, not locked by anyone, completes the call from the position the
\* call found; every filter on the way back applies its catch clauses and its
\* return type.
Leave(t, f, m, n, rethrown) ==
    /\ call[t].on = f /\ call[t].m = m /\ call[t].arg = n
    /\ LET s == Last(Chain(f)) IN
       \E o \in stream!Outcomes(m, stream!SizeT(n), s, call[t].seen, closed[s])
                  \cup {stream!Throw(Other)} :
           /\ pos' = IF o.adv > 0 THEN [pos EXCEPT ![s] = call[t].seen + o.adv] ELSE pos
           /\ closed' = [closed EXCEPT ![s] = @ \/ (m = "close" /\ o.kind = "ok")]
           /\ result' =
                 LET r == FoldRight(LAMBDA g, x : Catch(rethrown, [x EXCEPT !.val = stream!Narrow(m, @)]),
                                    Front(Chain(f)), o)
                 IN [kind |-> r.kind, val |-> r.val]
    /\ call' = [call EXCEPT ![t] = NoCall]
    /\ UNCHANGED <<objectVars, owner, count, park, failed, held>>

\* try { return inputStream->m( n ); } with the catch clauses that rethrow.
Forward(t, f, m, n, rethrown) == Enter(t, f, m, n) \/ Leave(t, f, m, n, rethrown)

available(t, f) == Forward(t, f, "available", 0, {stream!IOException})

read(t, f) == Forward(t, f, "read", 0, {stream!IOException})

readArray(t, f, bufferSize) == Forward(t, f, "readArray", bufferSize, {stream!IOException})

close(t, f) == Forward(t, f, "close", 0, {stream!IOException})

skip(t, f, num) == Forward(t, f, "skip", num, {stream!Unsupported, stream!IOException})

-----------------------------------------------------------------------------
\* Synchronizable: each call goes to the filter's own mutex.
Monitor(t, f) == call[t] = NoCall /\ life[f] = "live" /\ UNCHANGED <<objectVars, sourceVars>>

\* t stays in its call of wait while it is suspended.
Suspend(t, f, millisecs) ==
    call' = IF failed' THEN call
            ELSE [call EXCEPT ![t] = [on |-> f, m |-> "wait", arg |-> millisecs, seen |-> 0]]

\* Faulty variant: lock() that never reaches the mutex.
lockNothing(t, f) ==
    /\ Monitor(t, f) /\ park[t] = mutex!Running /\ held[t][f] < MaxDepth
    /\ held' = [held EXCEPT ![t][f] = @ + 1]
    /\ UNCHANGED <<owner, count, park, failed, call>>

lock(t, f) ==
    /\ Monitor(t, f) /\ mutex!lock(t, f)
    /\ held' = [held EXCEPT ![t][f] = @ + 1]
    /\ UNCHANGED call

\* Faulty variant: unlock() that calls mutex.lock().
unlockLocks(t, f) ==
    /\ Monitor(t, f) /\ mutex!lock(t, f)
    /\ held' = [held EXCEPT ![t][f] = IF @ > 0 THEN @ - 1 ELSE 0]
    /\ UNCHANGED call

unlock(t, f) ==
    /\ Monitor(t, f) /\ mutex!unlock(t, f)
    /\ held' = IF failed' THEN held ELSE [held EXCEPT ![t][f] = @ - 1]
    /\ UNCHANGED call

wait(t, f) ==
    Monitor(t, f) /\ mutex!wait(t, f) /\ Suspend(t, f, WAIT_INFINITE) /\ UNCHANGED held

\* Faulty variant: wait(millisecs) that drops its argument.
waitForEver(t, f, millisecs) ==
    Monitor(t, f) /\ mutex!wait(t, f) /\ Suspend(t, f, millisecs) /\ UNCHANGED held

waitFor(t, f, millisecs) ==
    Monitor(t, f) /\ mutex!waitFor(t, f, millisecs) /\ Suspend(t, f, millisecs) /\ UNCHANGED held

notify(t, f) == Monitor(t, f) /\ mutex!notify(t, f) /\ UNCHANGED <<held, call>>

notifyAll(t, f) == Monitor(t, f) /\ mutex!notifyAll(t, f) /\ UNCHANGED <<held, call>>

Timeout(t) == mutex!Timeout(t) /\ UNCHANGED <<objectVars, sourceVars, held, call>>

SpuriousWakeup(t) == mutex!SpuriousWakeup(t) /\ UNCHANGED <<objectVars, sourceVars, held, call>>

\* wait() returns.
Reacquire(t) ==
    /\ mutex!Reacquire(t)
    /\ call' = [call EXCEPT ![t] = NoCall]
    /\ UNCHANGED <<objectVars, sourceVars, held>>

-----------------------------------------------------------------------------
Next ==
    \/ \E f \in Filters, in \in Objects \cup {NULL}, isOwn \in BOOLEAN : Construct(f, in, isOwn)
    \/ \E f \in Filters : Destruct(f)
    \/ \E t \in Threads, f \in Filters :
          \/ available(t, f) \/ read(t, f) \/ close(t, f)
          \/ \E n \in Args : readArray(t, f, n) \/ skip(t, f, n)
          \/ lock(t, f) \/ unlock(t, f) \/ wait(t, f)
          \/ \E ms \in Millis : waitFor(t, f, ms)
          \/ notify(t, f) \/ notifyAll(t, f)
    \/ \E t \in Threads : Timeout(t) \/ SpuriousWakeup(t) \/ Reacquire(t)

Spec == Init /\ [][Next]_vars

\* The timer of a timed wait fires, and a lock that is free again and again is
\* eventually granted to a thread that waits for it.
FairSpec == Spec /\ \A t \in Threads : WF_vars(Timeout(t)) /\ SF_vars(Reacquire(t))

-----------------------------------------------------------------------------
\* A thread that is not suspended in wait() on f holds f exactly as deep as its
\* own lock() and unlock() calls say, and a thread suspended on f holds nothing
\* of it and will get back the depth it gave up: lock, unlock, wait and notify
\* of FilterInputStream all reach the same mutex with the right call.
HoldsAgree ==
    \A t \in Threads, f \in Filters :
        IF park[t].on = f
        THEN owner[f] # t /\ park[t].depth = held[t][f]
        ELSE held[t][f] = IF owner[f] = t THEN count[f] ELSE 0

\* Used under its own lock, a filter, or filters around filters, is an
\* InputStream: each call takes effect as one atomic call on the source, and
\* returns or throws what the InputStream contract allows (the filter's catch
\* clauses and return types change nothing a caller of InputStream may rely on).
StreamContract == stream!Spec

\* ~FilterInputStream deletes the wrapped stream if and only if own is set,
\* also when the filter dies because the filter around it owns it.
OwnershipRespected ==
    [][\A f \in Filters :
          life[f] = "live" /\ life'[f] = "gone" /\ inputStream[f] # NULL
              => ((life'[inputStream[f]] = "gone") <=> own[f])]_vars

\* wait(millisecs) with a finite time returns without any notify, provided the
\* filter's lock is free again and again: the timeout given to
\* FilterInputStream::wait reaches the mutex.
TimedWaitReturns ==
    \A t \in Threads, f \in Filters :
        []<>(owner[f] = NULL)
            => ((call[t].on = f /\ call[t].m = "wait" /\ call[t].arg # WAIT_INFINITE)
                    ~> call[t] = NoCall)

\* The comment of read() says that at the end of the stream the value -1 is
\* returned.
ReadReportsEndOfStream ==
    [][\A t \in Threads :
          /\ call[t].on # NULL /\ call'[t] = NoCall /\ call[t].m = "read"
          /\ stream!Left(Last(Chain(call[t].on)), call[t].seen) = 0
          /\ result'.kind = "ok"
          => result'.val = stream!EOF]_vars

\* The comment of skip() says that no bytes are skipped when n is negative.
NegativeSkipSkipsNothing ==
    [][\A t \in Threads :
          /\ call[t].on # NULL /\ call'[t] = NoCall /\ call[t].m = "skip"
          /\ call[t].arg < 0 /\ result'.kind = "ok"
          => result'.val = 0 /\ pos' = pos]_vars
=============================================================================
