------------------------------- MODULE Mutex -------------------------------
(***************************************************************************)
(* decaf::util::concurrent::Mutex, the monitor that FilterInputStream      *)
(* embeds and exposes: a recursive lock with one condition.  One instance  *)
(* of this module stands for the mutexes of all the objects in Monitors.   *)
(***************************************************************************)
EXTENDS Naturals

CONSTANTS Threads,        \* the client threads
          Monitors,       \* the objects that carry a mutex
          NULL,           \* no thread, no monitor
          WAIT_INFINITE,  \* the timeout that means "no timeout"
          MaxDepth        \* bound on the nesting of lock() by one thread

VARIABLES owner,   \* owner[m]: the thread that holds m, or NULL
          count,   \* count[m]: how often the owner has locked m
          park,    \* park[t]: the wait() thread t is suspended in, or Running
          failed   \* the latest monitor call threw

mutexVars == <<owner, count, park, failed>>

Running == [st |-> "running", on |-> NULL, depth |-> 0]
Suspended == [st : {"waiting", "timed", "woken"}, on : Monitors, depth : 1..MaxDepth]

MutexTypeOK ==
    /\ owner \in [Monitors -> Threads \cup {NULL}]
    /\ count \in [Monitors -> 0..MaxDepth]
    /\ park \in [Threads -> {Running} \cup Suspended]
    /\ failed \in BOOLEAN

MutexInit ==
    /\ owner = [m \in Monitors |-> NULL]
    /\ count = [m \in Monitors |-> 0]
    /\ park = [t \in Threads |-> Running]
    /\ failed = FALSE

\* The threads suspended in wait() on m that no notify or timeout has reached.
Waiters(m) == {w \in Threads : park[w].on = m /\ park[w].st # "woken"}

Returns == failed' = FALSE

\* A monitor call by a thread that does not hold the lock throws.
NotOwner(t, m) ==
    /\ owner[m] # t
    /\ failed' = TRUE
    /\ UNCHANGED <<owner, count, park>>

\* Blocks (is not enabled) while another thread holds m.
lock(t, m) ==
    /\ park[t] = Running
    /\ owner[m] \in {NULL, t}
    /\ count[m] < MaxDepth
    /\ owner' = [owner EXCEPT ![m] = t]
    /\ count' = [count EXCEPT ![m] = @ + 1]
    /\ Returns
    /\ UNCHANGED park

unlock(t, m) ==
    /\ park[t] = Running
    /\ \/ /\ owner[m] = t
          /\ count' = [count EXCEPT ![m] = @ - 1]
          /\ owner' = [owner EXCEPT ![m] = IF count[m] = 1 THEN NULL ELSE t]
          /\ Returns
          /\ UNCHANGED park
       \/ NotOwner(t, m)

\* wait(millisecs): gives up every nested hold at once and suspends.
waitFor(t, m, millisecs) ==
    /\ park[t] = Running
    /\ \/ /\ owner[m] = t
          /\ park' = [park EXCEPT ![t] =
                        [st |-> IF millisecs = WAIT_INFINITE THEN "waiting" ELSE "timed",
                         on |-> m, depth |-> count[m]]]
          /\ owner' = [owner EXCEPT ![m] = NULL]
          /\ count' = [count EXCEPT ![m] = 0]
          /\ Returns
       \/ NotOwner(t, m)

wait(t, m) == waitFor(t, m, WAIT_INFINITE)

Wake(woken) ==
    park' = [w \in Threads |-> IF w \in woken THEN [park[w] EXCEPT !.st = "woken"]
                                              ELSE park[w]]

\* notify() wakes one waiter if there is one, notifyAll() all of them.
notify(t, m) ==
    /\ park[t] = Running
    /\ \/ /\ owner[m] = t
          /\ \/ \E w \in Waiters(m) : Wake({w})
             \/ Waiters(m) = {} /\ UNCHANGED park
          /\ Returns
          /\ UNCHANGED <<owner, count>>
       \/ NotOwner(t, m)

notifyAll(t, m) ==
    /\ park[t] = Running
    /\ \/ /\ owner[m] = t
          /\ Wake(Waiters(m))
          /\ Returns
          /\ UNCHANGED <<owner, count>>
       \/ NotOwner(t, m)

\* The timer of a wait(millisecs) runs out.
Timeout(t) ==
    /\ park[t].st = "timed"
    /\ Wake({t})
    /\ UNCHANGED <<owner, count, failed>>

\* A waiter may wake without notification or timeout.
SpuriousWakeup(t) ==
    /\ park[t].st = "waiting"
    /\ Wake({t})
    /\ UNCHANGED <<owner, count, failed>>

\* A woken waiter returns from wait() once it has the lock again, as deep as before.
Reacquire(t) ==
    /\ park[t].st = "woken"
    /\ owner[park[t].on] = NULL
    /\ owner' = [owner EXCEPT ![park[t].on] = t]
    /\ count' = [count EXCEPT ![park[t].on] = park[t].depth]
    /\ park' = [park EXCEPT ![t] = Running]
    /\ UNCHANGED failed

=============================================================================
