-------------------------------- MODULE Sync --------------------------------
(***************************************************************************)
(* core/sync and core/async: an Event, made of a Mutex and a               *)
(* ConditionVariable (pthread) or of a kernel object (kernel32), used by   *)
(* several threads; and the Thread objects that hold the threads.          *)
(*                                                                         *)
(* Time is in fractions of a second, Second of them: all that the code can *)
(* tell is whether the nanoseconds of a deadline stay below a second.      *)
(***************************************************************************)
EXTENDS Integers, FiniteSets

CONSTANTS
    SyncThreads,
    ThreadObjects,
    MaxSyncCalls,   \* bound: calls of the event, and starts of threads
    ManyWaiters,    \* whether several threads wait for one manual event
    Second          \* the fractions of a second

VARIABLES
    event,          \* the platform, ManualReset, is_set, the holder of the mutex, and who sleeps on cond
    at, op,         \* where a thread is, in which call
    sets, released, \* ghosts: sets so far, and waits that have returned true
    syncCalls,
    objects,        \* the thread that a Thread object has as its data_
    started, joined \* threads started and joined, by their number

eventVars == <<event, at, op, sets, released, syncCalls>>
threadVars == <<objects, started, joined>>
syncVars == <<eventVars, threadVars>>

Nobody == "nobody"
invalid_data == 0
NoObject == -1

ASSUME SyncAssumption == Nobody \notin SyncThreads /\ MaxSyncCalls \in Nat /\ ManyWaiters \in BOOLEAN

SyncInit ==
    /\ event \in [platform : {"pthread", "kernel32"}, manual : BOOLEAN, is_set : BOOLEAN, mutex : {Nobody}, cond : {{}}]
    /\ at = [t \in SyncThreads |-> "idle"] /\ op = [t \in SyncThreads |-> "none"]
    /\ sets = (IF event.is_set THEN 1 ELSE 0) /\ released = 0 /\ syncCalls = 0
    /\ objects = [o \in ThreadObjects |-> NoObject] /\ started = 0 /\ joined = {}

Moved(t, place) == at' = [at EXCEPT ![t] = place]

-----------------------------------------------------------------------------
(* The mutex and the condition variable.                                   *)

lock(e, t) == e.mutex = Nobody /\ event' = [e EXCEPT !.mutex = t]
unlock(e) == [e EXCEPT !.mutex = Nobody]

\* The sleepers that a notify wakes are at "woken" after it; with none it is lost.
notify_one(e, places) ==
    IF e.cond = {} THEN event' = e /\ at' = places
    ELSE \E s \in e.cond : event' = [e EXCEPT !.cond = @ \ {s}] /\ at' = [places EXCEPT ![s] = "woken"]

\* cond.wait gives the mutex away and sleeps, in one step.
cond_wait(e, t) == event' = [unlock(e) EXCEPT !.cond = @ \cup {t}] /\ Moved(t, "asleep")

\* A deadline whose nanoseconds are a second or more is refused (EINVAL).
Refused(fraction, wait) == fraction + wait >= Second

-----------------------------------------------------------------------------
(* The pthread event.                                                      *)

IsWait(f) == f \in {"wait", "timed"}

\* reset is a member of Event<true> only.
SyncCall(t, f) ==
    /\ at[t] = "idle" /\ syncCalls < MaxSyncCalls
    /\ f = "reset" => event.manual
    /\ (IsWait(f) /\ event.manual /\ ~ManyWaiters) => \A u \in SyncThreads : ~(at[u] # "idle" /\ IsWait(op[u]))
    /\ op' = [op EXCEPT ![t] = f] /\ Moved(t, "calling") /\ syncCalls' = syncCalls + 1
    /\ UNCHANGED <<event, sets, released, threadVars>>

\* Out of a call, with the mutex given back.
Return(t, e) == event' = unlock(e) /\ Moved(t, "idle")

\* The lock_guard of a call; of a sleeper that was woken, or whose time is out.
Enter(t) ==
    /\ event.platform = "pthread" /\ at[t] \in {"calling", "woken", "late"}
    /\ lock(event, t)
    /\ Moved(t, IF at[t] = "late" THEN "failed" ELSE "inside")
    /\ UNCHANGED <<op, sets, released, syncCalls, threadVars>>

\* set that sets the event after it has notified nobody.
EventSetSilently(t) ==
    /\ event.platform = "pthread" /\ at[t] = "inside" /\ op[t] = "set"
    /\ event' = [event EXCEPT !.is_set = TRUE] /\ Moved(t, "leaving")
    /\ sets' = sets + 1 /\ UNCHANGED <<op, released, syncCalls, threadVars>>

EventSet(t) ==
    /\ event.platform = "pthread" /\ at[t] = "inside" /\ op[t] = "set"
    /\ notify_one([event EXCEPT !.is_set = TRUE], [at EXCEPT ![t] = "leaving"])
    /\ sets' = sets + 1 /\ UNCHANGED <<op, released, syncCalls, threadVars>>

EventReset(t) ==
    /\ event.platform = "pthread" /\ at[t] = "inside" /\ op[t] = "reset"
    /\ event' = [event EXCEPT !.is_set = FALSE] /\ Moved(t, "leaving")
    /\ UNCHANGED <<op, sets, released, syncCalls, threadVars>>

\* The loop of wait: an automatic event is reset by the wait that returns.
EventWait(t) ==
    /\ event.platform = "pthread" /\ at[t] = "inside" /\ IsWait(op[t])
    /\ \/ /\ event.is_set
          /\ event' = [event EXCEPT !.is_set = event.manual] /\ Moved(t, "leaving")
          /\ released' = released + 1
       \/ ~event.is_set /\ cond_wait(event, t) /\ UNCHANGED released
    /\ UNCHANGED <<op, sets, syncCalls, threadVars>>

\* wait(int) whose deadline has more nanoseconds than a second returns false at once.
EventWaitRefused(t) ==
    /\ event.platform = "pthread" /\ at[t] = "inside" /\ op[t] = "timed" /\ ~event.is_set
    /\ \E fraction, wait \in 0 .. Second - 1 : Refused(fraction, wait)
    /\ Moved(t, "failed") /\ UNCHANGED <<event, op, sets, released, syncCalls, threadVars>>

\* A timeout, and a spurious wakeup.
Late(t) ==
    /\ t \in event.cond /\ event.platform = "pthread"
    /\ event' = [event EXCEPT !.cond = @ \ {t}]
    /\ \/ op[t] = "timed" /\ Moved(t, "late")
       \/ Moved(t, "woken")
    /\ UNCHANGED <<op, sets, released, syncCalls, threadVars>>

Leave(t) ==
    /\ at[t] \in {"leaving", "failed"} /\ Return(t, event)
    /\ UNCHANGED <<op, sets, released, syncCalls, threadVars>>

-----------------------------------------------------------------------------
(* The kernel32 event: SetEvent, ResetEvent, and WaitForSingleObject.       *)

\* SetEvent releases all of the waiters of a manual event, or one of an automatic one.
KernelSet(t) ==
    /\ event.platform = "kernel32" /\ at[t] = "calling" /\ op[t] = "set" /\ sets' = sets + 1
    /\ \/ /\ event.manual \/ event.cond = {}
          /\ event' = [event EXCEPT !.is_set = TRUE, !.cond = {}]
          /\ at' = [u \in SyncThreads |-> IF u = t \/ u \in event.cond THEN "idle" ELSE at[u]]
          /\ released' = released + Cardinality(event.cond)
       \/ /\ ~event.manual
          /\ \E s \in event.cond : event' = [event EXCEPT !.cond = @ \ {s}] /\ at' = [at EXCEPT ![s] = "idle", ![t] = "idle"]
          /\ released' = released + 1
    /\ UNCHANGED <<op, syncCalls, threadVars>>

KernelReset(t) ==
    /\ event.platform = "kernel32" /\ at[t] = "calling" /\ op[t] = "reset"
    /\ event' = [event EXCEPT !.is_set = FALSE] /\ Moved(t, "idle")
    /\ UNCHANGED <<op, sets, released, syncCalls, threadVars>>

KernelWait(t) ==
    /\ event.platform = "kernel32" /\ at[t] = "calling" /\ IsWait(op[t])
    /\ \/ /\ event.is_set /\ event' = [event EXCEPT !.is_set = event.manual] /\ Moved(t, "idle")
          /\ released' = released + 1
       \/ /\ ~event.is_set /\ event' = [event EXCEPT !.cond = @ \cup {t}] /\ Moved(t, "asleep")
          /\ UNCHANGED released
    /\ UNCHANGED <<op, sets, syncCalls, threadVars>>

KernelTimeout(t) ==
    /\ event.platform = "kernel32" /\ t \in event.cond /\ op[t] = "timed"
    /\ event' = [event EXCEPT !.cond = @ \ {t}] /\ Moved(t, "idle")
    /\ UNCHANGED <<op, sets, released, syncCalls, threadVars>>

-----------------------------------------------------------------------------
(* Thread objects.  The asserts of Thread are what the callers keep.       *)

Valid(o) == objects[o] \notin {NoObject, invalid_data}

\* A thread that cannot be created leaves the object invalid.
ThreadStart(o) ==
    /\ objects[o] = NoObject /\ started < MaxSyncCalls
    /\ \/ started' = started + 1 /\ objects' = [objects EXCEPT ![o] = started + 1]
       \/ UNCHANGED started /\ objects' = [objects EXCEPT ![o] = invalid_data]
    /\ UNCHANGED <<joined, eventVars>>

\* The move constructor, and the move assignment to an object that holds nothing.
ThreadMove(o, other) ==
    /\ o # other /\ objects[other] # NoObject /\ ~Valid(o)
    /\ objects' = [objects EXCEPT ![o] = objects[other], ![other] = invalid_data]
    /\ UNCHANGED <<started, joined, eventVars>>

ThreadJoin(o) ==
    /\ Valid(o) /\ joined' = joined \cup {objects[o]}
    /\ objects' = [objects EXCEPT ![o] = invalid_data] /\ UNCHANGED <<started, eventVars>>

ThreadDestruct(o) ==
    /\ objects[o] = invalid_data /\ objects' = [objects EXCEPT ![o] = NoObject]
    /\ UNCHANGED <<started, joined, eventVars>>

ThreadNext ==
    \E o \in ThreadObjects :
        \/ ThreadStart(o) \/ ThreadJoin(o) \/ ThreadDestruct(o)
        \/ \E other \in ThreadObjects : ThreadMove(o, other)

EventNext ==
    \E t \in SyncThreads :
        \/ \E f \in {"set", "reset", "wait", "timed"} : SyncCall(t, f)
        \/ Enter(t) \/ EventSet(t) \/ EventReset(t) \/ EventWait(t) \/ EventWaitRefused(t) \/ Late(t) \/ Leave(t)
        \/ KernelSet(t) \/ KernelReset(t) \/ KernelWait(t) \/ KernelTimeout(t)

SyncNext == EventNext \/ ThreadNext

SyncSpec == SyncInit /\ [][SyncNext]_syncVars

-----------------------------------------------------------------------------
(* Properties.                                                             *)

\* Nobody sleeps on an event that is set, unless one who was woken is still on
\* its way to see it (Event.hpp set and wait); and a set of an automatic event
\* releases at most one wait, whatever times out, wakes for nothing, or comes
\* in between.
EventDelivers ==
    /\ (event.is_set /\ event.cond # {}) => \E t \in SyncThreads : IsWait(op[t]) /\ at[t] \in {"woken", "inside"}
    /\ ~event.manual => released + (IF event.is_set THEN 1 ELSE 0) <= sets
    /\ (event.manual /\ released > 0) => sets > 0

\* A thread that runs is held by one Thread object and can be joined, and no
\* object holds one that has been joined (Thread::Thread(Thread &&), operator =
\* and join).
ThreadsHeld ==
    \A n \in 1 .. started : Cardinality({o \in ThreadObjects : objects[o] = n}) = (IF n \in joined THEN 0 ELSE 1)

\* Both, of core::sync::Event and core::sync::Thread.
SyncKeeps == EventDelivers /\ ThreadsHeld

=============================================================================
