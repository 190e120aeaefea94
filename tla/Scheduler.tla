------------------------------ MODULE Scheduler ------------------------------
(***************************************************************************)
(* engine::task::scheduler as built by scheduler_dummy.cpp: one worker     *)
(* thread that sleeps on a manual-reset event (core::sync::Event<true>)    *)
(* and drains a queue of work; post_work pushes and then sets the event;   *)
(* the destructor pushes Terminate and joins the thread.                   *)
(*                                                                         *)
(* The queue is a FIFO without a bound whose push and pop are atomic; the  *)
(* module PageQueue looks inside.  The operations of the event run under   *)
(* its mutex and are atomic too; wait() rechecks is_set after each wakeup, *)
(* so waiting is a guard.                                                  *)
(***************************************************************************)
EXTENDS Naturals, Sequences

CONSTANTS
    Posters,    \* threads, other than the worker, that call post_work
    Worker,     \* the scheduler's thread; a running work may post more work
    MaxWorks,   \* bound: calls of post_work
    MaxLives,   \* bound: how often the scheduler is constructed
    Terminate   \* the message that stops the worker

Work == 1 .. MaxWorks
Threads == Posters \cup {Worker}

ASSUME ThreadsAssumption == Worker \notin Posters
ASSUME BoundsAssumption == MaxWorks \in Nat /\ MaxLives \in Nat
ASSUME TerminateAssumption == Terminate \notin Nat

VARIABLES
    queue,      \* impl.queue
    is_set,     \* impl.event
    wpc,        \* where the worker thread is
    running,    \* the work the worker is in, 0 for none
    post,       \* where each thread is in post_work
    dpc,        \* where the owner is in the scheduler's life
    lives,      \* how often the scheduler was constructed
    posted,     \* works pushed so far; numbers the works
    due,        \* works pushed before the Terminate of their scheduler
    done        \* works that have run to their end

vars == <<queue, is_set, wpc, running, post, dpc, lives, posted, due, done>>

Init ==
    /\ queue = <<>>
    /\ is_set = FALSE
    /\ wpc = "none"
    /\ running = 0
    /\ post = [t \in Threads |-> "idle"]
    /\ dpc = "none"
    /\ lives = 0
    /\ posted = 0
    /\ due = {}
    /\ done = {}

\* scheduler::construct: create_impl refuses a second scheduler, so the last one
\* is gone; a fresh queue, a fresh event and a new thread.
Construct ==
    /\ dpc = "none"
    /\ lives < MaxLives
    /\ lives' = lives + 1
    /\ queue' = <<>>
    /\ is_set' = FALSE
    /\ wpc' = "wait"
    /\ dpc' = "alive"
    /\ UNCHANGED <<running, post, posted, due, done>>

-----------------------------------------------------------------------------
(* post_work.  A thread that owns a reference to the scheduler posts while *)
(* it lives; a work posts from inside the worker, also after the owner     *)
(* pushed Terminate.                                                       *)

MayPost(t) == IF t = Worker THEN wpc = "run" ELSE dpc = "alive"

Emplace(t) ==
    /\ post[t] = "idle"
    /\ MayPost(t)
    /\ posted < MaxWorks
    /\ posted' = posted + 1
    /\ queue' = Append(queue, posted + 1)
    /\ due' = IF dpc = "alive" THEN due \cup {posted + 1} ELSE due
    /\ post' = [post EXCEPT ![t] = "set"]
    /\ UNCHANGED <<is_set, wpc, running, dpc, lives, done>>

\* Mutant: only the first message of several wakes the worker.
SetEventIfSole(t) ==
    /\ post[t] = "set"
    /\ is_set' = (is_set \/ Len(queue) <= 1)
    /\ post' = [post EXCEPT ![t] = "idle"]
    /\ UNCHANGED <<queue, wpc, running, dpc, lives, posted, due, done>>

SetEvent(t) ==
    /\ post[t] = "set"
    /\ is_set' = TRUE
    /\ post' = [post EXCEPT ![t] = "idle"]
    /\ UNCHANGED <<queue, wpc, running, dpc, lives, posted, due, done>>

-----------------------------------------------------------------------------
(* scheduler::destruct.  The owner outlives the other users of the         *)
(* scheduler: no other thread is inside post_work.                         *)

DestructEmplace ==
    /\ dpc = "alive"
    /\ \A t \in Posters : post[t] = "idle"
    /\ queue' = Append(queue, Terminate)
    /\ dpc' = "set"
    /\ UNCHANGED <<is_set, wpc, running, post, lives, posted, due, done>>

\* Mutant: the destructor does not wake the worker.
DestructSetForgotten ==
    /\ dpc = "set"
    /\ dpc' = "join"
    /\ UNCHANGED <<queue, is_set, wpc, running, post, lives, posted, due, done>>

DestructSet ==
    /\ dpc = "set"
    /\ is_set' = TRUE
    /\ dpc' = "join"
    /\ UNCHANGED <<queue, wpc, running, post, lives, posted, due, done>>

\* Mutant: the destructor does not join.
DestructDetach ==
    /\ dpc = "join"
    /\ dpc' = "none"
    /\ wpc' = "none"
    /\ queue' = <<>>
    /\ is_set' = FALSE
    /\ UNCHANGED <<running, post, lives, posted, due, done>>

\* join returns; event.reset; destroy_impl drops the queue and what is left in it.
DestructJoin ==
    /\ dpc = "join"
    /\ wpc = "exited"
    /\ dpc' = "none"
    /\ wpc' = "none"
    /\ queue' = <<>>
    /\ is_set' = FALSE
    /\ UNCHANGED <<running, post, lives, posted, due, done>>

-----------------------------------------------------------------------------
(* scheduler_thread and parse_message.                                     *)

Wait ==
    /\ wpc = "wait"
    /\ is_set
    /\ wpc' = "reset"
    /\ UNCHANGED <<queue, is_set, running, post, dpc, lives, posted, due, done>>

Reset ==
    /\ wpc = "reset"
    /\ is_set' = FALSE
    /\ wpc' = "parse"
    /\ UNCHANGED <<queue, running, post, dpc, lives, posted, due, done>>

PopWork ==
    /\ wpc = "parse"
    /\ queue # <<>>
    /\ Head(queue) # Terminate
    /\ running' = Head(queue)
    /\ queue' = Tail(queue)
    /\ wpc' = "run"
    /\ UNCHANGED <<is_set, post, dpc, lives, posted, due, done>>

PopTerminate ==
    /\ wpc = "parse"
    /\ queue # <<>>
    /\ Head(queue) = Terminate
    /\ queue' = Tail(queue)
    /\ wpc' = "exited"
    /\ UNCHANGED <<is_set, running, post, dpc, lives, posted, due, done>>

PopEmpty ==
    /\ wpc = "parse"
    /\ queue = <<>>
    /\ wpc' = "wait"
    /\ UNCHANGED <<queue, is_set, running, post, dpc, lives, posted, due, done>>

\* The workcall returns, all its calls of post_work included.
Return ==
    /\ wpc = "run"
    /\ post[Worker] = "idle"
    /\ done' = done \cup {running}
    /\ running' = 0
    /\ wpc' = "parse"
    /\ UNCHANGED <<queue, is_set, post, dpc, lives, posted, due>>

WorkerStep == Wait \/ Reset \/ PopWork \/ PopTerminate \/ PopEmpty \/ Return

Destruct == DestructEmplace \/ DestructSet \/ DestructJoin

Next ==
    \/ Construct
    \/ Destruct
    \/ WorkerStep
    \/ \E t \in Threads : Emplace(t) \/ SetEvent(t)

Spec == Init /\ [][Next]_vars

-----------------------------------------------------------------------------
(* Properties.                                                             *)

\* The queue holds works and Terminate, and the worker runs works only.
TypeOK ==
    /\ queue \in Seq(Work \cup {Terminate})
    /\ is_set \in BOOLEAN
    /\ wpc \in {"none", "wait", "reset", "parse", "run", "exited"}
    /\ running \in Work \cup {0}
    /\ post \in [Threads -> {"idle", "set"}]
    /\ dpc \in {"none", "alive", "set", "join"}
    /\ lives \in 0 .. MaxLives
    /\ posted \in 0 .. MaxWorks
    /\ due \subseteq Work
    /\ done \subseteq Work

(***************************************************************************)
(* No lost wakeup: while the worker sleeps and the queue holds a message,  *)
(* the event is set or the thread that pushed is about to set it.  The     *)
(* order "push, set" of post_work against "wait, reset, drain" of the      *)
(* worker is what makes this true.                                         *)
(***************************************************************************)
NoLostWakeup ==
    wpc = "wait" /\ queue # <<>>
        => is_set \/ dpc = "set" \/ \E t \in Posters : post[t] = "set"

(***************************************************************************)
(* A scheduler that is destroyed has run every work posted to it before    *)
(* its destructor was called, including the works that those works posted  *)
(* until then.                                                             *)
(***************************************************************************)
DrainedBeforeDestroy == dpc = "none" => due \subseteq done

(***************************************************************************)
(* Liveness.  The worker thread, a thread inside post_work and the         *)
(* destructor are scheduled; workcalls return.                             *)
(***************************************************************************)
Fairness ==
    /\ WF_vars(WorkerStep)
    /\ \A t \in Threads : WF_vars(SetEvent(t))
    /\ WF_vars(DestructSet \/ DestructJoin)

FairSpec == Spec /\ Fairness

\* A work posted while the scheduler was alive runs, even if nothing is ever
\* posted after it.
DueWorkRuns == \A w \in Work : w \in due ~> w \in done

\* The destructor returns, whatever the works that still run are posting.
DestructReturns == dpc = "set" ~> dpc = "none"

=============================================================================
