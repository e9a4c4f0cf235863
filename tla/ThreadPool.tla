----------------------------- MODULE ThreadPool -----------------------------
(***************************************************************************)
(* The worker pool of src/include/tfhe/utility/thread_pool.hpp, one action *)
(* per step between two synchronisation points.                            *)
(*                                                                         *)
(* A critical section that touches the shared state once (submit's and the *)
(* destructor's lock_guard scopes) is one action that needs mutex_ to be   *)
(* free; worker_loop's, which tests a predicate, may sleep and only then   *)
(* takes a task, holds mutex_ over several actions.  A worker sleeping in  *)
(* cv_.wait is at "waiting"; waking up, for a notification or for no       *)
(* reason, brings it back to "loop", where it contends for mutex_ again    *)
(* and re-evaluates the predicate.                                         *)
(*                                                                         *)
(* Worker = {} is num_threads == 0: submit() runs the task on its caller.  *)
(* The bodies of the tasks are the pool's environment: Submitter says who  *)
(* may submit which task (a client thread, or a running task), Throws      *)
(* which tasks may throw, Awaits and Collects which tasks and clients wait *)
(* for the futures they got before they go.                                *)
(***************************************************************************)
EXTENDS Naturals, Sequences, FiniteSets

CONSTANTS
  Worker,       (* the threads the constructor starts; {} is inline mode   *)
  Client,       (* the threads that hold a reference to the pool           *)
  Task,         (* the callables that may be submitted, each at most once  *)
  Submitter,    (* task -> the client or the task that may submit it       *)
  Throws,       (* the tasks that may throw                                *)
  Awaits,       (* the tasks that wait for the tasks they submitted        *)
  Collects,     (* the clients that wait for the futures they got          *)
  NoTask, NoThread,
  MaxSpurious   (* bound: spurious wake-ups of cv_.wait in a behaviour     *)

ASSUME ThreadPoolAssumption ==
  /\ IsFiniteSet(Worker)
  /\ Worker \cap Client = {}
  /\ Submitter \in [Task -> Client \cup Task]
  /\ Client \cap Task = {}
  /\ Throws \subseteq Task
  /\ Awaits \subseteq Task
  /\ Collects \subseteq Client
  /\ NoTask \notin Task \cup Client
  /\ NoThread \notin Worker
  /\ MaxSpurious \in Nat

VARIABLES
  tasks_,       (* the queue                                               *)
  stop_,
  mutex_,       (* the worker that holds it across actions, or NoThread    *)
  pc,           (* where each thread is                                    *)
  current,      (* thread -> the innermost task it executes, or NoTask     *)
  phase,        (* task -> where it is; for a settled one, its future      *)
  owner,        (* the thread that constructs and destroys the pool        *)
  spurious      (* spurious wake-ups so far                                *)

vars == <<tasks_, stop_, mutex_, pc, current, phase, owner, spurious>>

Thread == Worker \cup Client
Inline == Worker = {}

Waiting == {w \in Worker : pc[w] = "waiting"}
Settled(t) == phase[t] \in {"value", "exception", "escaped"}

Init ==
  /\ tasks_ = <<>>
  /\ stop_ = FALSE
  /\ mutex_ = NoThread
  /\ pc = [th \in Thread |-> IF th \in Worker THEN "unborn" ELSE "idle"]
  /\ current = [th \in Thread |-> NoTask]
  /\ phase = [t \in Task |-> "new"]
  /\ owner = "constructing"
  /\ spurious = 0

-----------------------------------------------------------------------------
(* The constructor: earlier workers already run while later ones start.    *)

Spawn(w) ==
  /\ owner = "constructing"
  /\ pc[w] = "unborn"
  /\ pc' = [pc EXCEPT ![w] = "loop"]
  /\ UNCHANGED <<tasks_, stop_, mutex_, current, phase, owner, spurious>>

Constructed ==
  /\ owner = "constructing"
  /\ \A w \in Worker : pc[w] # "unborn"
  /\ owner' = "alive"
  /\ UNCHANGED <<tasks_, stop_, mutex_, pc, current, phase, spurious>>

-----------------------------------------------------------------------------
(* submit()                                                                *)

(* th is executing user code that may call submit(t) now. *)
MayCall(th, t) ==
  /\ phase[t] = "new"
  /\ \/ /\ pc[th] = "idle"
        /\ owner = "alive"
        /\ Submitter[t] = th
     \/ /\ pc[th] = "run"
        /\ Submitter[t] = current[th]

(* Mutant: notify only when the queue was empty. *)
EnqueueQuietly(th, t) ==
  /\ ~Inline
  /\ MayCall(th, t)
  /\ mutex_ = NoThread
  /\ tasks_' = Append(tasks_, t)
  /\ phase' = [phase EXCEPT ![t] = "queued"]
  /\ pc' = IF tasks_ = <<>> THEN [pc EXCEPT ![th] = "notify"] ELSE pc
  /\ UNCHANGED <<stop_, mutex_, current, owner, spurious>>

Enqueue(th, t) ==
  /\ ~Inline
  /\ MayCall(th, t)
  /\ mutex_ = NoThread
  /\ tasks_' = Append(tasks_, t)
  /\ phase' = [phase EXCEPT ![t] = "queued"]
  /\ pc' = [pc EXCEPT ![th] = "notify"]
  /\ UNCHANGED <<stop_, mutex_, current, owner, spurious>>

(* Mutant: notify_one is forgotten. *)
NotifyNobody(th) ==
  /\ pc[th] = "notify"
  /\ pc' = [pc EXCEPT ![th] = IF th \in Worker THEN "run" ELSE "idle"]
  /\ UNCHANGED <<tasks_, stop_, mutex_, current, phase, owner, spurious>>

(* cv_.notify_one(), outside the lock, then back to the calling code. *)
NotifyOne(th) ==
  /\ pc[th] = "notify"
  /\ LET returned == [pc EXCEPT ![th] = IF th \in Worker THEN "run" ELSE "idle"]
     IN  IF Waiting = {} THEN pc' = returned
         ELSE \E w \in Waiting : pc' = [returned EXCEPT ![w] = "loop"]
  /\ UNCHANGED <<tasks_, stop_, mutex_, current, phase, owner, spurious>>

(* workers_.empty(): run_and_fulfill on the calling thread. *)
RunInline(th, t) ==
  /\ Inline
  /\ MayCall(th, t)
  /\ phase' = [phase EXCEPT ![t] = "running"]
  /\ current' = [current EXCEPT ![th] = t]
  /\ pc' = [pc EXCEPT ![th] = "run"]
  /\ UNCHANGED <<tasks_, stop_, mutex_, owner, spurious>>

-----------------------------------------------------------------------------
(* worker_loop()                                                           *)

Lock(w) ==
  /\ pc[w] = "loop"
  /\ mutex_ = NoThread
  /\ mutex_' = w
  /\ pc' = [pc EXCEPT ![w] = "test"]
  /\ UNCHANGED <<tasks_, stop_, current, phase, owner, spurious>>

(* cv_.wait's predicate. *)
Test(w) ==
  /\ pc[w] = "test"
  /\ pc' = [pc EXCEPT ![w] =
              IF stop_ \/ tasks_ # <<>> THEN "take" ELSE "park"]
  /\ UNCHANGED <<tasks_, stop_, mutex_, current, phase, owner, spurious>>

(* Mutant: sleeping with the mutex held. *)
ParkLocked(w) ==
  /\ pc[w] = "park"
  /\ pc' = [pc EXCEPT ![w] = "waiting"]
  /\ UNCHANGED <<tasks_, stop_, mutex_, current, phase, owner, spurious>>

(* cv_.wait releases the mutex and sleeps, atomically. *)
Park(w) ==
  /\ pc[w] = "park"
  /\ mutex_' = NoThread
  /\ pc' = [pc EXCEPT ![w] = "waiting"]
  /\ UNCHANGED <<tasks_, stop_, current, phase, owner, spurious>>

SpuriousWakeup(w) ==
  /\ pc[w] = "waiting"
  /\ spurious < MaxSpurious
  /\ spurious' = spurious + 1
  /\ pc' = [pc EXCEPT ![w] = "loop"]
  /\ UNCHANGED <<tasks_, stop_, mutex_, current, phase, owner>>

(* Mutant: a worker leaves as soon as stop_ is set. *)
ExitAtOnce(w) ==
  /\ pc[w] = "take"
  /\ stop_
  /\ mutex_' = NoThread
  /\ pc' = [pc EXCEPT ![w] = "exited"]
  /\ UNCHANGED <<tasks_, stop_, current, phase, owner, spurious>>

Exit(w) ==
  /\ pc[w] = "take"
  /\ stop_
  /\ tasks_ = <<>>
  /\ mutex_' = NoThread
  /\ pc' = [pc EXCEPT ![w] = "exited"]
  /\ UNCHANGED <<tasks_, stop_, current, phase, owner, spurious>>

(* Mutant: front() without pop(). *)
TakeWithoutPop(w) ==
  /\ pc[w] = "take"
  /\ tasks_ # <<>>
  /\ current' = [current EXCEPT ![w] = Head(tasks_)]
  /\ phase' = [phase EXCEPT ![Head(tasks_)] = "running"]
  /\ mutex_' = NoThread
  /\ pc' = [pc EXCEPT ![w] = "run"]
  /\ UNCHANGED <<tasks_, stop_, owner, spurious>>

(* Mutant: the newest task first. *)
TakeNewest(w) ==
  LET n == Len(tasks_)
  IN  /\ pc[w] = "take"
      /\ tasks_ # <<>>
      /\ tasks_' = SubSeq(tasks_, 1, n - 1)
      /\ current' = [current EXCEPT ![w] = tasks_[n]]
      /\ phase' = [phase EXCEPT ![tasks_[n]] = "running"]
      /\ mutex_' = NoThread
      /\ pc' = [pc EXCEPT ![w] = "run"]
      /\ UNCHANGED <<stop_, owner, spurious>>

Take(w) ==
  /\ pc[w] = "take"
  /\ tasks_ # <<>>
  /\ tasks_' = Tail(tasks_)
  /\ current' = [current EXCEPT ![w] = Head(tasks_)]
  /\ phase' = [phase EXCEPT ![Head(tasks_)] = "running"]
  /\ mutex_' = NoThread
  /\ pc' = [pc EXCEPT ![w] = "run"]
  /\ UNCHANGED <<stop_, owner, spurious>>

-----------------------------------------------------------------------------
(* The end of a task's body.  A packaged_task stores the value or the      *)
(* exception in the future and the worker loops.  Inline, a value is set   *)
(* and submit() returns to the code below on the stack, but an exception   *)
(* leaves submit() itself: the promise dies and no future is returned.     *)

(* The task on whose behalf th ran t, when both are frames of one stack. *)
Below(t) ==
  IF Inline /\ Submitter[t] \in Task THEN Submitter[t] ELSE NoTask

(* Mutant: an inline submit() made by a task returns to the client. *)
AfterFrameOfClient(th, t) == IF th \in Worker THEN "loop" ELSE "idle"

(* Where th continues once t is off its stack. *)
AfterFrame(th, t) ==
  IF th \in Worker THEN "loop" ELSE IF Below(t) = NoTask THEN "idle" ELSE "run"

Leave(th, outcome, next) ==
  LET t == current[th]
  IN  /\ phase' = [phase EXCEPT ![t] = outcome]
      /\ current' = [current EXCEPT ![th] = Below(t)]
      /\ pc' = [pc EXCEPT ![th] = next]
      /\ UNCHANGED <<tasks_, stop_, mutex_, owner, spurious>>

(* The futures x, a task or a client, got from submit() are all ready. *)
FuturesReady(x) ==
  \A s \in Task : Submitter[s] = x => Settled(s) \/ phase[s] = "new"

Return(th) ==
  /\ pc[th] = "run"
  /\ current[th] \in Awaits => FuturesReady(current[th])
  /\ Leave(th, "value", AfterFrame(th, current[th]))

Throw(th) ==
  /\ pc[th] = "run"
  /\ current[th] \in Throws
  /\ IF Inline
     THEN Leave(th, "escaped",
                IF Below(current[th]) = NoTask THEN "idle" ELSE "raised")
     ELSE Leave(th, "exception", "loop")

(* Inline, the exception a nested submit() let out: the calling body may   *)
(* catch it, or let it out in its turn.                                    *)
Catch(th) ==
  /\ pc[th] = "raised"
  /\ pc' = [pc EXCEPT ![th] = "run"]
  /\ UNCHANGED <<tasks_, stop_, mutex_, current, phase, owner, spurious>>

Propagate(th) ==
  /\ pc[th] = "raised"
  /\ Leave(th, "escaped",
           IF Below(current[th]) = NoTask THEN "idle" ELSE "raised")

-----------------------------------------------------------------------------
(* The destructor, run once no client uses the pool any more (the lifetime *)
(* rule of any C++ object; tasks still queued or running may submit).      *)

ClientDone(c) ==
  /\ owner = "alive"
  /\ pc[c] = "idle"
  /\ c \in Collects => FuturesReady(c)
  /\ pc' = [pc EXCEPT ![c] = "done"]
  /\ UNCHANGED <<tasks_, stop_, mutex_, current, phase, owner, spurious>>

ClientsDone == \A c \in Client : pc[c] = "done"

(* Mutant: stop_ is set without the mutex. *)
SetStopUnlocked ==
  /\ owner = "alive"
  /\ ClientsDone
  /\ ~Inline
  /\ stop_' = TRUE
  /\ owner' = "notifying"
  /\ UNCHANGED <<tasks_, mutex_, pc, current, phase, spurious>>

SetStop ==
  /\ owner = "alive"
  /\ ClientsDone
  /\ ~Inline
  /\ mutex_ = NoThread
  /\ stop_' = TRUE
  /\ owner' = "notifying"
  /\ UNCHANGED <<tasks_, mutex_, pc, current, phase, spurious>>

(* Mutant: notify_one in the destructor. *)
NotifySingle ==
  /\ owner = "notifying"
  /\ IF Waiting = {} THEN UNCHANGED pc
     ELSE \E w \in Waiting : pc' = [pc EXCEPT ![w] = "loop"]
  /\ owner' = "joining"
  /\ UNCHANGED <<tasks_, stop_, mutex_, current, phase, spurious>>

NotifyAll ==
  /\ owner = "notifying"
  /\ pc' = [th \in Thread |-> IF th \in Waiting THEN "loop" ELSE pc[th]]
  /\ owner' = "joining"
  /\ UNCHANGED <<tasks_, stop_, mutex_, current, phase, spurious>>

JoinAll ==
  /\ owner = "joining"
  /\ \A w \in Worker : pc[w] = "exited"
  /\ owner' = "destroyed"
  /\ UNCHANGED <<tasks_, stop_, mutex_, pc, current, phase, spurious>>

DestroyInline ==
  /\ Inline
  /\ owner = "alive"
  /\ ClientsDone
  /\ owner' = "destroyed"
  /\ UNCHANGED <<tasks_, stop_, mutex_, pc, current, phase, spurious>>

-----------------------------------------------------------------------------

WorkerLoop(w) == Lock(w) \/ Test(w) \/ Park(w) \/ Exit(w) \/ Take(w)

Submit(th) == \E t \in Task : Enqueue(th, t) \/ RunInline(th, t)

(* What th does on its own once its caller's code has got going. *)
Proceed(th) ==
  NotifyOne(th) \/ Return(th) \/ Throw(th) \/ Catch(th) \/ Propagate(th)

Construct == Constructed \/ \E w \in Worker : Spawn(w)

Destroy == SetStop \/ NotifyAll \/ JoinAll \/ DestroyInline

(* The pool is gone: nothing left to do. *)
Destroyed == owner = "destroyed" /\ UNCHANGED vars

Next ==
  \/ Construct
  \/ \E th \in Thread : Submit(th) \/ Proceed(th)
  \/ \E w \in Worker : WorkerLoop(w) \/ SpuriousWakeup(w)
  \/ \E c \in Client : ClientDone(c)
  \/ Destroy
  \/ Destroyed

(* Every thread that can run is eventually run, and no task body runs for  *)
(* ever; a thread already inside submit() gets out of it.  Nobody is       *)
(* obliged to call submit() or to destroy the pool, but a destructor once  *)
(* begun goes on.  mutex_ needs no strong fairness: each time it is taken, *)
(* a task, a wake-up or a worker is used up.                               *)
Fairness ==
  /\ \A th \in Thread : WF_vars(Proceed(th))
  /\ \A w \in Worker : WF_vars(WorkerLoop(w))
  /\ WF_vars(NotifyAll \/ JoinAll)

Spec == Init /\ [][Next]_vars
FairSpec == Spec /\ Fairness

-----------------------------------------------------------------------------
(* Safety                                                                  *)

(* Types, and who holds mutex_: the worker inside worker_loop's critical   *)
(* section, which cv_.wait leaves while it sleeps.                         *)
TypeOK ==
  /\ tasks_ \in Seq(Task)
  /\ stop_ \in BOOLEAN
  /\ mutex_ \in Worker \cup {NoThread}
  /\ \A w \in Worker : mutex_ = w <=> pc[w] \in {"test", "park", "take"}
  /\ pc \in [Thread -> {"unborn", "loop", "test", "park", "waiting", "take",
                        "run", "raised", "notify", "exited", "idle", "done"}]
  /\ current \in [Thread -> Task \cup {NoTask}]
  /\ phase \in [Task -> {"new", "queued", "running",
                         "value", "exception", "escaped"}]
  /\ owner \in {"constructing", "alive", "notifying", "joining", "destroyed"}
  /\ spurious \in 0..MaxSpurious

(* A task waits in the queue once, or runs on one worker, or neither: a    *)
(* worker that takes the front of tasks_ also removes it (l.97-98), so no  *)
(* task is run twice and none vanishes between queue and worker.           *)
InOnePlace ==
  /\ \A i, j \in 1..Len(tasks_) : tasks_[i] = tasks_[j] => i = j
  /\ \A t \in Task :
       phase[t] = "queued" <=> \E i \in 1..Len(tasks_) : tasks_[i] = t
  /\ ~Inline => \A t \in Task :
       phase[t] = "running" <=> \E w \in Worker : current[w] = t
  /\ \A v, w \in Worker : current[v] = current[w] => v = w \/ current[v] = NoTask

(* Destruction never drops work: when the destructor has joined its        *)
(* workers, every task ever queued has run to its end and its future is    *)
(* ready, even a task that a running task submitted after stop_ was set    *)
(* (l.96 lets a worker leave only on an empty queue).                      *)
NothingStranded ==
  owner = "destroyed" =>
    /\ tasks_ = <<>>
    /\ \A t \in Task : phase[t] = "new" \/ Settled(t)
    /\ \A w \in Worker : pc[w] = "exited"

(* Once notify_all has gone out no worker is asleep or going to sleep, so  *)
(* the joins of l.48 can only wait for tasks.  It fails if stop_ is set    *)
(* without mutex_, between a worker's test and its sleep.                  *)
NoSleeperAfterNotifyAll ==
  owner \in {"joining", "destroyed"} =>
    \A w \in Worker : pc[w] \notin {"park", "waiting"}

(* No wake-up is lost although notify_one comes after the unlock (l.71)    *)
(* and may hit a worker that was waking up anyway: while any worker is     *)
(* asleep, each queued task has a notification still to be sent or a       *)
(* worker awake and on its way to the queue.                               *)
OnTheWay == {th \in Thread : pc[th] \in {"notify", "loop", "test", "take"}}

NoLostWakeup == Waiting # {} => Len(tasks_) <= Cardinality(OnTheWay)

(* Tasks that wait for tasks of theirs can hang the pool: they keep their  *)
(* workers while what they wait for is in the queue, and after stop_ idle  *)
(* workers have left (l.96).  Nothing but the awaited tasks could free     *)
(* such a worker, and nobody is left to take them.                         *)
Blocked(w) == pc[w] = "run" /\ current[w] \in Awaits /\ ~FuturesReady(current[w])

Hung ==
  /\ ~Inline
  /\ tasks_ # <<>>
  /\ \A w \in Worker : pc[w] = "exited" \/ Blocked(w)

(* No worker and no caller of submit() can go on by itself. *)
AtRest ==
  /\ \A th \in Thread : pc[th] # "notify"
  /\ \A w \in Worker : pc[w] \in {"waiting", "exited"} \/ Blocked(w)

(* That is the only way the pool hangs: when no thread can go on by itself *)
(* and a task is left, the queue is not empty and every worker still there *)
(* is held by a waiting task.  So no wake-up was lost, and the tasks being *)
(* run do not wait for one another in a circle.                            *)
HangsOnlyWhenAllAwait ==
  ~Inline /\ AtRest /\ (\E t \in Task : phase[t] \in {"queued", "running"}) => Hung

(* Inline, "f runs synchronously before this returns" (l.52-53): a client  *)
(* that is back from submit() has left nothing running, however deep the   *)
(* tasks nested and whichever of them threw.                               *)
InlineIsSynchronous ==
  \A c \in Client : Inline /\ pc[c] \in {"idle", "done"} =>
    /\ current[c] = NoTask
    /\ \A t \in Task : Submitter[t] = c => phase[t] # "running"

(* submit()'s promise for num_threads == 0 (l.24-28): it runs the task and *)
(* returns an already-ready future, so callers need no fallback of their   *)
(* own.  A task that ends without a future would break it.                 *)
EverySubmitYieldsFuture == \A t \in Task : phase[t] # "escaped"

(* The invariant the proofs of ThreadPoolProofs rest on, for a pool with   *)
(* worker threads: where a thread may be, given the state of the           *)
(* destructor, and who is left to serve the queue.  Its heart is the last  *)
(* conjunct: not all workers may leave while something is queued.          *)
PlacesOK ==
  /\ \A c \in Client : pc[c] \in {"idle", "notify", "done"} /\ current[c] = NoTask
  /\ \A w \in Worker :
       /\ pc[w] \notin {"idle", "done", "raised"}
       /\ current[w] # NoTask <=> pc[w] \in {"run", "notify"}
       /\ pc[w] = "unborn" => owner = "constructing"
       /\ pc[w] = "exited" => stop_
       /\ stop_ => pc[w] # "park"

ShutdownOK ==
  /\ stop_ <=> owner \in {"notifying", "joining", "destroyed"}
  /\ stop_ => ClientsDone
  /\ owner = "destroyed" => \A w \in Worker : pc[w] = "exited"
  /\ tasks_ # <<>> => \E w \in Worker : pc[w] # "exited"

PoolInv ==
  TypeOK /\ PlacesOK /\ ShutdownOK /\ InOnePlace /\ NoSleeperAfterNotifyAll

-----------------------------------------------------------------------------
(* Liveness and refinement                                                 *)

(* The future submit() returned becomes ready, before, during or after the *)
(* start of the destructor, unless waiting tasks hang the pool.            *)
EveryFutureReady == \A t \in Task : phase[t] = "queued" ~> Settled(t) \/ Hung

(* A destructor that has set stop_ returns, all its joins succeed, unless  *)
(* waiting tasks hang the pool.                                            *)
DestructorReturns == owner = "notifying" ~> owner = "destroyed" \/ Hung

Promise ==
  INSTANCE TaskPool WITH queue <- tasks_, open <- owner # "destroyed"

(* With worker threads the pool implements the promise, fairness included  *)
(* except when waiting tasks hang the pool for good.                       *)
KeepsPromise == Promise!Safety /\ (<>[]Hung \/ Promise!Fairness)
=============================================================================
