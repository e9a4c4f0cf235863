-------------------------- MODULE ThreadPoolProofs --------------------------
(* TLAPS proofs about ThreadPool, for every set of threads and tasks. *)
EXTENDS ThreadPool, FiniteSetTheorems, TLAPS

-----------------------------------------------------------------------------
(* Type correctness                                                        *)

LEMMA InitTypeOK == Init => TypeOK
<1> SUFFICES ASSUME Init PROVE TypeOK
  OBVIOUS
<1>1. \A w \in Worker : pc[w] = "unborn" /\ mutex_ # w
  BY ThreadPoolAssumption DEF Init, Thread, ThreadPoolAssumption
<1>2. tasks_ \in Seq(Task) /\ spurious \in 0..MaxSpurious
  BY ThreadPoolAssumption DEF Init, ThreadPoolAssumption
<1>3. pc \in [Thread -> {"unborn", "idle"}]
  BY DEF Init
<1>4. QED
  BY <1>1, <1>2, <1>3 DEF Init, TypeOK

LEMMA LeaveTypeOK ==
  ASSUME TypeOK, NEW th \in Thread, NEW outcome \in {"value", "exception", "escaped"},
         NEW next \in {"loop", "run", "idle", "raised"},
         pc[th] \in {"run", "raised"}, Leave(th, outcome, next)
  PROVE  TypeOK'
<1> DEFINE t == current[th]
<1>1. Below(t) \in Task \cup {NoTask}
  BY DEF Below
<1>2. QED
  BY <1>1 DEF TypeOK, Leave, Thread

LEMMA NextTypeOK == TypeOK /\ [Next]_vars => TypeOK'
<1> SUFFICES ASSUME TypeOK, [Next]_vars PROVE TypeOK'
  OBVIOUS
<1> USE ThreadPoolAssumption DEF ThreadPoolAssumption
<1>1. CASE UNCHANGED vars
  BY <1>1 DEF vars, TypeOK
<1>2. CASE Construct
  BY <1>2 DEF Construct, Spawn, Constructed, TypeOK, Thread
<1>3. ASSUME NEW th \in Thread, NEW t \in Task, Enqueue(th, t) PROVE TypeOK'
  BY <1>3 DEF Enqueue, MayCall, TypeOK, Thread
<1>4. ASSUME NEW th \in Thread, NEW t \in Task, RunInline(th, t) PROVE TypeOK'
  BY <1>4 DEF RunInline, MayCall, TypeOK, Thread
<1>5. ASSUME NEW th \in Thread, NotifyOne(th) PROVE TypeOK'
  BY <1>5 DEF NotifyOne, Waiting, TypeOK, Thread
<1>6. ASSUME NEW th \in Thread, Return(th) PROVE TypeOK'
  <2>1. AfterFrame(th, current[th]) \in {"loop", "run", "idle", "raised"}
    BY DEF AfterFrame
  <2>2. QED
    BY <1>6, <2>1, LeaveTypeOK DEF Return
<1>7. ASSUME NEW th \in Thread, Throw(th) PROVE TypeOK'
  BY <1>7, LeaveTypeOK DEF Throw
<1>8. ASSUME NEW th \in Thread, Catch(th) PROVE TypeOK'
  BY <1>8 DEF Catch, TypeOK, Thread
<1>9. ASSUME NEW th \in Thread, Propagate(th) PROVE TypeOK'
  BY <1>9, LeaveTypeOK DEF Propagate
<1>10. ASSUME NEW w \in Worker, Lock(w) \/ Test(w) \/ Park(w) PROVE TypeOK'
  BY <1>10 DEF Lock, Test, Park, TypeOK, Thread
<1>11. ASSUME NEW w \in Worker, Exit(w) PROVE TypeOK'
  BY <1>11 DEF Exit, TypeOK, Thread
<1>12. ASSUME NEW w \in Worker, Take(w) PROVE TypeOK'
  <2>1. Head(tasks_) \in Task /\ Tail(tasks_) \in Seq(Task)
    BY <1>12 DEF Take, TypeOK
  <2>2. QED
    BY <1>12, <2>1 DEF Take, TypeOK, Thread
<1>13. ASSUME NEW w \in Worker, SpuriousWakeup(w) PROVE TypeOK'
  BY <1>13 DEF SpuriousWakeup, TypeOK, Thread
<1>14. ASSUME NEW c \in Client, ClientDone(c) PROVE TypeOK'
  BY <1>14 DEF ClientDone, TypeOK, Thread
<1>15. CASE Destroy
  <2>1. CASE SetStop
    BY <2>1 DEF SetStop, TypeOK, Thread
  <2>2. CASE NotifyAll
    BY <2>2 DEF NotifyAll, Waiting, TypeOK, Thread
  <2>3. CASE JoinAll
    BY <2>3 DEF JoinAll, TypeOK, Thread
  <2>4. CASE DestroyInline
    BY <2>4 DEF DestroyInline, TypeOK, Thread
  <2>5. QED
    BY <1>15, <2>1, <2>2, <2>3, <2>4 DEF Destroy
<1>16. CASE Destroyed
  BY <1>16 DEF Destroyed, vars, TypeOK
<1>17. QED
  BY <1>1, <1>2, <1>3, <1>4, <1>5, <1>6, <1>7, <1>8, <1>9, <1>10, <1>11,
     <1>12, <1>13, <1>14, <1>15, <1>16
     DEF Next, Submit, Proceed, WorkerLoop

(* Every variable keeps its type, and mutex_ is held exactly by the worker *)
(* inside worker_loop's critical section.                                  *)
THEOREM TypeCorrect == Spec => []TypeOK
  BY InitTypeOK, NextTypeOK, PTL DEF Spec

-----------------------------------------------------------------------------
(* Safety of a pool with worker threads                                    *)

LEMMA InitPoolInv ==
  ASSUME Worker # {}, Init
  PROVE  PoolInv
<1> USE ThreadPoolAssumption DEF ThreadPoolAssumption
<1>1. TypeOK
  BY InitTypeOK
<1>2. \A w \in Worker : pc[w] = "unborn" /\ current[w] = NoTask
  BY DEF Init, Thread
<1>3. \A c \in Client : pc[c] = "idle" /\ current[c] = NoTask
  BY DEF Init, Thread
<1>4. PlacesOK
  BY <1>2, <1>3 DEF Init, PlacesOK
<1>5. ShutdownOK
  BY DEF Init, ShutdownOK
<1>6. InOnePlace
  <2>1. tasks_ = <<>> /\ Len(tasks_) = 0 /\ \A t \in Task : phase[t] = "new"
    BY DEF Init
  <2>2. \A t \in Task, w \in Worker : current[w] # t
    BY <1>2
  <2>3. QED
    BY <1>2, <2>1, <2>2 DEF InOnePlace
<1>7. QED
  BY <1>1, <1>4, <1>5, <1>6 DEF Init, PoolInv, NoSleeperAfterNotifyAll

(* A step that leaves the queue, the phases and the running tasks alone    *)
(* leaves every task in its one place.                                     *)
LEMMA PlaceUnchanged ==
  ASSUME InOnePlace, UNCHANGED <<tasks_, current, phase>>
  PROVE  InOnePlace'
  BY DEF InOnePlace, Inline

LEMMA EnqueuePoolInv ==
  ASSUME Worker # {}, PoolInv, TypeOK', NEW th \in Thread, NEW t \in Task, Enqueue(th, t)
  PROVE  PoolInv'
<1> USE ThreadPoolAssumption DEF ThreadPoolAssumption, PoolInv
<1>1. th \in Worker => pc[th] = "run"
  BY DEF Enqueue, MayCall, PlacesOK
<1>2. th \in Client => pc[th] = "idle" /\ owner = "alive"
  BY DEF Enqueue, MayCall, PlacesOK
<1>3. \A x \in Thread : pc'[x] = IF x = th THEN "notify" ELSE pc[x]
  BY DEF Enqueue, TypeOK
<1>4. PlacesOK'
  BY <1>1, <1>2, <1>3 DEF Enqueue, PlacesOK, Thread
<1>5. ShutdownOK'
  <2>1. \E w \in Worker : pc'[w] # "exited"
    <3>1. CASE th \in Worker
      BY <3>1, <1>3 DEF Thread
    <3>2. CASE th \in Client
      <4>1. PICK w \in Worker : TRUE
        OBVIOUS
      <4>2. pc[w] # "exited"
        BY <3>2, <1>2 DEF PlacesOK, ShutdownOK
      <4>3. QED
        BY <4>1, <4>2, <1>3 DEF Thread
    <3>3. QED
      BY <3>1, <3>2 DEF Thread
  <2>2. stop_ => ClientsDone'
    BY <1>2, <1>3 DEF ShutdownOK, ClientsDone, Thread
  <2>3. owner # "destroyed"
    BY <1>1, <1>2 DEF ShutdownOK, Thread
  <2>4. QED
    BY <2>1, <2>2, <2>3 DEF ShutdownOK, Enqueue
<1>6. InOnePlace'
  <2>1. /\ Len(tasks_') = Len(tasks_) + 1
        /\ Len(tasks_) \in Nat
        /\ \A i \in 1..Len(tasks_) : tasks_'[i] = tasks_[i] /\ tasks_[i] \in Task
        /\ tasks_'[Len(tasks_) + 1] = t
    BY DEF Enqueue, TypeOK
  <2>2. phase' = [phase EXCEPT ![t] = "queued"] /\ phase[t] = "new" /\ current' = current
    BY DEF Enqueue, MayCall
  <2>3. \A i \in 1..Len(tasks_) : tasks_[i] # t
    BY <2>1, <2>2 DEF InOnePlace
  <2>4. \A i, j \in 1..Len(tasks_') : tasks_'[i] = tasks_'[j] => i = j
    BY <2>1, <2>3 DEF InOnePlace
  <2>5. ASSUME NEW s \in Task
        PROVE  phase'[s] = "queued" <=> \E i \in 1..Len(tasks_') : tasks_'[i] = s
    <3>1. CASE s = t
      <4>1. phase'[s] = "queued"
        BY <2>2, <3>1 DEF TypeOK
      <4>2. Len(tasks_) + 1 \in 1..Len(tasks_') /\ tasks_'[Len(tasks_) + 1] = s
        BY <2>1, <3>1
      <4>3. QED
        BY <4>1, <4>2
    <3>2. CASE s # t
      <4>1. phase'[s] = phase[s]
        BY <2>2, <3>2 DEF TypeOK
      <4>2. (\E i \in 1..Len(tasks_) : tasks_[i] = s)
              <=> \E i \in 1..Len(tasks_') : tasks_'[i] = s
        BY <2>1, <3>2
      <4>3. QED
        BY <4>1, <4>2 DEF InOnePlace
    <3>3. QED
      BY <3>1, <3>2
  <2>6. ASSUME NEW s \in Task
        PROVE  phase'[s] = "running" <=> \E w \in Worker : current'[w] = s
    BY <2>2 DEF InOnePlace, TypeOK, Inline
  <2>7. QED
    BY <2>2, <2>4, <2>5, <2>6 DEF InOnePlace
<1>7. NoSleeperAfterNotifyAll'
  BY <1>3 DEF NoSleeperAfterNotifyAll, Enqueue, Thread
<1>8. QED
  BY <1>4, <1>5, <1>6, <1>7

LEMMA TakePoolInv ==
  ASSUME Worker # {}, PoolInv, TypeOK', NEW w \in Worker, Take(w)
  PROVE  PoolInv'
<1> USE ThreadPoolAssumption DEF ThreadPoolAssumption, PoolInv
<1> DEFINE t == Head(tasks_)
<1>1. /\ Len(tasks_) \in Nat /\ Len(tasks_) > 0
      /\ Len(tasks_') = Len(tasks_) - 1
      /\ \A i \in 1..Len(tasks_') : tasks_'[i] = tasks_[i + 1]
      /\ t = tasks_[1] /\ t \in Task
  BY DEF Take, TypeOK
<1>2. \A x \in Thread : pc'[x] = IF x = w THEN "run" ELSE pc[x]
  BY DEF Take, TypeOK
<1>c. \A x \in Thread : current'[x] = IF x = w THEN t ELSE current[x]
  BY DEF Take, TypeOK
<1>3. PlacesOK'
  BY <1>1, <1>2, <1>c DEF PlacesOK, Take, Thread
<1>4. ShutdownOK'
  <2>1. ClientsDone => ClientsDone'
    BY <1>2 DEF ClientsDone, Thread
  <2>2. owner # "destroyed" /\ pc'[w] # "exited"
    BY <1>2 DEF ShutdownOK, Take, Thread
  <2>3. QED
    BY <2>1, <2>2 DEF ShutdownOK, Take
<1>5. InOnePlace'
  <2>1. phase' = [phase EXCEPT ![t] = "running"] /\ phase[t] = "queued"
    BY <1>1 DEF Take, InOnePlace
  <2>2. \A v \in Worker : current[v] # t
    BY <2>1, <1>1 DEF InOnePlace, Inline
  <2>3. \A i, j \in 1..Len(tasks_') : tasks_'[i] = tasks_'[j] => i = j
    BY <1>1 DEF InOnePlace
  <2>4. ASSUME NEW s \in Task
        PROVE  phase'[s] = "queued" <=> \E i \in 1..Len(tasks_') : tasks_'[i] = s
    <3>1. CASE s = t
      <4>1. phase'[s] = "running"
        BY <3>1, <2>1 DEF TypeOK
      <4>2. ASSUME NEW i \in 1..Len(tasks_') PROVE tasks_'[i] # s
        BY <1>1, <3>1 DEF InOnePlace
      <4>3. QED
        BY <4>1, <4>2
    <3>2. CASE s # t
      <4>1. phase'[s] = phase[s]
        BY <3>2, <2>1 DEF TypeOK
      <4>2. (\E i \in 1..Len(tasks_) : tasks_[i] = s)
              <=> \E i \in 1..Len(tasks_') : tasks_'[i] = s
        <5>1. ASSUME NEW i \in 1..Len(tasks_), tasks_[i] = s
              PROVE  \E j \in 1..Len(tasks_') : tasks_'[j] = s
          <6>1. i # 1 /\ i - 1 \in 1..Len(tasks_') /\ tasks_'[i - 1] = tasks_[i - 1 + 1]
            BY <5>1, <3>2, <1>1
          <6>2. tasks_'[i - 1] = s
            BY <6>1, <5>1
          <6>3. QED
            BY <6>1, <6>2
        <5>2. ASSUME NEW i \in 1..Len(tasks_'), tasks_'[i] = s
              PROVE  \E j \in 1..Len(tasks_) : tasks_[j] = s
          BY <5>2, <1>1
        <5>3. QED
          BY <5>1, <5>2
      <4>3. QED
        BY <4>1, <4>2 DEF InOnePlace
    <3>3. QED
      BY <3>1, <3>2
  <2>5. ASSUME NEW s \in Task
        PROVE  phase'[s] = "running" <=> \E v \in Worker : current'[v] = s
    <3>1. CASE s = t
      BY <3>1, <2>1, <1>c DEF TypeOK, Thread
    <3>2. CASE s # t
      <4>1. current[w] = NoTask
        BY DEF PlacesOK, Take
      <4>2. phase'[s] = phase[s]
        BY <3>2, <2>1 DEF TypeOK
      <4>3. QED
        BY <3>2, <4>1, <4>2, <1>c DEF InOnePlace, Inline, Thread
    <3>3. QED
      BY <3>1, <3>2
  <2>6. \A u, v \in Worker : current'[u] = current'[v] => u = v \/ current'[u] = NoTask
    BY <2>2, <1>c DEF InOnePlace, Thread
  <2>7. QED
    BY <2>3, <2>4, <2>5, <2>6 DEF InOnePlace
<1>6. NoSleeperAfterNotifyAll'
  BY <1>2 DEF NoSleeperAfterNotifyAll, Take, Thread
<1>7. QED
  BY <1>3, <1>4, <1>5, <1>6

(* A worker that ends its task leaves it settled and goes back to work. *)
LEMMA LeavePoolInv ==
  ASSUME Worker # {}, PoolInv, TypeOK', NEW w \in Worker,
         NEW outcome \in {"value", "exception"},
         pc[w] = "run", Leave(w, outcome, "loop")
  PROVE  PoolInv'
<1> USE ThreadPoolAssumption DEF ThreadPoolAssumption, PoolInv
<1> DEFINE t == current[w]
<1>1. t \in Task /\ Below(t) = NoTask
  BY DEF PlacesOK, TypeOK, Thread, Below, Inline
<1>2. \A x \in Thread : pc'[x] = IF x = w THEN "loop" ELSE pc[x]
  BY <1>1 DEF Leave, TypeOK
<1>c. \A x \in Thread : current'[x] = IF x = w THEN NoTask ELSE current[x]
  BY <1>1 DEF Leave, TypeOK
<1>3. \A s \in Task : phase'[s] = IF s = t THEN outcome ELSE phase[s]
  BY DEF Leave, TypeOK
<1>4. PlacesOK'
  BY <1>2, <1>c DEF PlacesOK, Leave, Thread
<1>5. ShutdownOK'
  <2>1. ClientsDone => ClientsDone'
    BY <1>2 DEF ClientsDone, Thread
  <2>2. owner # "destroyed" /\ pc'[w] # "exited"
    BY <1>2 DEF ShutdownOK, Thread
  <2>3. QED
    BY <2>1, <2>2 DEF ShutdownOK, Leave
<1>6. InOnePlace'
  <2>1. phase[t] = "running"
    BY <1>1 DEF InOnePlace, Inline
  <2>2. ASSUME NEW s \in Task
        PROVE  phase'[s] = "queued" <=> \E i \in 1..Len(tasks_') : tasks_'[i] = s
    BY <2>1, <1>3 DEF InOnePlace, Leave
  <2>3. ASSUME NEW s \in Task
        PROVE  phase'[s] = "running" <=> \E v \in Worker : current'[v] = s
    BY <1>1, <1>c, <1>3 DEF InOnePlace, Inline, Thread
  <2>4. QED
    BY <2>2, <2>3, <1>c DEF InOnePlace, Leave, Thread
<1>7. NoSleeperAfterNotifyAll'
  BY <1>2 DEF NoSleeperAfterNotifyAll, ShutdownOK, Leave, Thread
<1>8. QED
  BY <1>4, <1>5, <1>6, <1>7

(* The steps of worker_loop and of the pool's environment that neither     *)
(* queue, start nor end a task.                                            *)
LEMMA ControlPoolInv ==
  ASSUME Worker # {}, PoolInv, TypeOK', UNCHANGED <<tasks_, current, phase>>,
         \/ Construct
         \/ \E th \in Thread : NotifyOne(th)
         \/ \E w \in Worker : Lock(w) \/ Test(w) \/ Park(w) \/ Exit(w)
                               \/ SpuriousWakeup(w)
         \/ \E c \in Client : ClientDone(c)
         \/ Destroy
  PROVE  PoolInv'
<1> USE ThreadPoolAssumption DEF ThreadPoolAssumption, PoolInv
<1>1. InOnePlace'
  BY PlaceUnchanged
<1>2. CASE \E w \in Worker : Spawn(w)
  <2>1. PICK w \in Worker : Spawn(w)
    BY <1>2
  <2>2. \A x \in Thread : pc'[x] = IF x = w THEN "loop" ELSE pc[x]
    BY <2>1 DEF Spawn, TypeOK
  <2>3. owner = "constructing" /\ ~stop_ /\ UNCHANGED <<stop_, owner>>
    BY <2>1 DEF Spawn, ShutdownOK
  <2>4. QED
    BY <1>1, <2>1, <2>2, <2>3
       DEF Spawn, PlacesOK, ShutdownOK, NoSleeperAfterNotifyAll, Thread
<1>3. CASE Constructed
  BY <1>1, <1>3 DEF Constructed, PlacesOK, ShutdownOK, NoSleeperAfterNotifyAll
<1>4. CASE \E th \in Thread : NotifyOne(th)
  <2>1. PICK th \in Thread : NotifyOne(th)
    BY <1>4
  <2>2. UNCHANGED <<stop_, owner>> /\ pc[th] = "notify"
    BY <2>1 DEF NotifyOne
  <2>3. \A x \in Thread :
          \/ pc'[x] = pc[x]
          \/ x = th /\ pc'[x] = IF th \in Worker THEN "run" ELSE "idle"
          \/ x \in Worker /\ pc[x] = "waiting" /\ pc'[x] = "loop"
    BY <2>1 DEF NotifyOne, Waiting, TypeOK, Thread
  <2>4. PlacesOK'
    BY <2>2, <2>3 DEF PlacesOK, Thread
  <2>5. ShutdownOK'
    <3>1. th \in Worker \/ ~ClientsDone
      BY <2>2 DEF ClientsDone, Thread
    <3>2. ClientsDone => ClientsDone'
      BY <2>3, <3>1 DEF ClientsDone, Thread
    <3>3. \A w \in Worker : pc'[w] = "exited" <=> pc[w] = "exited"
      BY <2>2, <2>3 DEF Thread
    <3>4. QED
      BY <2>2, <3>2, <3>3 DEF ShutdownOK
  <2>6. NoSleeperAfterNotifyAll'
    BY <2>2, <2>3 DEF NoSleeperAfterNotifyAll, Thread
  <2>7. QED
    BY <1>1, <2>4, <2>5, <2>6
<1>5. ASSUME NEW w \in Worker, Lock(w) PROVE PoolInv'
  <2>1. \A x \in Thread : pc'[x] = IF x = w THEN "test" ELSE pc[x]
    BY <1>5 DEF Lock, TypeOK
  <2>2. QED
    BY <1>1, <1>5, <2>1 DEF Lock, PlacesOK, ShutdownOK, ClientsDone,
       NoSleeperAfterNotifyAll, Thread
<1>6. ASSUME NEW w \in Worker, Test(w) PROVE PoolInv'
  <2>1. \A x \in Thread :
          pc'[x] = IF x = w THEN IF stop_ \/ tasks_ # <<>> THEN "take" ELSE "park"
                   ELSE pc[x]
    BY <1>6 DEF Test, TypeOK
  <2>2. pc[w] = "test" /\ UNCHANGED <<stop_, owner>>
    BY <1>6 DEF Test
  <2>3. PlacesOK'
    BY <2>1, <2>2 DEF PlacesOK, Thread
  <2>4. ShutdownOK'
    BY <2>1, <2>2 DEF ShutdownOK, ClientsDone, Thread
  <2>5. NoSleeperAfterNotifyAll'
    BY <2>1, <2>2 DEF NoSleeperAfterNotifyAll, ShutdownOK, Thread
  <2>6. QED
    BY <1>1, <2>3, <2>4, <2>5
<1>7. ASSUME NEW w \in Worker, Park(w) PROVE PoolInv'
  <2>1. \A x \in Thread : pc'[x] = IF x = w THEN "waiting" ELSE pc[x]
    BY <1>7 DEF Park, TypeOK
  <2>2. ~stop_
    BY <1>7 DEF Park, PlacesOK
  <2>3. QED
    BY <1>1, <1>7, <2>1, <2>2 DEF Park, PlacesOK, ShutdownOK, ClientsDone,
       NoSleeperAfterNotifyAll, Thread
<1>8. ASSUME NEW w \in Worker, Exit(w) PROVE PoolInv'
  <2>1. \A x \in Thread : pc'[x] = IF x = w THEN "exited" ELSE pc[x]
    BY <1>8 DEF Exit, TypeOK
  <2>2. QED
    BY <1>1, <1>8, <2>1 DEF Exit, PlacesOK, ShutdownOK, ClientsDone,
       NoSleeperAfterNotifyAll, Thread
<1>9. ASSUME NEW w \in Worker, SpuriousWakeup(w) PROVE PoolInv'
  <2>1. \A x \in Thread : pc'[x] = IF x = w THEN "loop" ELSE pc[x]
    BY <1>9 DEF SpuriousWakeup, TypeOK
  <2>2. QED
    BY <1>1, <1>9, <2>1 DEF SpuriousWakeup, PlacesOK, ShutdownOK, ClientsDone,
       NoSleeperAfterNotifyAll, Thread
<1>10. ASSUME NEW c \in Client, ClientDone(c) PROVE PoolInv'
  <2>1. \A x \in Thread : pc'[x] = IF x = c THEN "done" ELSE pc[x]
    BY <1>10 DEF ClientDone, TypeOK
  <2>2. QED
    BY <1>1, <1>10, <2>1 DEF ClientDone, PlacesOK, ShutdownOK, ClientsDone,
       NoSleeperAfterNotifyAll, Thread
<1>11. CASE SetStop
  <2>1. \A w \in Worker : pc[w] # "park"
    BY <1>11 DEF SetStop, TypeOK
  <2>2. QED
    BY <1>1, <1>11, <2>1 DEF SetStop, PlacesOK, ShutdownOK, ClientsDone,
       NoSleeperAfterNotifyAll
<1>12. CASE NotifyAll
  <2>1. \A x \in Thread :
          pc'[x] = IF x \in Worker /\ pc[x] = "waiting" THEN "loop" ELSE pc[x]
    BY <1>12 DEF NotifyAll, Waiting
  <2>2. stop_ /\ stop_' /\ owner' = "joining" /\ owner = "notifying"
    BY <1>12 DEF NotifyAll, ShutdownOK
  <2>3. PlacesOK'
    BY <2>1, <2>2 DEF PlacesOK, Thread
  <2>4. ShutdownOK'
    BY <2>1, <2>2 DEF ShutdownOK, ClientsDone, Thread
  <2>5. NoSleeperAfterNotifyAll'
    BY <2>1, <2>2 DEF NoSleeperAfterNotifyAll, PlacesOK, Thread
  <2>6. QED
    BY <1>1, <2>3, <2>4, <2>5
<1>13. CASE JoinAll
  BY <1>1, <1>13 DEF JoinAll, PlacesOK, ShutdownOK, ClientsDone,
     NoSleeperAfterNotifyAll
<1>14. CASE DestroyInline
  BY <1>14 DEF DestroyInline, Inline
<1>15. QED
  BY <1>2, <1>3, <1>4, <1>5, <1>6, <1>7, <1>8, <1>9, <1>10, <1>11, <1>12,
     <1>13, <1>14 DEF Construct, Destroy

LEMMA NextPoolInv ==
  ASSUME Worker # {}, PoolInv, [Next]_vars
  PROVE  PoolInv'
<1>1. TypeOK'
  BY NextTypeOK DEF PoolInv
<1> DEFINE Still == UNCHANGED <<tasks_, current, phase>>
<1>2. CASE UNCHANGED vars \/ Destroyed
  <2>1. UNCHANGED vars
    BY <1>2 DEF Destroyed
  <2>2. QED
    BY <1>1, <2>1, PlaceUnchanged DEF PoolInv, PlacesOK, ShutdownOK,
       ClientsDone, NoSleeperAfterNotifyAll, vars
<1>3. CASE Construct \/ Destroy
  <2>1. Still
    BY <1>3 DEF Construct, Spawn, Constructed, Destroy, SetStop, NotifyAll,
                JoinAll, DestroyInline
  <2>2. QED
    BY <1>1, <1>3, <2>1, ControlPoolInv
<1>4. ASSUME NEW th \in Thread, NEW t \in Task, Enqueue(th, t) PROVE PoolInv'
  BY <1>1, <1>4, EnqueuePoolInv
<1>5. ASSUME NEW th \in Thread, NEW t \in Task, RunInline(th, t) PROVE PoolInv'
  BY <1>5 DEF RunInline, Inline
<1>6. ASSUME NEW th \in Thread, NotifyOne(th) PROVE PoolInv'
  BY <1>1, <1>6, ControlPoolInv DEF NotifyOne
<1>7. ASSUME NEW th \in Thread, Return(th) \/ Throw(th) PROVE PoolInv'
  <2>1. th \in Worker /\ pc[th] = "run"
    BY <1>7 DEF Return, Throw, PoolInv, PlacesOK, Thread
  <2>2. \E outcome \in {"value", "exception"} : Leave(th, outcome, "loop")
    BY <1>7, <2>1 DEF Return, Throw, AfterFrame, Inline
  <2>3. QED
    BY <1>1, <2>1, <2>2, LeavePoolInv
<1>8. ASSUME NEW th \in Thread, Catch(th) \/ Propagate(th) PROVE PoolInv'
  BY <1>8 DEF Catch, Propagate, PoolInv, PlacesOK, Thread
<1>9. ASSUME NEW w \in Worker, Lock(w) \/ Test(w) \/ Park(w) \/ Exit(w)
                               \/ SpuriousWakeup(w)
      PROVE  PoolInv'
  <2>1. Still
    BY <1>9 DEF Lock, Test, Park, Exit, SpuriousWakeup
  <2>2. QED
    BY <1>1, <1>9, <2>1, ControlPoolInv
<1>10. ASSUME NEW w \in Worker, Take(w) PROVE PoolInv'
  BY <1>1, <1>10, TakePoolInv
<1>11. ASSUME NEW c \in Client, ClientDone(c) PROVE PoolInv'
  BY <1>1, <1>11, ControlPoolInv DEF ClientDone
<1>12. QED
  BY <1>2, <1>3, <1>4, <1>5, <1>6, <1>7, <1>8, <1>9, <1>10, <1>11
     DEF Next, Submit, Proceed, WorkerLoop

(* The inductive invariant holds throughout, for any non-empty set of      *)
(* workers and any tasks, clients and bodies.                              *)
THEOREM PoolInvariant ==
  ASSUME Worker # {}
  PROVE  Spec => []PoolInv
<1>1. Init => PoolInv
  BY InitPoolInv
<1>2. PoolInv /\ [Next]_vars => PoolInv'
  BY NextPoolInv
<1>3. QED
  BY <1>1, <1>2, PTL DEF Spec

(* No task is run twice or lost between the queue and a worker. *)
THEOREM TasksInOnePlace ==
  ASSUME Worker # {}
  PROVE  Spec => []InOnePlace
<1>1. PoolInv => InOnePlace
  BY DEF PoolInv
<1>2. QED
  BY <1>1, PoolInvariant, PTL

(* After notify_all no worker sleeps or is about to. *)
THEOREM AllAwakeForShutdown ==
  ASSUME Worker # {}
  PROVE  Spec => []NoSleeperAfterNotifyAll
<1>1. PoolInv => NoSleeperAfterNotifyAll
  BY DEF PoolInv
<1>2. QED
  BY <1>1, PoolInvariant, PTL

(* The destructor returns only when every queued task has been run. *)
THEOREM DestructorDrains ==
  ASSUME Worker # {}
  PROVE  Spec => []NothingStranded
<1>1. PoolInv => NothingStranded
  <2> SUFFICES ASSUME PoolInv, owner = "destroyed" PROVE NothingStranded
    BY DEF NothingStranded
  <2>1. \A w \in Worker : pc[w] = "exited"
    BY DEF PoolInv, ShutdownOK
  <2>2. tasks_ = <<>>
    BY <2>1 DEF PoolInv, ShutdownOK
  <2>3. ASSUME NEW t \in Task PROVE phase[t] \notin {"queued", "running"}
    <3>1. Len(tasks_) = 0
      BY <2>2
    <3>2. phase[t] # "queued"
      BY <3>1 DEF PoolInv, InOnePlace
    <3>3. \A w \in Worker : current[w] = NoTask
      BY <2>1, ThreadPoolAssumption DEF PoolInv, PlacesOK
    <3>4. phase[t] # "running"
      BY <3>3, ThreadPoolAssumption DEF PoolInv, InOnePlace, Inline, ThreadPoolAssumption
    <3>5. QED
      BY <3>2, <3>4
  <2>4. QED
    BY <2>1, <2>2, <2>3 DEF PoolInv, TypeOK, NothingStranded, Settled
<1>2. QED
  BY <1>1, PoolInvariant, PTL

-----------------------------------------------------------------------------
(* Wake-ups                                                                *)

(* A worker about to sleep holds mutex_, so nothing is queued meanwhile. *)
WakeInv ==
  /\ IsFiniteSet(OnTheWay)
  /\ \A w \in Worker : pc[w] = "park" => tasks_ = <<>>
  /\ NoLostWakeup

LEMMA OneMoreOneLess ==
  ASSUME NEW S, IsFiniteSet(S), NEW x
  PROVE  /\ IsFiniteSet(S \cup {x}) /\ IsFiniteSet(S \ {x})
         /\ Cardinality(S) \in Nat
         /\ x \notin S => Cardinality(S \cup {x}) = Cardinality(S) + 1
         /\ x \in S => Cardinality(S \ {x}) = Cardinality(S) - 1
  BY FS_CardinalityType, FS_AddElement, FS_RemoveElement

(* A step after which as many are on the way as before, or one more, for   *)
(* the same queue, and that puts nobody to sleep before a task.            *)
LEMMA StillOnTheWay ==
  ASSUME TypeOK, WakeInv, UNCHANGED tasks_,
         \/ OnTheWay' = OnTheWay
         \/ \E x \in Thread \ OnTheWay : OnTheWay' = OnTheWay \cup {x},
         \A w \in Worker : pc'[w] = "park" => pc[w] = "park",
         Waiting' # {} => Waiting # {} \/ tasks_ = <<>>
  PROVE  WakeInv'
<1>1. IsFiniteSet(OnTheWay') /\ Cardinality(OnTheWay) \in Nat
      /\ Cardinality(OnTheWay') >= Cardinality(OnTheWay)
  <2>1. CASE OnTheWay' = OnTheWay
    BY <2>1, FS_CardinalityType DEF WakeInv
  <2>2. CASE \E x \in Thread \ OnTheWay : OnTheWay' = OnTheWay \cup {x}
    <3>1. PICK x \in Thread \ OnTheWay : OnTheWay' = OnTheWay \cup {x}
      BY <2>2
    <3>2. /\ IsFiniteSet(OnTheWay \cup {x}) /\ Cardinality(OnTheWay) \in Nat
          /\ Cardinality(OnTheWay \cup {x}) = Cardinality(OnTheWay) + 1
      BY <3>1, OneMoreOneLess DEF WakeInv
    <3>3. QED
      BY <3>1, <3>2
  <2>3. QED
    BY <2>1, <2>2
<1>2. Cardinality(OnTheWay') \in Nat
  BY <1>1, FS_CardinalityType
<1>3. Len(tasks_) \in Nat /\ (tasks_ = <<>> => Len(tasks_) = 0)
  BY DEF TypeOK
<1>4. NoLostWakeup'
  <2>1. Waiting' # {} => Len(tasks_) <= Cardinality(OnTheWay)
    BY <1>1, <1>3 DEF WakeInv, NoLostWakeup
  <2>2. QED
    BY <1>1, <1>2, <1>3, <2>1 DEF NoLostWakeup
<1>5. QED
  BY <1>1, <1>4 DEF WakeInv

(* A step after which one less is on the way, and nobody has anything left *)
(* to wait for: nothing is queued, or nobody sleeps.                       *)
LEMMA OneLessOnTheWay ==
  ASSUME TypeOK, WakeInv, UNCHANGED tasks_, NEW x \in OnTheWay,
         OnTheWay' = OnTheWay \ {x},
         \A w \in Worker : pc'[w] = "park" => pc[w] = "park" \/ tasks_ = <<>>,
         tasks_ = <<>> \/ Waiting' = {}
  PROVE  WakeInv'
<1>1. IsFiniteSet(OnTheWay')
  BY OneMoreOneLess DEF WakeInv
<1>2. Cardinality(OnTheWay') \in Nat
  BY <1>1, FS_CardinalityType
<1>3. tasks_ = <<>> => Len(tasks_) = 0
  OBVIOUS
<1>4. NoLostWakeup'
  BY <1>2, <1>3 DEF NoLostWakeup
<1>5. QED
  BY <1>1, <1>4 DEF WakeInv

LEMMA EnqueueWakeInv ==
  ASSUME PoolInv, WakeInv, NEW th \in Thread, NEW t \in Task, Enqueue(th, t)
  PROVE  WakeInv'
<1> USE ThreadPoolAssumption DEF ThreadPoolAssumption, PoolInv
<1>1. \A x \in Thread : pc'[x] = IF x = th THEN "notify" ELSE pc[x]
  BY DEF Enqueue, TypeOK
<1>2. pc[th] \in {"idle", "run"} /\ th \notin OnTheWay
  BY DEF Enqueue, MayCall, OnTheWay
<1>3. OnTheWay' = OnTheWay \cup {th}
  BY <1>1, <1>2 DEF OnTheWay
<1>4. /\ IsFiniteSet(OnTheWay') /\ Cardinality(OnTheWay) \in Nat
      /\ Cardinality(OnTheWay') = Cardinality(OnTheWay) + 1
  BY <1>2, <1>3, OneMoreOneLess DEF WakeInv
<1>5. \A w \in Worker : pc'[w] # "park"
  BY <1>1 DEF Enqueue, TypeOK, Thread
<1>6. Waiting' # {} => Waiting # {}
  BY <1>1 DEF Waiting, Thread
<1>7. Len(tasks_') = Len(tasks_) + 1 /\ Len(tasks_) \in Nat
  BY DEF Enqueue, TypeOK
<1>8. NoLostWakeup'
  BY <1>4, <1>6, <1>7 DEF WakeInv, NoLostWakeup
<1>9. QED
  BY <1>4, <1>5, <1>8 DEF WakeInv

LEMMA NotifyWakeInv ==
  ASSUME PoolInv, WakeInv, NEW th \in Thread, NotifyOne(th)
  PROVE  WakeInv'
<1> USE ThreadPoolAssumption DEF ThreadPoolAssumption, PoolInv
<1>1. th \in OnTheWay /\ UNCHANGED tasks_
  BY DEF NotifyOne, OnTheWay
<1>2. CASE Waiting = {}
  <2>1. \A x \in Thread :
          pc'[x] = IF x = th THEN IF th \in Worker THEN "run" ELSE "idle" ELSE pc[x]
    BY <1>2 DEF NotifyOne, TypeOK
  <2>2. OnTheWay' = OnTheWay \ {th} /\ Waiting' = {}
    BY <1>2, <2>1 DEF OnTheWay, Waiting, Thread
  <2>3. \A w \in Worker : pc'[w] = "park" => pc[w] = "park"
    BY <2>1 DEF Thread
  <2>4. QED
    BY <1>1, <2>2, <2>3, OneLessOnTheWay
<1>3. CASE Waiting # {}
  <2>1. PICK w \in Waiting :
          pc' = [[pc EXCEPT ![th] = IF th \in Worker THEN "run" ELSE "idle"]
                   EXCEPT ![w] = "loop"]
    BY <1>3 DEF NotifyOne
  <2>2. w \in Worker /\ w \in Thread /\ w # th /\ w \notin OnTheWay
    BY <1>1, <2>1 DEF Waiting, OnTheWay, Thread
  <2>3. \A x \in Thread :
          pc'[x] = IF x = w THEN "loop"
                   ELSE IF x = th THEN IF th \in Worker THEN "run" ELSE "idle"
                   ELSE pc[x]
    BY <2>1, <2>2 DEF TypeOK
  <2>4. OnTheWay' = (OnTheWay \ {th}) \cup {w}
    BY <2>2, <2>3 DEF OnTheWay
  <2>5. /\ IsFiniteSet(OnTheWay \ {th})
        /\ Cardinality(OnTheWay) \in Nat
        /\ Cardinality(OnTheWay \ {th}) = Cardinality(OnTheWay) - 1
    BY <1>1, OneMoreOneLess DEF WakeInv
  <2>6. /\ IsFiniteSet(OnTheWay')
        /\ Cardinality(OnTheWay') = Cardinality(OnTheWay \ {th}) + 1
    BY <2>2, <2>4, <2>5, OneMoreOneLess
  <2>7. \A v \in Worker : pc'[v] = "park" => pc[v] = "park"
    BY <2>3 DEF Thread
  <2>8. Cardinality(OnTheWay') = Cardinality(OnTheWay)
    BY <2>5, <2>6
  <2>9. QED
    BY <1>1, <1>3, <2>6, <2>7, <2>8 DEF WakeInv, NoLostWakeup
<1>4. QED
  BY <1>2, <1>3

LEMMA TakeWakeInv ==
  ASSUME PoolInv, WakeInv, NEW w \in Worker, Take(w)
  PROVE  WakeInv'
<1> USE ThreadPoolAssumption DEF ThreadPoolAssumption, PoolInv
<1>1. \A x \in Thread : pc'[x] = IF x = w THEN "run" ELSE pc[x]
  BY DEF Take, TypeOK
<1>2. w \in OnTheWay /\ OnTheWay' = OnTheWay \ {w}
  BY <1>1 DEF Take, OnTheWay, Thread
<1>3. /\ IsFiniteSet(OnTheWay') /\ Cardinality(OnTheWay) \in Nat
      /\ Cardinality(OnTheWay') = Cardinality(OnTheWay) - 1
  BY <1>2, OneMoreOneLess DEF WakeInv
<1>4. \A v \in Worker : pc'[v] # "park"
  BY <1>1 DEF Take, TypeOK, Thread
<1>5. Waiting' # {} => Waiting # {}
  BY <1>1 DEF Waiting, Thread
<1>6. Len(tasks_') = Len(tasks_) - 1 /\ Len(tasks_) \in Nat
  BY DEF Take, TypeOK
<1>7. NoLostWakeup'
  BY <1>3, <1>5, <1>6 DEF WakeInv, NoLostWakeup
<1>8. QED
  BY <1>3, <1>4, <1>7 DEF WakeInv

LEMMA NextWakeInv ==
  ASSUME Worker # {}, PoolInv, WakeInv, [Next]_vars
  PROVE  WakeInv'
<1> USE ThreadPoolAssumption DEF ThreadPoolAssumption, PoolInv
<1>1. CASE UNCHANGED vars \/ Destroyed \/ Constructed \/ SetStop \/ JoinAll \/ DestroyInline
  <2>1. pc' = pc /\ tasks_' = tasks_
    BY <1>1 DEF vars, Destroyed, Constructed, SetStop, JoinAll, DestroyInline
  <2>2. OnTheWay' = OnTheWay /\ Waiting' = Waiting
    BY <2>1 DEF OnTheWay, Waiting
  <2>3. QED
    BY <2>1, <2>2, StillOnTheWay
<1>2. ASSUME NEW w \in Worker, Spawn(w) \/ SpuriousWakeup(w) PROVE WakeInv'
  <2>1. \A x \in Thread : pc'[x] = IF x = w THEN "loop" ELSE pc[x]
    BY <1>2 DEF Spawn, SpuriousWakeup, TypeOK
  <2>2. pc[w] \in {"unborn", "waiting"} /\ UNCHANGED tasks_ /\ w \in Thread
    BY <1>2 DEF Spawn, SpuriousWakeup, Thread
  <2>3. w \notin OnTheWay /\ OnTheWay' = OnTheWay \cup {w}
    BY <2>1, <2>2 DEF OnTheWay
  <2>4. (Waiting' # {} => Waiting # {}) /\ \A v \in Worker : pc'[v] = "park" => pc[v] = "park"
    BY <2>1 DEF Waiting, Thread
  <2>5. QED
    BY <2>2, <2>3, <2>4, StillOnTheWay
<1>3. ASSUME NEW th \in Thread, NEW t \in Task, Enqueue(th, t) PROVE WakeInv'
  BY <1>3, EnqueueWakeInv
<1>4. ASSUME NEW th \in Thread, NEW t \in Task, RunInline(th, t) PROVE WakeInv'
  BY <1>4 DEF RunInline, Inline
<1>5. ASSUME NEW th \in Thread, NotifyOne(th) PROVE WakeInv'
  BY <1>5, NotifyWakeInv
<1>6. ASSUME NEW th \in Thread, Return(th) \/ Throw(th) PROVE WakeInv'
  <2>1. th \in Worker /\ pc[th] = "run"
    BY <1>6 DEF Return, Throw, PlacesOK, Thread
  <2>2. \E outcome \in {"value", "exception"} : Leave(th, outcome, "loop")
    BY <1>6, <2>1 DEF Return, Throw, AfterFrame, Inline
  <2>3. (\A x \in Thread : pc'[x] = IF x = th THEN "loop" ELSE pc[x]) /\ UNCHANGED tasks_
    BY <2>2 DEF Leave, TypeOK
  <2>4. th \notin OnTheWay /\ OnTheWay' = OnTheWay \cup {th}
    BY <2>1, <2>3 DEF OnTheWay
  <2>5. (Waiting' # {} => Waiting # {}) /\ \A v \in Worker : pc'[v] = "park" => pc[v] = "park"
    BY <2>3 DEF Waiting, Thread
  <2>6. QED
    BY <2>3, <2>4, <2>5, StillOnTheWay
<1>7. ASSUME NEW th \in Thread, Catch(th) \/ Propagate(th) PROVE WakeInv'
  BY <1>7 DEF Catch, Propagate, PlacesOK, Thread
<1>8. ASSUME NEW w \in Worker, Lock(w) PROVE WakeInv'
  <2>1. (\A x \in Thread : pc'[x] = IF x = w THEN "test" ELSE pc[x])
        /\ pc[w] = "loop" /\ UNCHANGED tasks_
    BY <1>8 DEF Lock, TypeOK
  <2>2. OnTheWay' = OnTheWay /\ Waiting' = Waiting
        /\ \A v \in Worker : pc'[v] = "park" => pc[v] = "park"
    BY <2>1 DEF OnTheWay, Waiting, Thread
  <2>3. QED
    BY <2>1, <2>2, StillOnTheWay
<1>9. ASSUME NEW w \in Worker, Test(w) PROVE WakeInv'
  <2>1. pc[w] = "test" /\ UNCHANGED tasks_ /\ w \in OnTheWay
    BY <1>9 DEF Test, OnTheWay, Thread
  <2>2. CASE stop_ \/ tasks_ # <<>>
    <3>1. \A x \in Thread : pc'[x] = IF x = w THEN "take" ELSE pc[x]
      BY <1>9, <2>2 DEF Test, TypeOK
    <3>2. OnTheWay' = OnTheWay /\ Waiting' = Waiting
          /\ \A v \in Worker : pc'[v] = "park" => pc[v] = "park"
      BY <2>1, <3>1 DEF OnTheWay, Waiting, Thread
    <3>3. QED
      BY <2>1, <3>2, StillOnTheWay
  <2>3. CASE ~stop_ /\ tasks_ = <<>>
    <3>1. \A x \in Thread : pc'[x] = IF x = w THEN "park" ELSE pc[x]
      BY <1>9, <2>3 DEF Test, TypeOK
    <3>2. OnTheWay' = OnTheWay \ {w}
      BY <2>1, <3>1 DEF OnTheWay
    <3>3. QED
      BY <2>1, <2>3, <3>2, OneLessOnTheWay
  <2>4. QED
    BY <2>2, <2>3
<1>10. ASSUME NEW w \in Worker, Park(w) PROVE WakeInv'
  <2>1. (\A x \in Thread : pc'[x] = IF x = w THEN "waiting" ELSE pc[x])
        /\ pc[w] = "park" /\ UNCHANGED tasks_
    BY <1>10 DEF Park, TypeOK
  <2>2. tasks_ = <<>>
    BY <2>1 DEF WakeInv
  <2>3. OnTheWay' = OnTheWay /\ \A v \in Worker : pc'[v] = "park" => pc[v] = "park"
    BY <2>1 DEF OnTheWay, Thread
  <2>4. QED
    BY <2>1, <2>2, <2>3, StillOnTheWay
<1>11. ASSUME NEW w \in Worker, Exit(w) PROVE WakeInv'
  <2>1. (\A x \in Thread : pc'[x] = IF x = w THEN "exited" ELSE pc[x])
        /\ pc[w] = "take" /\ UNCHANGED tasks_ /\ tasks_ = <<>>
    BY <1>11 DEF Exit, TypeOK
  <2>2. w \in OnTheWay /\ OnTheWay' = OnTheWay \ {w}
    BY <2>1 DEF OnTheWay, Thread
  <2>3. QED
    BY <2>1, <2>2, OneLessOnTheWay
<1>12. ASSUME NEW w \in Worker, Take(w) PROVE WakeInv'
  BY <1>12, TakeWakeInv
<1>13. ASSUME NEW c \in Client, ClientDone(c) PROVE WakeInv'
  <2>1. (\A x \in Thread : pc'[x] = IF x = c THEN "done" ELSE pc[x])
        /\ pc[c] = "idle" /\ UNCHANGED tasks_
    BY <1>13 DEF ClientDone, TypeOK
  <2>2. OnTheWay' = OnTheWay /\ Waiting' = Waiting
        /\ \A v \in Worker : pc'[v] = "park" => pc[v] = "park"
    BY <2>1 DEF OnTheWay, Waiting, Thread
  <2>3. QED
    BY <2>1, <2>2, StillOnTheWay
<1>14. CASE NotifyAll
  <2>1. (\A x \in Thread : pc'[x] = IF x \in Waiting THEN "loop" ELSE pc[x])
        /\ UNCHANGED tasks_
    BY <1>14 DEF NotifyAll
  <2>2. OnTheWay' = OnTheWay \cup Waiting
    BY <2>1 DEF OnTheWay, Waiting, Thread
  <2>3. IsFiniteSet(Waiting)
    <3>1. Waiting \subseteq Worker
      BY DEF Waiting
    <3>2. QED
      BY <3>1, FS_Subset
  <2>4. IsFiniteSet(OnTheWay')
    BY <2>2, <2>3, FS_Union DEF WakeInv
  <2>5. Waiting' = {}
    BY <2>1 DEF Waiting, Thread
  <2>6. \A v \in Worker : pc'[v] = "park" => pc[v] = "park"
    BY <2>1 DEF Thread
  <2>7. QED
    BY <2>1, <2>4, <2>5, <2>6 DEF WakeInv, NoLostWakeup
<1>15. QED
  BY <1>1, <1>2, <1>3, <1>4, <1>5, <1>6, <1>7, <1>8, <1>9, <1>10, <1>11, <1>12,
     <1>13, <1>14 DEF Next, Construct, Destroy, Submit, Proceed, WorkerLoop

(* While a worker sleeps, every queued task has a notification on its way  *)
(* or a worker awake, although submit() notifies after it has unlocked     *)
(* (l.71) and any worker may be woken for nothing.                         *)
THEOREM WakeupsNotLost ==
  ASSUME Worker # {}
  PROVE  Spec => []NoLostWakeup
<1>1. Init => WakeInv
  <2> SUFFICES ASSUME Init PROVE WakeInv
    OBVIOUS
  <2>1. OnTheWay = {}
    BY DEF Init, OnTheWay
  <2>2. Waiting = {}
    BY DEF Init, Waiting, Thread
  <2>3. IsFiniteSet(OnTheWay)
    BY <2>1, FS_EmptySet
  <2>4. \A w \in Worker : pc[w] # "park"
    BY DEF Init, Thread
  <2>5. QED
    BY <2>2, <2>3, <2>4 DEF WakeInv, NoLostWakeup
<1>2. PoolInv /\ WakeInv /\ [Next]_vars => WakeInv'
  BY NextWakeInv
<1>3. WakeInv => NoLostWakeup
  BY DEF WakeInv
<1>4. QED
  BY <1>1, <1>2, <1>3, PoolInvariant, PTL DEF Spec

-----------------------------------------------------------------------------
(* At rest                                                                 *)

(* Each task that was submitted was submitted by a client or by a task     *)
(* that was submitted before it.                                           *)
Rooted ==
  /\ \A t \in Task : phase[t] # "new" =>
       Submitter[t] \in Client \/ phase[Submitter[t]] # "new"
  /\ \A C \in SUBSET Task :
       C # {} /\ (\A t \in C : phase[t] # "new") => \E t \in C : Submitter[t] \notin C

LEMMA RunningOfWorker ==
  ASSUME Worker # {}, PoolInv, NEW th \in Thread, pc[th] = "run"
  PROVE  th \in Worker /\ current[th] \in Task /\ phase[current[th]] = "running"
<1>1. th \in Worker
  BY DEF PoolInv, PlacesOK, Thread
<1>2. current[th] \in Task
  BY <1>1 DEF PoolInv, PlacesOK, TypeOK, Thread
<1>3. QED
  BY <1>1, <1>2 DEF PoolInv, InOnePlace, Inline

LEMMA EnqueueRooted ==
  ASSUME Worker # {}, PoolInv, Rooted,
         NEW th \in Thread, NEW t \in Task, Enqueue(th, t)
  PROVE  Rooted'
<1> USE ThreadPoolAssumption DEF ThreadPoolAssumption
<1>1. phase[t] = "new" /\ phase' = [phase EXCEPT ![t] = "queued"]
  BY DEF Enqueue, MayCall
<1>2. phase \in [Task -> {"new", "queued", "running", "value", "exception", "escaped"}]
  BY DEF PoolInv, TypeOK
<1>3. phase'[t] = "queued" /\ \A s \in Task \ {t} : phase'[s] = phase[s]
  BY <1>1, <1>2
<1>4. \/ Submitter[t] \in Client
      \/ Submitter[t] \in Task /\ Submitter[t] # t /\ phase[Submitter[t]] # "new"
  <2>1. CASE pc[th] = "idle" /\ Submitter[t] = th
    BY <2>1 DEF PoolInv, PlacesOK, Thread
  <2>2. CASE pc[th] = "run" /\ Submitter[t] = current[th]
    <3>1. current[th] \in Task /\ phase[current[th]] = "running"
      BY <2>2, RunningOfWorker
    <3>2. QED
      BY <1>1, <2>2, <3>1
  <2>3. QED
    BY <2>1, <2>2 DEF Enqueue, MayCall
<1>5. ASSUME NEW s \in Task, phase'[s] # "new"
      PROVE  Submitter[s] \in Client \/ phase'[Submitter[s]] # "new"
  <2>1. Submitter[s] \in Client \cup Task
    OBVIOUS
  <2>2. Submitter[s] \in Client \/ phase[Submitter[s]] # "new"
    BY <1>3, <1>4, <1>5 DEF Rooted
  <2>3. QED
    BY <1>3, <2>1, <2>2
<1>6. ASSUME NEW C \in SUBSET Task, C # {}, \A s \in C : phase'[s] # "new"
      PROVE  \E s \in C : Submitter[s] \notin C
  <2>1. CASE t \notin C
    <3>1. \A s \in C : phase[s] # "new"
      BY <1>3, <1>6, <2>1
    <3>2. QED
      BY <1>6, <3>1 DEF Rooted
  <2>2. CASE t \in C /\ C = {t}
    BY <1>4, <2>2
  <2>3. CASE t \in C /\ C # {t}
    <3> DEFINE D == C \ {t}
    <3>1. D \in SUBSET Task /\ D # {} /\ \A s \in D : phase[s] # "new"
      BY <1>3, <1>6, <2>3
    <3>2. PICK s \in D : Submitter[s] \notin D
      BY <3>1 DEF Rooted
    <3>3. Submitter[s] # t
      <4>1. phase[s] # "new" /\ s \in Task
        BY <3>1
      <4>2. QED
        BY <1>1, <4>1 DEF Rooted
    <3>4. QED
      BY <3>2, <3>3
  <2>4. QED
    BY <2>1, <2>2, <2>3
<1>7. QED
  BY <1>5, <1>6 DEF Rooted

(* No other step submits anything. *)
LEMMA NextRooted ==
  ASSUME Worker # {}, PoolInv, Rooted, [Next]_vars
  PROVE  Rooted'
<1> USE ThreadPoolAssumption DEF ThreadPoolAssumption
<1>1. phase \in [Task -> {"new", "queued", "running", "value", "exception", "escaped"}]
  BY DEF PoolInv, TypeOK
<1> DEFINE Same == \A t \in Task : phase'[t] = "new" <=> phase[t] = "new"
<1>2. ASSUME Same PROVE Rooted'
  <2>1. \A t \in Task : Submitter[t] \in Client \/ Submitter[t] \in Task
    OBVIOUS
  <2>2. \A t \in Task : phase'[t] # "new" =>
          Submitter[t] \in Client \/ phase'[Submitter[t]] # "new"
    BY <1>2, <2>1 DEF Rooted
  <2>3. \A C \in SUBSET Task :
          C # {} /\ (\A t \in C : phase'[t] # "new") => \E t \in C : Submitter[t] \notin C
    BY <1>2 DEF Rooted
  <2>4. QED
    BY <2>2, <2>3 DEF Rooted
<1>3. ASSUME NEW th \in Thread, NEW t \in Task, Enqueue(th, t) PROVE Rooted'
  BY <1>3, EnqueueRooted
<1>4. ASSUME NEW th \in Thread, NEW outcome \in {"value", "exception", "escaped"}, NEW next,
             pc[th] = "run", Leave(th, outcome, next)
      PROVE  Rooted'
  <2>1. current[th] \in Task /\ phase[current[th]] = "running"
    BY <1>4, RunningOfWorker
  <2>2. phase' = [phase EXCEPT ![current[th]] = outcome]
    BY <1>4 DEF Leave
  <2>3. QED
    BY <1>1, <1>2, <2>1, <2>2
<1>5. ASSUME NEW w \in Worker, Take(w) PROVE Rooted'
  <2>1. Head(tasks_) \in Task /\ phase[Head(tasks_)] = "queued"
    <3>1. tasks_ \in Seq(Task) /\ tasks_ # <<>>
      BY <1>5 DEF Take, PoolInv, TypeOK
    <3>2. 1 \in 1..Len(tasks_) /\ Head(tasks_) = tasks_[1] /\ tasks_[1] \in Task
      BY <3>1
    <3>3. QED
      BY <3>2 DEF PoolInv, InOnePlace
  <2>2. phase' = [phase EXCEPT ![Head(tasks_)] = "running"]
    BY <1>5 DEF Take
  <2>3. QED
    BY <1>1, <1>2, <2>1, <2>2
<1>6. ASSUME phase' = phase PROVE Rooted'
  BY <1>2, <1>6
<1>7. ASSUME NEW th \in Thread, Return(th) \/ Throw(th) PROVE Rooted'
  <2>1. pc[th] = "run"
    BY <1>7 DEF Return, Throw
  <2>2. \E outcome \in {"value", "exception", "escaped"} : \E next : Leave(th, outcome, next)
    BY <1>7 DEF Return, Throw
  <2>3. QED
    BY <1>4, <2>1, <2>2
<1>8. ASSUME NEW th \in Thread, Catch(th) \/ Propagate(th) PROVE Rooted'
  BY <1>8 DEF Catch, Propagate, PoolInv, PlacesOK, Thread
<1>9. ASSUME NEW th \in Thread, NEW t \in Task, RunInline(th, t) PROVE Rooted'
  BY <1>9 DEF RunInline, Inline
<1>10. CASE Construct \/ Destroy
  BY <1>6, <1>10 DEF Construct, Spawn, Constructed, Destroy, SetStop, NotifyAll,
     JoinAll, DestroyInline
<1>11. ASSUME NEW th \in Thread, NotifyOne(th) PROVE Rooted'
  BY <1>6, <1>11 DEF NotifyOne
<1>12. ASSUME NEW w \in Worker, Lock(w) \/ Test(w) \/ Park(w) \/ Exit(w)
                                \/ SpuriousWakeup(w)
       PROVE  Rooted'
  BY <1>6, <1>12 DEF Lock, Test, Park, Exit, SpuriousWakeup
<1>13. ASSUME NEW c \in Client, ClientDone(c) PROVE Rooted'
  BY <1>6, <1>13 DEF ClientDone
<1>14. CASE UNCHANGED vars \/ Destroyed
  BY <1>6, <1>14 DEF Destroyed, vars
<1>15. QED
  BY <1>3, <1>5, <1>7, <1>8, <1>9, <1>10, <1>11, <1>12, <1>13, <1>14
     DEF Next, Submit, Proceed, WorkerLoop

(* Finitely many tasks, each the submitter of another of them, have all    *)
(* been submitted by one of them.                                          *)
LEMMA NoCircle ==
  ASSUME Rooted, NEW R \in SUBSET Task, IsFiniteSet(R), R # {},
         \A t \in R : phase[t] # "new",
         \A r \in R : \E s \in R : Submitter[s] = r
  PROVE  FALSE
<1> DEFINE S == {s \in R : Submitter[s] \in R}
           f == [s \in S |-> Submitter[s]]
<1>1. S \in SUBSET R
  OBVIOUS
<1>2. f \in Surjection(S, R)
  BY DEF Surjection
<1>3. IsFiniteSet(S) /\ Cardinality(S) <= Cardinality(R)
      /\ (Cardinality(R) = Cardinality(S) => R = S)
  <2> HIDE DEF S
  <2>1. QED
    BY <1>1, FS_Subset
<1>4. Cardinality(R) <= Cardinality(S)
  <2> HIDE DEF S, f
  <2>1. QED
    BY <1>2, <1>3, FS_Surjection
<1>5. Cardinality(S) \in Nat /\ Cardinality(R) \in Nat
  <2> HIDE DEF S
  <2>1. QED
    BY <1>3, FS_CardinalityType
<1>6. R = S
  <2> HIDE DEF S
  <2>1. QED
    BY <1>3, <1>4, <1>5
<1>7. \A t \in R : Submitter[t] \in R
  BY <1>6
<1>8. QED
  BY <1>7 DEF Rooted

LEMMA RestIsHang ==
  ASSUME Worker # {}, PoolInv, Rooted, NoLostWakeup
  PROVE  HangsOnlyWhenAllAwait
<1> USE ThreadPoolAssumption DEF ThreadPoolAssumption
<1> SUFFICES ASSUME AtRest, NEW t \in Task, phase[t] \in {"queued", "running"}
             PROVE  /\ tasks_ # <<>>
                    /\ \A w \in Worker : pc[w] = "exited" \/ Blocked(w)
  BY DEF HangsOnlyWhenAllAwait, Hung, Inline
<1> DEFINE Busy == {w \in Worker : current[w] # NoTask}
           R == {current[w] : w \in Busy}
           g == [w \in Busy |-> current[w]]
<1>1. \A w \in Busy : current[w] \in Task /\ Blocked(w) /\ phase[current[w]] = "running"
  <2> SUFFICES ASSUME NEW w \in Worker, current[w] # NoTask
               PROVE  current[w] \in Task /\ Blocked(w) /\ phase[current[w]] = "running"
    OBVIOUS
  <2>1. pc[w] \in {"run", "notify"} /\ w \in Thread
    BY DEF PoolInv, PlacesOK, Thread
  <2>2. Blocked(w)
    BY <2>1 DEF AtRest
  <2>3. QED
    BY <2>1, <2>2, RunningOfWorker DEF Blocked
<1>2. tasks_ # <<>>
  <2> SUFFICES ASSUME tasks_ = <<>> PROVE FALSE
    OBVIOUS
  <2>1. \A s \in Task : phase[s] # "queued"
    <3>1. Len(tasks_) = 0
      OBVIOUS
    <3>2. QED
      BY <3>1 DEF PoolInv, InOnePlace
  <2>2. \A s \in Task : phase[s] = "running" => s \in R
    BY ThreadPoolAssumption DEF PoolInv, InOnePlace, Inline
  <2>3. IsFiniteSet(R)
    <3>1. g \in Surjection(Busy, R)
      BY DEF Surjection
    <3>2. IsFiniteSet(Busy)
      <4>1. Busy \in SUBSET Worker
        OBVIOUS
      <4> HIDE DEF Busy
      <4>2. QED
        BY <4>1, FS_Subset
    <3> HIDE DEF Busy, R, g
    <3>3. QED
      BY <3>1, <3>2, FS_Surjection
  <2>4. R # {} /\ R \in SUBSET Task /\ \A s \in R : phase[s] # "new"
    BY <1>1, <2>1, <2>2
  <2>5. ASSUME NEW r \in R PROVE \E s \in R : Submitter[s] = r
    <3>1. PICK w \in Busy : r = current[w]
      OBVIOUS
    <3>2. PICK s \in Task : Submitter[s] = r /\ ~Settled(s) /\ phase[s] # "new"
      BY <1>1, <3>1 DEF Blocked, FuturesReady
    <3>3. phase[s] = "running"
      BY <2>1, <3>2 DEF Settled, PoolInv, TypeOK
    <3>4. QED
      BY <2>2, <3>2, <3>3
  <2> HIDE DEF R
  <2>6. QED
    BY <2>3, <2>4, <2>5, NoCircle
<1>3. ASSUME NEW w \in Worker, pc[w] = "waiting" PROVE FALSE
  <2>1. OnTheWay = {}
    BY DEF OnTheWay, AtRest, Blocked, PoolInv, PlacesOK, Thread
  <2>2. Cardinality(OnTheWay) = 0
    BY <2>1, FS_EmptySet
  <2>3. Len(tasks_) \in Nat /\ Len(tasks_) # 0
    BY <1>2 DEF PoolInv, TypeOK
  <2>4. QED
    BY <1>3, <2>2, <2>3 DEF NoLostWakeup, Waiting
<1>4. QED
  BY <1>2, <1>3 DEF AtRest

(* A pool with workers comes to rest with work undone only when every      *)
(* worker still there is held by a task that waits for a task of its own,  *)
(* while the queue is not empty.                                           *)
THEOREM RestsOnlyWhenAllAwait ==
  ASSUME Worker # {}
  PROVE  Spec => []HangsOnlyWhenAllAwait
<1>1. Init => Rooted
  BY DEF Init, Rooted
<1>2. PoolInv /\ Rooted /\ [Next]_vars => Rooted'
  BY NextRooted
<1>3. PoolInv /\ Rooted /\ NoLostWakeup => HangsOnlyWhenAllAwait
  BY RestIsHang
<1>4. QED
  BY <1>1, <1>2, <1>3, PoolInvariant, WakeupsNotLost, PTL DEF Spec

-----------------------------------------------------------------------------
(* The promise, step by step                                               *)

LEMMA ClosesDrained ==
  ASSUME Worker # {}, PoolInv, \A w \in Worker : pc[w] = "exited"
  PROVE  \A t \in Task : phase[t] \notin {"queued", "running"}
<1> USE ThreadPoolAssumption DEF ThreadPoolAssumption, PoolInv
<1>1. tasks_ = <<>> /\ Len(tasks_) = 0
  BY DEF ShutdownOK
<1>2. \A w \in Worker : current[w] = NoTask
  BY DEF PlacesOK
<1>3. QED
  BY <1>1, <1>2 DEF InOnePlace, Inline

(* Until it is closed, a step is a Submit, a Start, a Settle, a Close, or  *)
(* none of the promise's business.                                         *)
LEMMA StepIsPromised ==
  ASSUME Worker # {}, PoolInv, [Next]_vars
  PROVE  [Promise!Next]_(Promise!vars)
<1> USE ThreadPoolAssumption DEF ThreadPoolAssumption, PoolInv
<1>1. ASSUME NEW th \in Thread, NEW t \in Task, Enqueue(th, t)
      PROVE  Promise!Submit(t)
  <2>1. owner # "destroyed" /\ owner' = owner
    BY <1>1 DEF Enqueue, MayCall, PlacesOK, ShutdownOK, Thread
  <2>2. (owner # "destroyed") = TRUE /\ (owner # "destroyed")' = (owner # "destroyed")
    BY <2>1
  <2>3. QED
    BY <1>1, <2>2 DEF Enqueue, MayCall, Promise!Submit
<1>2. ASSUME NEW w \in Worker, Take(w)
      PROVE  Promise!Start
  <2>1. (owner # "destroyed")' = (owner # "destroyed")
    BY <1>2 DEF Take
  <2>2. QED
    BY <1>2, <2>1 DEF Take, Promise!Start
<1>3. ASSUME NEW th \in Thread, Return(th) \/ Throw(th)
      PROVE  \E t \in Task : Promise!Settle(t)
  <2>1. th \in Worker /\ pc[th] = "run"
    BY <1>3 DEF Return, Throw, PlacesOK, Thread
  <2>2. PICK outcome \in {"value", "exception"} : Leave(th, outcome, "loop")
    BY <1>3, <2>1 DEF Return, Throw, AfterFrame, Inline
  <2>3. current[th] \in Task
    BY <2>1 DEF PlacesOK, TypeOK, Thread
  <2>4. phase[current[th]] = "running"
    BY <2>1, <2>3 DEF InOnePlace, Inline
  <2>5. (owner # "destroyed")' = (owner # "destroyed")
    BY <2>2 DEF Leave
  <2>6. Promise!Settle(current[th])
    BY <2>2, <2>4, <2>5 DEF Leave, Promise!Settle
  <2>7. QED
    BY <2>3, <2>6
<1>4. CASE JoinAll
  <2>1. (owner # "destroyed") = TRUE /\ (owner # "destroyed")' = FALSE
    BY <1>4 DEF JoinAll
  <2>2. \A t \in Task : phase[t] \notin {"queued", "running"}
    BY <1>4, ClosesDrained DEF JoinAll
  <2>3. Promise!Close
    BY <1>4, <2>1, <2>2 DEF JoinAll, Promise!Close
  <2>4. QED
    BY <2>3 DEF Promise!Next
<1>5. ASSUME UNCHANGED <<tasks_, phase>>, owner' # "destroyed" <=> owner # "destroyed"
      PROVE  UNCHANGED Promise!vars
  BY <1>5 DEF Promise!vars
<1>6. CASE UNCHANGED vars \/ Construct \/ SetStop \/ NotifyAll \/ DestroyInline \/ Destroyed
  <2>1. UNCHANGED <<tasks_, phase>> /\ (owner' # "destroyed" <=> owner # "destroyed")
    BY <1>6 DEF vars, Construct, Spawn, Constructed, SetStop, NotifyAll, DestroyInline,
                Inline, Destroyed
  <2>2. QED
    BY <1>5, <2>1
<1>7. CASE \/ \E th \in Thread : NotifyOne(th)
           \/ \E w \in Worker : Lock(w) \/ Test(w) \/ Park(w) \/ Exit(w) \/ SpuriousWakeup(w)
           \/ \E c \in Client : ClientDone(c)
  <2>1. UNCHANGED <<tasks_, phase, owner>>
    BY <1>7 DEF NotifyOne, Lock, Test, Park, Exit, SpuriousWakeup, ClientDone
  <2>2. QED
    BY <1>5, <2>1
<1>8. ASSUME NEW th \in Thread, Catch(th) \/ Propagate(th) PROVE FALSE
  BY <1>8 DEF Catch, Propagate, PlacesOK, Thread
<1>9. ASSUME NEW th \in Thread, NEW t \in Task, RunInline(th, t) PROVE FALSE
  BY <1>9 DEF RunInline, Inline
<1>10. CASE \E th \in Thread, t \in Task : Enqueue(th, t)
  BY <1>1, <1>10 DEF Promise!Next
<1>11. CASE \E w \in Worker : Take(w)
  BY <1>2, <1>11 DEF Promise!Next
<1>12. CASE \E th \in Thread : Return(th) \/ Throw(th)
  BY <1>3, <1>12 DEF Promise!Next
<1>13. QED
  BY <1>4, <1>6, <1>7, <1>8, <1>9, <1>10, <1>11, <1>12
     DEF Next, Destroy, Submit, Proceed, WorkerLoop

(* The pool implements TaskPool, its fairness aside: a task is started     *)
(* once, in the order of the submissions, and settles, and the pool closes *)
(* on none (thread_pool.hpp l.17-28).                                      *)
THEOREM StepsKeepPromise ==
  ASSUME Worker # {}
  PROVE  Spec => Promise!Safety
<1>1. Init => Promise!Init
  BY DEF Init, Promise!Init
<1>2. PoolInv /\ [Next]_vars => [Promise!Next]_(Promise!vars)
  BY StepIsPromised
<1>3. QED
  BY <1>1, <1>2, PoolInvariant, PTL DEF Spec, Promise!Safety

-----------------------------------------------------------------------------
(* Safety of a pool without worker threads                                 *)

Running(t) == phase[t] = "running"

(* The frames of a client's stack are the running tasks that root gives    *)
(* it; current is the innermost, and each frame but it has one on top.     *)
StacksOK(root) ==
  /\ \A c \in Client :
       /\ pc[c] \in {"idle", "done", "run", "raised"}
       /\ pc[c] \in {"run", "raised"} =>
            current[c] \in Task /\ Running(current[c]) /\ root[current[c]] = c
       /\ pc[c] \in {"idle", "done"} => current[c] = NoTask
  /\ \A t \in Task : Running(t) =>
       /\ Submitter[t] \in Client => root[t] = Submitter[t]
       /\ Submitter[t] \in Task => Running(Submitter[t]) /\ root[t] = root[Submitter[t]]
       /\ \A s \in Task : Running(s) /\ Submitter[s] = Submitter[t] => s = t
       /\ \A c \in Client : current[c] # Submitter[t]

StackInv ==
  /\ TypeOK
  /\ InlineIsSynchronous
  /\ \E root \in [Task -> Client \cup {NoTask}] : StacksOK(root)

(* A submit() puts a frame on top of its caller's. *)
LEMMA RunInlineStacks ==
  ASSUME Worker = {}, StackInv, TypeOK', NEW c \in Client, NEW t \in Task, RunInline(c, t)
  PROVE  StackInv'
<1> USE ThreadPoolAssumption DEF ThreadPoolAssumption, StackInv
<1>1. PICK root \in [Task -> Client \cup {NoTask}] : StacksOK(root)
  OBVIOUS
<1> DEFINE under == [root EXCEPT ![t] = c]
<1>2. /\ under \in [Task -> Client \cup {NoTask}]
      /\ \A s \in Task : under[s] = IF s = t THEN c ELSE root[s]
  OBVIOUS
<1> HIDE DEF under
<1>3. /\ \A x \in Client : pc'[x] = IF x = c THEN "run" ELSE pc[x]
      /\ \A x \in Client : current'[x] = IF x = c THEN t ELSE current[x]
      /\ \A s \in Task : phase'[s] = IF s = t THEN "running" ELSE phase[s]
      /\ ~Running(t)
  BY DEF RunInline, MayCall, TypeOK, Thread, Running
<1>4. \A s \in Task : Running(s)' <=> Running(s) \/ s = t
  BY <1>3 DEF Running
<1>5. \/ Submitter[t] = c /\ pc[c] = "idle"
      \/ Submitter[t] \in Task /\ Submitter[t] = current[c] /\ pc[c] = "run"
         /\ Running(Submitter[t]) /\ root[Submitter[t]] = c /\ Submitter[t] # t
  BY <1>1, <1>3 DEF RunInline, MayCall, StacksOK
<1>6. \A s \in Task : Running(s) => Submitter[s] # Submitter[t] /\ Submitter[s] # t
  BY <1>1, <1>3, <1>5 DEF StacksOK, InlineIsSynchronous, Inline, Running
<1>7. \A x \in Client : current'[x] # Submitter[t]
  <2> TAKE x \in Client
  <2>1. CASE x = c
    BY <1>3, <1>5, <2>1
  <2>2. CASE x # c
    BY <1>1, <1>3, <1>5, <2>2 DEF StacksOK, TypeOK, Thread
  <2>3. QED
    BY <2>1, <2>2
<1>8. StacksOK(under)'
  <2>1. \A x \in Client :
          /\ pc'[x] \in {"idle", "done", "run", "raised"}
          /\ pc'[x] \in {"run", "raised"} =>
               current'[x] \in Task /\ Running(current[x])' /\ under[current'[x]] = x
          /\ pc'[x] \in {"idle", "done"} => current'[x] = NoTask
    <3> TAKE x \in Client
    <3>1. CASE x = c
      BY <1>2, <1>3, <3>1 DEF Running
    <3>2. CASE x # c
      <4>1. pc'[x] = pc[x] /\ current'[x] = current[x]
        BY <1>3, <3>2
      <4>2. CASE pc[x] \in {"run", "raised"}
        <5>1. current[x] \in Task /\ Running(current[x]) /\ root[current[x]] = x
          BY <1>1, <4>2 DEF StacksOK
        <5>2. current[x] # t
          BY <1>3, <5>1
        <5>3. phase'[current'[x]] = "running"
          BY <1>3, <4>1, <5>1, <5>2 DEF Running
        <5>4. QED
          BY <1>2, <4>1, <4>2, <5>1, <5>2, <5>3 DEF Running
      <4>3. CASE pc[x] \in {"idle", "done"}
        BY <1>1, <4>1, <4>3 DEF StacksOK
      <4>4. QED
        BY <1>1, <4>2, <4>3 DEF StacksOK
    <3>3. QED
      BY <3>1, <3>2
  <2>2. ASSUME NEW s \in Task, Running(s)'
        PROVE  /\ Submitter[s] \in Client => under[s] = Submitter[s]
               /\ Submitter[s] \in Task =>
                    Running(Submitter[s])' /\ under[s] = under[Submitter[s]]
               /\ \A r \in Task : Running(r)' /\ Submitter[r] = Submitter[s] => r = s
               /\ \A x \in Client : current'[x] # Submitter[s]
    <3>1. CASE s = t
      <4>1. Submitter[t] \in Client => Submitter[t] = c
        BY <1>5
      <4>2. Submitter[t] \in Task =>
              Running(Submitter[t])' /\ under[t] = under[Submitter[t]]
        BY <1>2, <1>4, <1>5
      <4>3. QED
        BY <1>2, <1>4, <1>6, <1>7, <3>1, <4>1, <4>2
    <3>2. CASE s # t
      <4>1. Running(s)
        BY <1>4, <2>2, <3>2
      <4>2. Submitter[s] # t /\ Submitter[s] # Submitter[t]
        BY <1>6, <4>1
      <4>3. \A x \in Client : current'[x] # Submitter[s]
        BY <1>1, <1>3, <4>1, <4>2 DEF StacksOK
      <4>4. QED
        BY <1>1, <1>2, <1>4, <3>2, <4>1, <4>2, <4>3 DEF StacksOK
    <3>3. QED
      BY <3>1, <3>2
  <2>3. QED
    BY <2>1, <2>2 DEF StacksOK
<1>9. InlineIsSynchronous'
  BY <1>1, <1>3, <1>5 DEF InlineIsSynchronous, StacksOK
<1>10. QED
  BY <1>2, <1>8, <1>9

(* A task that ends, or lets an exception out, was the innermost frame;    *)
(* under it is the task that submitted it, or the client.                  *)
LEMMA LeaveStacks ==
  ASSUME Worker = {}, StackInv, TypeOK', NEW c \in Client,
         NEW outcome \in {"value", "escaped"}, NEW next \in {"idle", "run", "raised"},
         pc[c] \in {"run", "raised"}, Leave(c, outcome, next),
         next = "idle" <=> Below(current[c]) = NoTask
  PROVE  StackInv'
<1> USE ThreadPoolAssumption DEF ThreadPoolAssumption, StackInv
<1>1. PICK root \in [Task -> Client \cup {NoTask}] : StacksOK(root)
  OBVIOUS
<1> DEFINE t == current[c]
<1>2. t \in Task /\ Running(t) /\ root[t] = c
  BY <1>1 DEF StacksOK
<1>3. /\ \A x \in Client : pc'[x] = IF x = c THEN next ELSE pc[x]
      /\ \A x \in Client : current'[x] = IF x = c THEN Below(t) ELSE current[x]
      /\ \A s \in Task : phase'[s] = IF s = t THEN outcome ELSE phase[s]
  BY <1>2 DEF Leave, TypeOK, Thread
<1> HIDE DEF t
<1>4. \A s \in Task : Running(s)' <=> Running(s) /\ s # t
  BY <1>3 DEF Running
<1>5. \/ Submitter[t] = c /\ Below(t) = NoTask
      \/ Submitter[t] \in Task /\ Below(t) = Submitter[t] /\ Running(Submitter[t])
         /\ root[Submitter[t]] = c /\ Submitter[t] # t
  <2>1. Submitter[t] \in Client \cup Task /\ Submitter[t] # t
    BY <1>1, <1>2 DEF StacksOK, t
  <2>2. QED
    BY <1>1, <1>2, <2>1 DEF StacksOK, Below, Inline
<1>6. \A s \in Task : Running(s)' => Submitter[s] # Submitter[t] /\ Submitter[s] # t
  BY <1>1, <1>2, <1>4 DEF StacksOK, t
<1>7. \A x \in Client : x # c => current[x] # t
  BY <1>1, <1>2 DEF StacksOK
<1>8. StacksOK(root)'
  <2>1. \A x \in Client :
          /\ pc'[x] \in {"idle", "done", "run", "raised"}
          /\ pc'[x] \in {"run", "raised"} =>
               current'[x] \in Task /\ phase'[current'[x]] = "running" /\ root[current'[x]] = x
          /\ pc'[x] \in {"idle", "done"} => current'[x] = NoTask
    <3> TAKE x \in Client
    <3>1. CASE x = c
      <4>1. pc'[x] = next /\ current'[x] = Below(t)
        BY <1>3, <3>1
      <4>2. next = "idle" <=> Below(t) = NoTask
        BY DEF t
      <4>3. CASE next = "idle"
        BY <4>1, <4>2, <4>3
      <4>4. CASE next # "idle"
        <5>1. Submitter[t] \in Task /\ Below(t) = Submitter[t] /\ Running(Submitter[t])
              /\ root[Submitter[t]] = c /\ Submitter[t] # t
          BY <1>5, <4>2, <4>4
        <5>2. phase'[Submitter[t]] = "running"
          BY <1>3, <5>1 DEF Running
        <5>3. QED
          BY <3>1, <4>1, <4>4, <5>1, <5>2
      <4>5. QED
        BY <4>3, <4>4
    <3>2. CASE x # c
      <4>1. pc'[x] = pc[x] /\ current'[x] = current[x] /\ current[x] # t
        BY <1>3, <1>7, <3>2
      <4>2. QED
        BY <1>1, <1>3, <4>1 DEF StacksOK, Running
    <3>3. QED
      BY <3>1, <3>2
  <2>2. ASSUME NEW s \in Task, Running(s)'
        PROVE  /\ Submitter[s] \in Client => root[s] = Submitter[s]
               /\ Submitter[s] \in Task =>
                    Running(Submitter[s])' /\ root[s] = root[Submitter[s]]
               /\ \A r \in Task : Running(r)' /\ Submitter[r] = Submitter[s] => r = s
               /\ \A x \in Client : current'[x] # Submitter[s]
    <3>1. Running(s) /\ s # t /\ Submitter[s] # t /\ Submitter[s] # Submitter[t]
      BY <1>4, <1>6, <2>2
    <3>2. Submitter[s] # NoTask
      OBVIOUS
    <3>3. \A x \in Client : current'[x] # Submitter[s]
      BY <1>1, <1>3, <1>5, <3>1, <3>2 DEF StacksOK
    <3>4. QED
      BY <1>1, <1>4, <3>1, <3>3 DEF StacksOK
  <2>3. QED
    BY <2>1, <2>2 DEF StacksOK, Running
<1>9. InlineIsSynchronous'
  <2>1. ASSUME NEW x \in Client, pc'[x] \in {"idle", "done"}
        PROVE  /\ current'[x] = NoTask
               /\ \A s \in Task : Submitter[s] = x => phase'[s] # "running"
    <3>1. current'[x] = NoTask
      BY <1>8, <2>1 DEF StacksOK
    <3>2. CASE x = c
      <4>1. Submitter[t] = c
        BY <1>3, <1>5, <3>1, <3>2
      <4>2. QED
        BY <1>6, <3>1, <3>2, <4>1 DEF Running
    <3>3. CASE x # c
      BY <1>3, <2>1, <3>1, <3>3 DEF InlineIsSynchronous, Inline
    <3>4. QED
      BY <3>2, <3>3
  <2>2. QED
    BY <2>1 DEF InlineIsSynchronous
<1>10. QED
  BY <1>8, <1>9

LEMMA NextStacks ==
  ASSUME Worker = {}, StackInv, [Next]_vars
  PROVE  StackInv'
<1> USE ThreadPoolAssumption DEF ThreadPoolAssumption
<1>1. TypeOK'
  BY NextTypeOK DEF StackInv
<1>2. PICK root \in [Task -> Client \cup {NoTask}] : StacksOK(root)
  BY DEF StackInv
<1>3. ASSUME \A c \in Client : pc'[c] = pc[c] \/ (pc[c] = "idle" /\ pc'[c] = "done")
                                \/ (pc[c] = "raised" /\ pc'[c] = "run"),
             UNCHANGED <<current, phase>>
      PROVE  StackInv'
  <2>1. StacksOK(root)'
    BY <1>2, <1>3 DEF StacksOK, Running
  <2>2. InlineIsSynchronous'
    BY <1>2, <1>3 DEF StackInv, StacksOK, InlineIsSynchronous
  <2>3. QED
    BY <1>1, <2>1, <2>2 DEF StackInv
<1>4. CASE UNCHANGED vars \/ Construct \/ Destroy \/ Destroyed
  <2>1. \A c \in Client : pc'[c] = pc[c]
    BY <1>4 DEF vars, Construct, Spawn, Constructed, Destroy, SetStop, NotifyAll, JoinAll,
                DestroyInline, Destroyed, Waiting, Thread
  <2>2. UNCHANGED <<current, phase>>
    BY <1>4 DEF vars, Construct, Spawn, Constructed, Destroy, SetStop, NotifyAll, JoinAll,
                DestroyInline, Destroyed
  <2>3. QED
    BY <1>3, <2>1, <2>2
<1>5. ASSUME NEW c \in Client, ClientDone(c) \/ Catch(c) PROVE StackInv'
  <2>1. \A x \in Client : pc'[x] = pc[x] \/ (pc[x] = "idle" /\ pc'[x] = "done")
                          \/ (pc[x] = "raised" /\ pc'[x] = "run")
    BY <1>5 DEF ClientDone, Catch, StackInv, TypeOK, Thread
  <2>2. UNCHANGED <<current, phase>>
    BY <1>5 DEF ClientDone, Catch
  <2>3. QED
    BY <1>3, <2>1, <2>2
<1>6. ASSUME NEW c \in Client, NEW t \in Task, RunInline(c, t) PROVE StackInv'
  BY <1>1, <1>6, RunInlineStacks
<1>7. ASSUME NEW c \in Client, Return(c) PROVE StackInv'
  BY <1>1, <1>7, LeaveStacks DEF Return, AfterFrame
<1>8. ASSUME NEW c \in Client, Throw(c) \/ Propagate(c) PROVE StackInv'
  BY <1>1, <1>8, LeaveStacks DEF Throw, Propagate, Inline
<1>9. ASSUME NEW c \in Client, NotifyOne(c) PROVE FALSE
  BY <1>2, <1>9 DEF NotifyOne, StacksOK
<1>10. ASSUME NEW c \in Client, NEW t \in Task, Enqueue(c, t) PROVE FALSE
  BY <1>10 DEF Enqueue, Inline
<1>11. Thread = Client
  BY DEF Thread
<1>12. QED
  BY <1>4, <1>5, <1>6, <1>7, <1>8, <1>9, <1>10, <1>11
     DEF Next, Submit, Proceed

(* Without workers, "f runs synchronously before this returns" (l.52-53),  *)
(* to any depth of nesting and whatever throws: nothing of a client's      *)
(* tasks is running when the client is back.                               *)
THEOREM InlineRunsBeforeReturn ==
  ASSUME Worker = {}
  PROVE  Spec => []InlineIsSynchronous
<1>1. Init => StackInv
  <2> SUFFICES ASSUME Init PROVE StackInv
    OBVIOUS
  <2>1. \A c \in Client : pc[c] = "idle" /\ current[c] = NoTask
    BY ThreadPoolAssumption DEF Init, Thread, ThreadPoolAssumption
  <2>2. \A t \in Task : ~Running(t)
    BY DEF Init, Running
  <2>3. [t \in Task |-> NoTask] \in [Task -> Client \cup {NoTask}]
    OBVIOUS
  <2>4. StacksOK([t \in Task |-> NoTask])
    BY <2>1, <2>2 DEF StacksOK
  <2>5. InlineIsSynchronous
    BY <2>1, <2>2 DEF InlineIsSynchronous, Running
  <2>6. QED
    BY <2>3, <2>4, <2>5, InitTypeOK DEF StackInv
<1>2. StackInv /\ [Next]_vars => StackInv'
  BY NextStacks
<1>3. StackInv => InlineIsSynchronous
  BY DEF StackInv
<1>4. QED
  BY <1>1, <1>2, <1>3, PTL DEF Spec
=============================================================================
