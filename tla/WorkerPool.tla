------------------------------ MODULE WorkerPool ------------------------------
(***************************************************************************)
(* The pool of worker threads, src/src/worker.c over src/src/evthr.c. The  *)
(* threads share a datagram socket with the tasks; each has a socket of    *)
(* its own for the command to stop. Tasks, what worker_execute is called   *)
(* with, are run by whichever thread receives them first, or by its timer. *)
(* A task prepares metadata for the player, see metadata_send of           *)
(* src/src/outputs.c, whose thread then sends it.                          *)
(***************************************************************************)
EXTENDS Integers, Sequences

CONSTANTS
  NThreads,    \* THREADPOOL_NTHREADS, 4 in the code
  Tasks,       \* what the caller executes, each once
  Backlog      \* tasks the shared socket holds

ThreadStates == {"none", "starting", "loop", "leaving", "exited"}

ASSUME WorkerPoolAssumption ==
  NThreads \in Nat \ {0} /\ Backlog \in Nat /\ Tasks \cap ThreadStates = {}

VARIABLES
  pool,        \* "none", "init", "up", "stopping", "freed"; "hung" in a join that never returns
  created,     \* threads evthr_pool_start has created
  joined,      \* threads evthr_pool_stop has joined
  thread,      \* thread[i]: one of ThreadStates, or the task that runs
  shared,      \* the tasks in the shared socket
  told,        \* threads with a stop command in their own socket
  timers,      \* timers[i]: delayed tasks whose timer is in the event base of thread i
  fate         \* fate[t]: "new", "accepted", "dropped", "prepared", "done", or "lost" in a freed pool

poolVars == <<pool, created, joined, thread, shared, told, timers, fate>>

Workers == 1..NThreads

PoolInit ==
  /\ pool = "none" /\ created = 0 /\ joined = 0
  /\ thread = [i \in Workers |-> "none"]
  /\ shared = <<>> /\ told = {} /\ timers = [i \in Workers |-> {}]
  /\ fate = [t \in Tasks |-> "new"]

\* evthr_wexit_new for each thread; what is made is freed when one of them cannot be.
PoolMade == pool' = "init"
PoolNotMade == pool' = "none"

\* worker_init makes the pool, which evthr_pool_wexit_new does whole or not at all.
WorkerInit ==
  /\ pool = "none" /\ (PoolMade \/ PoolNotMade)
  /\ UNCHANGED <<created, joined, thread, shared, told, timers, fate>>

\* evthr_start creates the thread, which goes into _evthr_loop.
StartThread ==
  /\ thread' = [thread EXCEPT ![created + 1] = "starting"]
  /\ created' = created + 1 /\ pool' = IF created' = NThreads THEN "up" ELSE "init"

\* evthr_pool_start starts one thread after another; when that fails worker_init calls
\* worker_deinit.
PoolStart ==
  /\ pool = "init"
  /\ StartThread \/ (pool' = "stopping" /\ UNCHANGED <<thread, created>>)
  /\ UNCHANGED <<joined, shared, told, timers, fate>>

\* evthr_pool_defer; it returns RETRY for a task for which the socket has no room.
PoolDefer(t) ==
  /\ Len(shared) < Backlog
  /\ shared' = Append(shared, t) /\ fate' = [fate EXCEPT ![t] = "accepted"]

\* worker_execute ignores what evthr_pool_defer returns, and the task is dropped.
Execute(t) ==
  /\ PoolDefer(t) \/ (Len(shared) = Backlog /\ fate' = [fate EXCEPT ![t] = "dropped"] /\ UNCHANGED shared)
  /\ UNCHANGED <<pool, created, joined, thread, told, timers>>

\* metadata_send, for outputs_metadata_send
MetadataSend(t) == pool = "up" /\ fate[t] = "new" /\ Execute(t)

\* _evthr_loop up to event_base_loop: init_cb sets worker_thr.
InitCb(i) ==
  /\ thread[i] = "starting" /\ thread' = [thread EXCEPT ![i] = "loop"]
  /\ UNCHANGED <<pool, created, joined, shared, told, timers, fate>>

\* _evthr_loop from there on: exit_cb, and the thread ends.
ExitCb(i) ==
  /\ thread[i] = "leaving" /\ thread' = [thread EXCEPT ![i] = "exited"]
  /\ UNCHANGED <<pool, created, joined, shared, told, timers, fate>>

\* event_base_loop
Live(i) == thread[i] = "loop"

\* Mutant: the timer of a delayed task is not added.
RunUntimed(i, t) == (thread' = [thread EXCEPT ![i] = t] \/ UNCHANGED thread) /\ UNCHANGED timers

\* execute runs the task, or sets a timer for it when it has a delay.
Run(i, t) ==
  \/ thread' = [thread EXCEPT ![i] = t] /\ UNCHANGED timers
  \/ timers' = [timers EXCEPT ![i] = @ \cup {t}] /\ UNCHANGED thread

\* _evthr_read_cmd on the shared socket
Receive(i) ==
  /\ Live(i) /\ shared # <<>> /\ shared' = Tail(shared)
  /\ Run(i, Head(shared))
  /\ UNCHANGED <<pool, created, joined, told, fate>>

\* execute_cb
Fire(i) ==
  /\ Live(i)
  /\ \E t \in timers[i] :
       timers' = [timers EXCEPT ![i] = @ \ {t}] /\ thread' = [thread EXCEPT ![i] = t]
  /\ UNCHANGED <<pool, created, joined, shared, told, fate>>

\* airplay_metadata_prepare has metadata or, when the item or its texts cannot be had, not.
MetadataPrepare == {TRUE, FALSE}

\* metadata_cb_prepare returns: there is no metadata, or the event of the player is active.
Finish(i) ==
  /\ thread[i] \in Tasks
  /\ thread' = [thread EXCEPT ![i] = "loop"]
  /\ \E made \in MetadataPrepare :
       fate' = [fate EXCEPT ![thread[i]] = IF made THEN "prepared" ELSE "done"]
  /\ UNCHANGED <<pool, created, joined, shared, told, timers>>

\* metadata_cb_send, in the thread of the player
MetadataSent(t) ==
  /\ fate[t] = "prepared" /\ fate' = [fate EXCEPT ![t] = "done"]
  /\ UNCHANGED <<pool, created, joined, thread, shared, told, timers>>

\* _evthr_read_cmd on the thread's own socket: the loop breaks, with tasks still waiting.
ReadStop(i) ==
  /\ Live(i) /\ i \in told
  /\ thread' = [thread EXCEPT ![i] = "leaving"] /\ told' = told \ {i}
  /\ UNCHANGED <<pool, created, joined, shared, timers, fate>>

\* worker_deinit
Deinit ==
  /\ pool = "up" /\ pool' = "stopping"
  /\ UNCHANGED <<created, joined, thread, shared, told, timers, fate>>

\* Mutant: the thread is told to stop and not joined.
StopThreadUnjoined ==
  /\ pool = "stopping" /\ joined < NThreads
  /\ told' = told \cup {joined + 1} /\ joined' = joined + 1
  /\ UNCHANGED <<pool, created, thread, shared, timers, fate>>

\* evthr_stop of the next thread. A thread that was not created has a pthread_t nobody set:
\* to join it returns at once, or never.
StopThread ==
  /\ pool = "stopping" /\ joined < NThreads /\ joined + 1 \notin told
  /\ IF joined < created /\ thread[joined + 1] # "exited"
     THEN told' = told \cup {joined + 1} /\ UNCHANGED <<joined, pool>>
     ELSE /\ UNCHANGED told
          /\ \/ joined' = joined + 1 /\ UNCHANGED pool
             \/ joined >= created /\ pool' = "hung" /\ UNCHANGED joined
  /\ UNCHANGED <<created, thread, shared, timers, fate>>

\* evthr_free closes the sockets of a thread and frees its event base, with its timers.
ThreadFree(i) == {t \in Tasks : fate[t] = "accepted" /\ t \in timers[i]}

\* evthr_pool_free: what waits in the shared socket or on a timer is lost.
FreePool ==
  /\ pool = "stopping" /\ joined = NThreads /\ pool' = "freed"
  /\ LET lost == UNION {ThreadFree(i) : i \in Workers} \cup {shared[n] : n \in DOMAIN shared}
     IN fate' = [t \in Tasks |-> IF t \in lost THEN "lost" ELSE fate[t]]
  /\ UNCHANGED <<created, joined, thread, shared, told, timers>>

PoolStep(i) == InitCb(i) \/ Receive(i) \/ Fire(i) \/ Finish(i) \/ ReadStop(i) \/ ExitCb(i)

PoolNext ==
  \/ WorkerInit \/ PoolStart \/ Deinit \/ StopThread \/ FreePool
  \/ \E t \in Tasks : MetadataSend(t) \/ MetadataSent(t)
  \/ \E i \in Workers : PoolStep(i)

PoolSpec == PoolInit /\ [][PoolNext]_poolVars

\* The threads get the processor, timers expire and tasks return. A task that waits in the
\* socket may be taken by any thread.
PoolFair ==
  /\ WF_poolVars(StopThread) /\ WF_poolVars(FreePool)
  /\ \A i \in Workers : WF_poolVars(InitCb(i)) /\ WF_poolVars(ExitCb(i))
  /\ \A i \in Workers : WF_poolVars(ReadStop(i)) /\ WF_poolVars(Finish(i)) /\ WF_poolVars(Fire(i))
  /\ WF_poolVars(\E i \in Workers : Receive(i))
  /\ \A t \in Tasks : WF_poolVars(MetadataSent(t))

-----------------------------------------------------------------------------
(* Properties *)

(* evthr.c:225: the memory of a thread is freed after the thread has left its loop, also *)
(* when only some of the threads could be created: no task runs in a freed pool.         *)
FreedAfterExit == pool = "freed" => \A i \in Workers : thread[i] \in {"none", "exited"}

(* worker.h:11: a task that was accepted is run, and the metadata it prepared sent, unless *)
(* the pool is stopped first.                                                            *)
TaskServed ==
  \A t \in Tasks : fate[t] \in {"accepted", "prepared"} ~> (fate[t] = "done" \/ pool # "up")
=============================================================================
