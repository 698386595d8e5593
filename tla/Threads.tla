------------------------------ MODULE Threads ------------------------------
(***************************************************************************)
(* The reactor's loop (src/src/reactor.cpp) and the threads that run on it *)
(* (src/src/thread.cpp, thread.h): contexts with stacks of their own that  *)
(* hand the processor to each other.  A context that is switched to links  *)
(* to the one it came from and goes back there when it waits or ends.      *)
(* Tasks run on the context Main; a thread is created by a task or by      *)
(* another thread and runs at once, and is resumed by a task of its own.   *)
(*                                                                         *)
(* A thread waits for later() (yield) or for the end of another thread     *)
(* (join().get()); async() leaves the end of its thread to a continuation  *)
(* that destroys it.  ~thread() asserts only that join() was CALLED: the   *)
(* program may destroy a context that has not ended.  Switching to it      *)
(* afterwards is undefined: crashed, and the model stops.                  *)
(***************************************************************************)
EXTENDS Integers, Sequences, FiniteSets

CONSTANTS Threads,
          Main,          \* g_unthreaded_context
          None,
          MaxBacklog,    \* _max_task_backlog (10)
          MaxTasks       \* bound: the tasks of the program

ASSUME ThreadsAssumption ==
    /\ IsFiniteSet(Threads)
    /\ Main \notin Threads /\ None \notin Threads \cup {Main} /\ "reap" \notin Threads \cup {None}
    /\ MaxBacklog \in Nat /\ MaxTasks \in Nat \ {0}

VARIABLES
    current,    \* g_current_context
    link,       \* thread -> _link
    th,         \* thread -> "unborn", "active" (on the chain of switches),
                \* "blocked", "exited" or "freed" (~thread)
    joined,     \* the threads whose _joined is set
    joiner,     \* thread -> who waits for _done: a thread, "reap", or None
    pending,    \* _pending_tasks: [run |-> , of |-> ]
    rpc,        \* the reactor: "loop" (of run_tasks), "task" (the program's
                \* code in a task), "return" (a task is over), "batch"
                \* (run_tasks is over), "exited"
    stopped,    \* _stopped
    draining,   \* inside while (!_pending_tasks.empty()) run_tasks()
    tasks,      \* how many tasks the program has made
    early,      \* history: threads destroyed before they ended
    crashed     \* the processor was given to a context that is gone
tvars == <<current, link, th, joined, joiner, pending, rpc, stopped, draining,
           tasks, early, crashed>>

Task(run, of) == [run |-> run, of |-> of]
\* switch_out() and final_switch_out() go to _link, switch_in() to a thread.
SwitchTo(c, state) ==
    current' = c /\ crashed' = (c \in Threads /\ state[c] = "freed")
\* Code of the program runs on c.
MayAct(c) == ~crashed /\ current = c /\ (c = Main => rpc = "task")

----------------------------------------------------------------------------
(* The reactor.                                                            *)
RunTask ==
    /\ ~crashed /\ current = Main /\ rpc = "loop" /\ pending # <<>>
    /\ LET t == Head(pending).of
           rest == Tail(pending)
       IN  CASE Head(pending).run = "program" ->
                  /\ rpc' = "task" /\ pending' = rest
                  /\ UNCHANGED <<current, link, th, crashed>>
             [] Head(pending).run = "later" ->     \* p.set_value()
                  /\ rpc' = "return" /\ pending' = Append(rest, Task("wake", t))
                  /\ UNCHANGED <<current, link, th, crashed>>
             [] Head(pending).run = "wake" ->      \* switch_in()
                  /\ rpc' = "return" /\ pending' = rest
                  /\ SwitchTo(t, th)
                  /\ link' = [link EXCEPT ![t] = current]
                  /\ th' = [th EXCEPT ![t] = IF @ = "freed" THEN @ ELSE "active"]
             [] Head(pending).run = "reap" ->      \* ~work of async()
                  /\ rpc' = "return" /\ pending' = rest
                  /\ th' = [th EXCEPT ![t] = "freed"]
                  /\ UNCHANGED <<current, link, crashed>>
    /\ UNCHANGED <<joined, joiner, stopped, draining, tasks, early>>
\* The loop of run_tasks() goes on only while there is a backlog.
EndTask ==
    /\ ~crashed /\ current = Main /\ rpc \in {"task", "return"}
    /\ rpc' = IF Len(pending) <= MaxBacklog THEN "batch" ELSE "loop"
    /\ UNCHANGED <<current, link, th, joined, joiner, pending, stopped,
                   draining, tasks, early, crashed>>
(* Mutant: a stopped reactor leaves the tasks it has.                      *)
EndBatchAndQuit ==
    /\ ~crashed /\ current = Main
    /\ \/ rpc = "batch" /\ UNCHANGED draining
          /\ rpc' = IF stopped THEN "exited" ELSE "loop"
       \/ rpc = "loop" /\ pending = <<>> /\ rpc' = "batch" /\ UNCHANGED draining
    /\ UNCHANGED <<current, link, th, joined, joiner, pending, stopped, tasks,
                   early, crashed>>
\* run(), and run_tasks() that finds no task.
EndBatch ==
    /\ ~crashed /\ current = Main
    /\ \/ rpc = "batch" /\ draining' = stopped
          /\ rpc' = IF stopped /\ pending = <<>> THEN "exited" ELSE "loop"
       \/ rpc = "loop" /\ pending = <<>> /\ rpc' = "batch" /\ UNCHANGED draining
    /\ UNCHANGED <<current, link, th, joined, joiner, pending, stopped, tasks,
                   early, crashed>>

----------------------------------------------------------------------------
(* The program's code on context c.                                        *)
AddTask(c) ==
    /\ MayAct(c) /\ tasks < MaxTasks /\ tasks' = tasks + 1
    /\ \/ pending' = Append(pending, Task("program", Main))
       \/ pending' = <<Task("program", Main)>> \o pending       \* urgent
    /\ UNCHANGED <<current, link, th, joined, joiner, rpc, stopped, draining,
                   early, crashed>>
\* engine_exit()
StopEngine(c) ==
    /\ MayAct(c) /\ ~stopped /\ stopped' = TRUE
    /\ UNCHANGED <<current, link, th, joined, joiner, pending, rpc, draining,
                   tasks, early, crashed>>
\* thread(func): setup() and initial_switch_in()
Spawn(c, u) ==
    /\ MayAct(c) /\ th[u] = "unborn"
    /\ link' = [link EXCEPT ![u] = c] /\ SwitchTo(u, th)
    /\ th' = [th EXCEPT ![u] = "active"]
    /\ UNCHANGED <<joined, joiner, pending, rpc, stopped, draining, tasks, early>>

(* Mutant: a thread that waits goes straight back to the reactor.          *)
BlocksToMain(t) == th' = [th EXCEPT ![t] = "blocked"] /\ SwitchTo(Main, th)
Blocks(t) == th' = [th EXCEPT ![t] = "blocked"] /\ SwitchTo(link[t], th)
\* yield(): later().get()
Yield(t) ==
    /\ MayAct(t) /\ pending' = Append(pending, Task("later", t)) /\ Blocks(t)
    /\ UNCHANGED <<link, joined, joiner, rpc, stopped, draining, tasks, early>>
CanJoin(c, u) == MayAct(c) /\ c # u /\ u \notin joined
                  /\ th[u] \in {"active", "blocked", "exited"}
\* join().get()
Join(t, u) ==
    /\ CanJoin(t, u) /\ joined' = joined \cup {u}
    /\ IF th[u] = "exited" THEN UNCHANGED <<current, th, joiner, crashed>>
       ELSE joiner' = [joiner EXCEPT ![u] = t] /\ Blocks(t)
    /\ UNCHANGED <<link, pending, rpc, stopped, draining, tasks, early>>
\* async(): join().then(...) under do_with()
JoinThenReap(c, u) ==
    /\ CanJoin(c, u) /\ joined' = joined \cup {u}
    /\ IF th[u] = "exited" THEN th' = [th EXCEPT ![u] = "freed"] /\ UNCHANGED joiner
       ELSE joiner' = [joiner EXCEPT ![u] = "reap"] /\ UNCHANGED th
    /\ UNCHANGED <<current, link, pending, rpc, stopped, draining, tasks, early, crashed>>
\* join() alone, its future dropped.
JoinOnly(c, u) ==
    /\ CanJoin(c, u) /\ joined' = joined \cup {u}
    /\ UNCHANGED <<current, link, th, joiner, pending, rpc, stopped, draining,
                   tasks, early, crashed>>
\* ~thread()
DestroyThread(c, u) ==
    /\ MayAct(c) /\ c # u /\ u \in joined /\ joiner[u] # "reap"
    /\ th[u] \in {"active", "blocked", "exited"}
    /\ th' = [th EXCEPT ![u] = "freed"]
    /\ early' = IF th[u] = "exited" THEN early ELSE early \cup {u}
    /\ UNCHANGED <<current, link, joined, joiner, pending, rpc, stopped, draining,
                   tasks, crashed>>
\* The end of thread_context::main(): _done is set, then final_switch_out().
Exit(t) ==
    /\ t \in Threads /\ MayAct(t)
    /\ pending' = CASE joiner[t] = None   -> pending
                    [] joiner[t] = "reap" -> Append(pending, Task("reap", t))
                    [] OTHER              -> Append(pending, Task("wake", joiner[t]))
    /\ joiner' = [joiner EXCEPT ![t] = IF @ = "reap" THEN @ ELSE None]
    /\ th' = [th EXCEPT ![t] = "exited"] /\ SwitchTo(link[t], th)
    /\ UNCHANGED <<link, joined, rpc, stopped, draining, tasks, early>>

Contexts == Threads \cup {Main}
ThreadsInit ==
    /\ current = Main /\ link = [t \in Threads |-> None]
    /\ th = [t \in Threads |-> "unborn"] /\ joined = {}
    /\ joiner = [t \in Threads |-> None]
    /\ pending = <<Task("program", Main)>> /\ tasks = 1
    /\ rpc = "loop" /\ stopped = FALSE /\ draining = FALSE
    /\ early = {} /\ crashed = FALSE
ThreadsNext ==
    \/ RunTask \/ EndTask \/ EndBatch
    \/ \E c \in Contexts :
          \/ AddTask(c) \/ StopEngine(c)
          \/ \E u \in Threads : \/ Spawn(c, u) \/ JoinThenReap(c, u)
                                \/ JoinOnly(c, u) \/ DestroyThread(c, u)
    \/ \E t \in Threads : Yield(t) \/ Exit(t) \/ \E u \in Threads : Join(t, u)
\* One processor that does not stand still.
ThreadsSpec == ThreadsInit /\ [][ThreadsNext]_tvars /\ WF_tvars(ThreadsNext)

----------------------------------------------------------------------------
\* The contexts reached from the current one through _link.
Chain == LET at[k \in 0..Cardinality(Threads)] ==
               IF k = 0 THEN current
               ELSE IF at[k - 1] = Main THEN Main ELSE link[at[k - 1]]
         IN  {at[k] : k \in DOMAIN at}

(* The links lead from the current context through every context that has  *)
(* been switched away from but does not wait, down to the reactor's:       *)
(* threads created inside threads, resumed by the reactor and left in any  *)
(* order.  The reactor takes a task only when no thread is on the way.     *)
LinksAreTheStack ==
    ~crashed =>
        /\ Main \in Chain
        /\ {t \in Threads : th[t] = "active"} = Chain \ ({Main} \cup early)
        /\ rpc \in {"loop", "batch", "exited"} => Chain = {Main}

(* A thread that waits has exactly one thing to wake it up, a later() or a *)
(* wake-up in the queue or the end of one thread, and a thread that does   *)
(* not wait has none.  A context is reaped after it ended, and when the    *)
(* reactor has exited no task is left.                                     *)
OneWakePerSleeper ==
    LET Wakes(t) == {i \in DOMAIN pending : pending[i].of = t
                                             /\ pending[i].run \in {"later", "wake"}}
    IN  /\ \A t \in Threads \ early :
              ~crashed => Cardinality(Wakes(t)) + Cardinality({u \in Threads : joiner[u] = t})
                             = IF th[t] = "blocked" THEN 1 ELSE 0
        /\ \A i \in DOMAIN pending : pending[i].run = "reap" => th[pending[i].of] = "exited"
        /\ rpc = "exited" => pending = <<>> /\ stopped

(* The processor goes to a context that is gone only if a thread was       *)
(* destroyed before it ended, which ~thread()'s assertion lets pass.       *)
ThreadsComeBack ==
    LinksAreTheStack /\ OneWakePerSleeper /\ (crashed => early # {})

(* A thread that yields goes on, however the threads and the tasks of the  *)
(* program interleave and in spite of the (finitely many) urgent tasks.    *)
YieldsReturn ==
    \A t \in Threads :
        (th[t] = "blocked" /\ \E i \in DOMAIN pending : pending[i] = Task("later", t))
            ~> (th[t] # "blocked" \/ crashed)
=============================================================================
