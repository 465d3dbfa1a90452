------------------------------ MODULE LfFinder ------------------------------
(***************************************************************************)
(* The thread pool of lf (src/src/lf.c): init_find() queues the base        *)
(* directory, starts the finder threads and sleeps until shut_down; every   *)
(* finder takes directories from the shared queue, reads them, queues their *)
(* subdirectories and counts and prints their files.  The queue is guarded  *)
(* by queue_mutex, active_tasks is atomic, file_count is neither.           *)
(*                                                                          *)
(* The critical sections that touch only what the mutex guards are single   *)
(* steps.  dequeue_dir() also loads active_tasks, which others change       *)
(* without the mutex, so its section is split where another thread's        *)
(* fetch_sub or broadcast can fall: after the load, before the wait.        *)
(***************************************************************************)
EXTENDS LfTree, FiniteSets

CONSTANTS
    Worker,         \* finder threads
    Main,           \* the thread that runs init_find
    NoOne,          \* the mutex is free
    MaxSpurious     \* bound on spurious wake-ups of pthread_cond_wait

ASSUME ThreadAssumption ==
    /\ IsFiniteSet(Worker)
    /\ Main \notin Worker
    /\ NoOne \notin Worker
    /\ MaxSpurious \in Nat

VARIABLES
    pc,             \* where each thread is
    mutex,          \* the holder of queue_mutex between two steps
    queue,          \* qhead .. qtail
    active_tasks,
    shut_down,
    task,           \* task[w]: path of the directory w is reading
    todo,           \* todo[w]: entries readdir has not returned yet
    item,           \* item[w]: path of the entry in hand
    tmp,            \* tmp[w]: file_count as loaded by file_count++
    file_count,
    termination_status,
    finished,       \* history: directories whose task was freed
    found,          \* history: paths that were counted and printed
    spurious        \* spurious wake-ups so far

vars == <<pc, mutex, queue, active_tasks, shut_down, task, todo, item, tmp,
          file_count, termination_status, finished, found, spurious>>

Thread == Worker \cup {Main}

\* A worker that dequeue_dir() counted in active_tasks and that has not yet
\* counted itself out.
Reading == {"read", "enqueue", "load", "store"}
Busy == {w \in Worker : pc[w] \in Reading \cup {"open"}}
Queued == {queue[i] : i \in 1..Len(queue)}
Open == Queued \cup {task[w] : w \in Busy}

Init ==
    /\ pc = [t \in Thread |-> IF t = Main THEN "spawn" ELSE "unborn"]
    /\ mutex = NoOne
    /\ queue = <<Root>>
    /\ active_tasks = 0
    /\ shut_down = FALSE
    /\ task = [w \in Worker |-> Root]
    /\ todo = [w \in Worker |-> {}]
    /\ item = [w \in Worker |-> Root]
    /\ tmp = [w \in Worker |-> 0]
    /\ file_count = 0
    /\ termination_status = "success"
    /\ finished = {}
    /\ found = {}
    /\ spurious = 0

-----------------------------------------------------------------------------
(* The condition variable. *)

Sleepers == {t \in Thread : pc[t] = "asleep"}

\* pthread_cond_signal wakes one sleeper, whichever it is, the main thread too.
Signalled(p) ==
    IF Sleepers = {} THEN {p} ELSE {[p EXCEPT ![t] = "lock"] : t \in Sleepers}

\* pthread_cond_broadcast wakes them all.
Broadcast(p) == [t \in Thread |-> IF pc[t] = "asleep" THEN "lock" ELSE p[t]]

SpuriousWakeup(t) ==
    /\ pc[t] = "asleep"
    /\ spurious < MaxSpurious
    /\ spurious' = spurious + 1
    /\ pc' = [pc EXCEPT ![t] = "lock"]
    /\ UNCHANGED <<mutex, queue, active_tasks, shut_down, task, todo, item, tmp,
                   file_count, termination_status, finished, found>>

-----------------------------------------------------------------------------
(* init_find: start the threads, wait for shut_down, join. *)

Spawn(w) ==
    /\ pc[Main] = "spawn"
    /\ pc[w] = "unborn"
    /\ pc' = [pc EXCEPT ![w] = "lock"]
    /\ UNCHANGED <<mutex, queue, active_tasks, shut_down, task, todo, item, tmp,
                   file_count, termination_status, finished, found, spurious>>

Spawned ==
    /\ pc[Main] = "spawn"
    /\ \A w \in Worker : pc[w] # "unborn"
    /\ pc' = [pc EXCEPT ![Main] = "lock"]
    /\ UNCHANGED <<mutex, queue, active_tasks, shut_down, task, todo, item, tmp,
                   file_count, termination_status, finished, found, spurious>>

AwaitShutDown ==
    /\ pc[Main] = "lock"
    /\ mutex = NoOne
    /\ pc' = [pc EXCEPT ![Main] = IF shut_down THEN "join" ELSE "asleep"]
    /\ UNCHANGED <<mutex, queue, active_tasks, shut_down, task, todo, item, tmp,
                   file_count, termination_status, finished, found, spurious>>

Join ==
    /\ pc[Main] = "join"
    /\ \A w \in Worker : pc[w] = "done"
    /\ pc' = [pc EXCEPT ![Main] = "done"]
    /\ UNCHANGED <<mutex, queue, active_tasks, shut_down, task, todo, item, tmp,
                   file_count, termination_status, finished, found, spurious>>

-----------------------------------------------------------------------------
(* dequeue_dir *)

Lock(w) ==
    /\ pc[w] = "lock"
    /\ mutex = NoOne
    /\ mutex' = w
    /\ pc' = [pc EXCEPT ![w] = "test"]
    /\ UNCHANGED <<queue, active_tasks, shut_down, task, todo, item, tmp,
                   file_count, termination_status, finished, found, spurious>>

\* Mutant: the head of the queue is not advanced.
Take_NotAdvanced(w) ==
    /\ pc[w] = "test"
    /\ queue # <<>>
    /\ task' = [task EXCEPT ![w] = Head(queue)]
    /\ active_tasks' = active_tasks + 1
    /\ mutex' = NoOne
    /\ pc' = [pc EXCEPT ![w] = "open"]
    /\ UNCHANGED <<queue, shut_down, todo, item, tmp, file_count,
                   termination_status, finished, found, spurious>>

\* Mutant: the task is not counted in active_tasks.
Take_NotCounted(w) ==
    /\ pc[w] = "test"
    /\ queue # <<>>
    /\ task' = [task EXCEPT ![w] = Head(queue)]
    /\ queue' = Tail(queue)
    /\ mutex' = NoOne
    /\ pc' = [pc EXCEPT ![w] = "open"]
    /\ UNCHANGED <<active_tasks, shut_down, todo, item, tmp, file_count,
                   termination_status, finished, found, spurious>>

Take(w) ==
    /\ pc[w] = "test"
    /\ queue # <<>>
    /\ task' = [task EXCEPT ![w] = Head(queue)]
    /\ queue' = Tail(queue)
    /\ active_tasks' = active_tasks + 1
    /\ mutex' = NoOne
    /\ pc' = [pc EXCEPT ![w] = "open"]
    /\ UNCHANGED <<shut_down, todo, item, tmp, file_count, termination_status,
                   finished, found, spurious>>

\* Empty queue and shut_down: return NULL and leave the thread function.
Quit(w) ==
    /\ pc[w] = "test"
    /\ queue = <<>>
    /\ shut_down
    /\ mutex' = NoOne
    /\ pc' = [pc EXCEPT ![w] = "done"]
    /\ UNCHANGED <<queue, active_tasks, shut_down, task, todo, item, tmp,
                   file_count, termination_status, finished, found, spurious>>

\* Mutant: an empty queue alone ends the search.
ShutDown_QueueOnly(w) ==
    /\ pc[w] = "test"
    /\ queue = <<>>
    /\ ~shut_down
    /\ shut_down' = TRUE
    /\ mutex' = NoOne
    /\ pc' = Broadcast([pc EXCEPT ![w] = "done"])
    /\ UNCHANGED <<queue, active_tasks, task, todo, item, tmp, file_count,
                   termination_status, finished, found, spurious>>

\* Mutant: the sleepers are not told.
ShutDown_Silent(w) ==
    /\ pc[w] = "test"
    /\ queue = <<>>
    /\ ~shut_down
    /\ active_tasks = 0
    /\ shut_down' = TRUE
    /\ mutex' = NoOne
    /\ pc' = [pc EXCEPT ![w] = "done"]
    /\ UNCHANGED <<queue, active_tasks, task, todo, item, tmp, file_count,
                   termination_status, finished, found, spurious>>

\* Empty queue and nobody reading: initiate the shut-down and leave.
ShutDown(w) ==
    /\ pc[w] = "test"
    /\ queue = <<>>
    /\ ~shut_down
    /\ active_tasks = 0
    /\ shut_down' = TRUE
    /\ mutex' = NoOne
    /\ pc' = Broadcast([pc EXCEPT ![w] = "done"])
    /\ UNCHANGED <<queue, active_tasks, task, todo, item, tmp, file_count,
                   termination_status, finished, found, spurious>>

\* Mutant: wait without looking at active_tasks.
MustWait_Always(w) ==
    /\ pc[w] = "test"
    /\ queue = <<>>
    /\ ~shut_down
    /\ pc' = [pc EXCEPT ![w] = "wait"]
    /\ UNCHANGED <<mutex, queue, active_tasks, shut_down, task, todo, item, tmp,
                   file_count, termination_status, finished, found, spurious>>

\* Empty queue and somebody still reading: wait ...
MustWait(w) ==
    /\ pc[w] = "test"
    /\ queue = <<>>
    /\ ~shut_down
    /\ active_tasks # 0
    /\ pc' = [pc EXCEPT ![w] = "wait"]
    /\ UNCHANGED <<mutex, queue, active_tasks, shut_down, task, todo, item, tmp,
                   file_count, termination_status, finished, found, spurious>>

\* ... which releases the mutex and sleeps in one step.
Wait(w) ==
    /\ pc[w] = "wait"
    /\ mutex' = NoOne
    /\ pc' = [pc EXCEPT ![w] = "asleep"]
    /\ UNCHANGED <<queue, active_tasks, shut_down, task, todo, item, tmp,
                   file_count, termination_status, finished, found, spurious>>

-----------------------------------------------------------------------------
(* finder: the directory in hand *)

\* Clean up the task and count it out of active_tasks.
Release(w, next) ==
    /\ finished' = finished \cup {task[w]}
    /\ active_tasks' = active_tasks - 1
    /\ task' = [task EXCEPT ![w] = Root]
    /\ pc' = [pc EXCEPT ![w] = next]

\* Mutant: the early continue forgets the fetch_sub.
OpenFails_StillActive(w) ==
    /\ pc[w] = "open"
    /\ ~Readable(task[w])
    /\ termination_status' = "failure"
    /\ finished' = finished \cup {task[w]}
    /\ task' = [task EXCEPT ![w] = Root]
    /\ pc' = [pc EXCEPT ![w] = "broadcast"]
    /\ UNCHANGED <<mutex, queue, active_tasks, shut_down, todo, item, tmp,
                   file_count, found, spurious>>

OpenFails(w) ==
    /\ pc[w] = "open"
    /\ ~Readable(task[w])
    /\ termination_status' = "failure"
    /\ Release(w, "broadcast")
    /\ UNCHANGED <<mutex, queue, shut_down, todo, item, tmp, file_count, found,
                   spurious>>

WakeAll(w) ==
    /\ pc[w] = "broadcast"
    /\ pc' = Broadcast([pc EXCEPT ![w] = "lock"])
    /\ UNCHANGED <<mutex, queue, active_tasks, shut_down, task, todo, item, tmp,
                   file_count, termination_status, finished, found, spurious>>

OpenDir(w) ==
    /\ pc[w] = "open"
    /\ Readable(task[w])
    /\ todo' = [todo EXCEPT ![w] = EntriesOf(task[w])]
    /\ pc' = [pc EXCEPT ![w] = "read"]
    /\ UNCHANGED <<mutex, queue, active_tasks, shut_down, task, item, tmp,
                   file_count, termination_status, finished, found, spurious>>

\* Mutant: the entry stays to be read again.
ReadEntry_Again(w, e) ==
    /\ pc[w] = "read"
    /\ e \in todo[w]
    /\ item' = [item EXCEPT ![w] = Append(task[w], e)]
    /\ termination_status' =
           IF Fails(task[w], e) THEN "failure" ELSE termination_status
    /\ pc' = [pc EXCEPT ![w] = IF Descends(task[w], e) THEN "enqueue"
                               ELSE IF Lists(task[w], e) THEN "load"
                               ELSE "read"]
    /\ UNCHANGED <<mutex, queue, active_tasks, shut_down, task, todo, tmp,
                   file_count, finished, found, spurious>>

\* readdir returns entries in the order the file system likes.
ReadEntry(w, e) ==
    /\ pc[w] = "read"
    /\ e \in todo[w]
    /\ todo' = [todo EXCEPT ![w] = @ \ {e}]
    /\ item' = [item EXCEPT ![w] = Append(task[w], e)]
    /\ termination_status' =
           IF Fails(task[w], e) THEN "failure" ELSE termination_status
    /\ pc' = [pc EXCEPT ![w] = IF Descends(task[w], e) THEN "enqueue"
                               ELSE IF Lists(task[w], e) THEN "load"
                               ELSE "read"]
    /\ UNCHANGED <<mutex, queue, active_tasks, shut_down, task, tmp, file_count,
                   finished, found, spurious>>

\* Mutant: the readdir loop is left before its end.
CloseDir_Early(w) ==
    /\ pc[w] = "read"
    /\ Release(w, "lock")
    /\ item' = [item EXCEPT ![w] = Root]
    /\ todo' = [todo EXCEPT ![w] = {}]
    /\ UNCHANGED <<mutex, queue, shut_down, tmp, file_count,
                   termination_status, found, spurious>>

CloseDir(w) ==
    /\ pc[w] = "read"
    /\ todo[w] = {}
    /\ Release(w, "lock")
    /\ item' = [item EXCEPT ![w] = Root]
    /\ UNCHANGED <<mutex, queue, shut_down, todo, tmp, file_count,
                   termination_status, found, spurious>>

\* Mutant: a directory that is queued is not handed to scan_file.
Enqueue_NotListed(w) ==
    /\ pc[w] = "enqueue"
    /\ mutex = NoOne
    /\ queue' = Append(queue, item[w])
    /\ pc' \in Signalled([pc EXCEPT ![w] = "read"])
    /\ UNCHANGED <<mutex, active_tasks, shut_down, task, todo, item, tmp,
                   file_count, termination_status, finished, found, spurious>>

\* enqueue_dir: append, signal.
Enqueue(w) ==
    /\ pc[w] = "enqueue"
    /\ mutex = NoOne
    /\ queue' = Append(queue, item[w])
    /\ pc' \in Signalled([pc EXCEPT ![w] =
                   IF Lists(task[w], item[w][Len(item[w])]) THEN "load" ELSE "read"])
    /\ UNCHANGED <<mutex, active_tasks, shut_down, task, todo, item, tmp,
                   file_count, termination_status, finished, found, spurious>>

\* file_count++ on a plain size_t: a load and a store.
LoadCount(w) ==
    /\ pc[w] = "load"
    /\ tmp' = [tmp EXCEPT ![w] = file_count]
    /\ pc' = [pc EXCEPT ![w] = "store"]
    /\ UNCHANGED <<mutex, queue, active_tasks, shut_down, task, todo, item,
                   file_count, termination_status, finished, found, spurious>>

StoreCount(w) ==
    /\ pc[w] = "store"
    /\ file_count' = tmp[w] + 1
    /\ found' = found \cup {item[w]}
    /\ tmp' = [tmp EXCEPT ![w] = 0]
    /\ pc' = [pc EXCEPT ![w] = "read"]
    /\ UNCHANGED <<mutex, queue, active_tasks, shut_down, task, todo, item,
                   termination_status, finished, spurious>>

-----------------------------------------------------------------------------

Dequeue(w) == Lock(w) \/ Take(w) \/ Quit(w) \/ ShutDown(w) \/ MustWait(w) \/ Wait(w)

Finder(w) ==
    \/ Dequeue(w)
    \/ OpenFails(w) \/ WakeAll(w) \/ OpenDir(w) \/ CloseDir(w)
    \/ \E e \in Entry : ReadEntry(w, e)
    \/ Enqueue(w) \/ LoadCount(w) \/ StoreCount(w)

InitFind == (\E w \in Worker : Spawn(w)) \/ Spawned \/ AwaitShutDown \/ Join

\* lf has ended; nothing more happens.
Ended == pc[Main] = "done" /\ UNCHANGED vars

Next ==
    \/ InitFind
    \/ \E w \in Worker : Finder(w)
    \/ \E t \in Thread : SpuriousWakeup(t)
    \/ Ended

\* The scheduler runs every thread that can run.  It never has to wake a
\* sleeper on its own.
Fairness == WF_vars(InitFind) /\ \A w \in Worker : WF_vars(Finder(w))

Spec == Init /\ [][Next]_vars
FairSpec == Spec /\ Fairness
-----------------------------------------------------------------------------
(* What must hold. *)

TypeOK ==
    /\ pc \in [Thread -> {"unborn", "spawn", "lock", "test", "wait", "asleep", "open",
                          "broadcast", "join", "done"} \cup Reading]
    /\ mutex \in Worker \cup {NoOne}
    /\ queue \in Seq(Path)
    /\ active_tasks \in Nat
    /\ shut_down \in BOOLEAN
    /\ task \in [Worker -> Path]
    /\ todo \in [Worker -> SUBSET Entry]
    /\ item \in [Worker -> Path]
    /\ tmp \in [Worker -> Nat]
    /\ file_count \in Nat
    /\ termination_status \in {"success", "failure"}
    /\ finished \in SUBSET Path
    /\ found \in SUBSET Path
    /\ spurious \in 0..MaxSpurious

\* active_tasks, which is changed without the mutex, still counts exactly the
\* workers that hold a directory (atomic_fetch_add in dequeue_dir against the
\* three atomic_fetch_sub of finder).
ActiveCount == active_tasks = Cardinality(Busy)

\* A thread that sees an empty queue and active_tasks = 0 may conclude that the
\* search is over: once shut_down is set no directory is queued or being read,
\* so none is abandoned.
NoEarlyShutDown == shut_down => Open = {}

\* The search is complete when it is over: the base was read, and of every
\* directory that was read and could be opened, all the subdirectories to
\* descend into were read and all the files to list were listed.
Complete ==
    shut_down =>
        /\ Root \in finished
        /\ \A p \in finished : Readable(p) =>
               \A e \in EntriesOf(p) :
                   /\ Descends(p, e) => Append(p, e) \in finished
                   /\ Lists(p, e) => Append(p, e) \in found

\* No directory is read twice: what is queued, in hand and finished are
\* disjoint, no task is queued twice and no two workers hold the same one.
ReadOnce ==
    /\ Queued \cap finished = {}
    /\ \A i, j \in 1..Len(queue) : queue[i] = queue[j] => i = j
    /\ \A w \in Busy : task[w] \notin finished \cup Queued
    /\ \A v, w \in Busy : task[v] = task[w] => v = w

\* No path is counted and printed a second time.
ListedOnce == [][\A w \in Worker : StoreCount(w) => item[w] \notin found]_vars

\* The wake-up of enqueue_dir may go to the main thread, which ignores it, but
\* the finders never all sleep while the search is on.
SomeoneAwake ==
    ~shut_down /\ (\A w \in Worker : pc[w] # "unborn") /\ Worker # {}
        => \E w \in Worker : pc[w] \notin {"asleep", "done"}

\* The pool implements the walk it is there for.
Walk == INSTANCE LfWalk WITH open <- Open, closed <- finished, stopped <- shut_down
ImplementsWalk == Walk!WalkSpec

\* "This ensures that threads do not wait indefinitely when there are no tasks
\* left to process": lf ends, with every finder joined.
Termination == <>(pc[Main] = "done")
-----------------------------------------------------------------------------
(* What the comments and manual of lf say and the code does not do. *)

\* docs/CHANGELOG.md:631, "Threads are mutex protected to ensure safe access to
\* shared resources": the count printed at the end is the number of paths listed.
CountExact == pc[Main] = "done" => file_count = Cardinality(found)
=============================================================================
