--------------------------- MODULE LfFinderProofs ---------------------------
(***************************************************************************)
(* Proofs about the thread pool of lf, for every tree, every set of finders *)
(* and every number of spurious wake-ups.                                   *)
(***************************************************************************)
EXTENDS LfFinder, FiniteSetTheorems, TLAPS

LEMMA RootIsPath == Root \in Path
  BY DEF Root, Path

LEMMA AppendIsPath ==
  ASSUME NEW p \in Path, NEW e \in Entry
  PROVE  Append(p, e) \in Path
  BY DEF Path

\* A signal or a broadcast only moves sleepers to "lock".
LEMMA SignalledType ==
  ASSUME TypeOK, NEW w \in Worker, NEW s \in Reading, NEW q \in Signalled([pc EXCEPT ![w] = s])
  PROVE  /\ q \in [Thread -> {"unborn", "spawn", "lock", "test", "wait", "asleep",
                      "open", "broadcast", "join", "done"} \cup Reading]
         /\ \A t \in Thread : q[t] = [pc EXCEPT ![w] = s][t] \/ (pc[t] = "asleep" /\ q[t] = "lock")
  BY ZenonT(40) DEF TypeOK, Signalled, Sleepers, Thread, Reading

\* The workers counted in active_tasks are finitely many, and at least one when
\* w is among them.
LEMMA BusyIsFinite == IsFiniteSet(Busy)
  BY ThreadAssumption, FS_Subset DEF Busy

LEMMA BusyIsCounted ==
  ASSUME ActiveCount, NEW w \in Busy
  PROVE  active_tasks \in Nat /\ active_tasks > 0
  BY BusyIsFinite, FS_CardinalityType, FS_EmptySet DEF ActiveCount

LEMMA InitType == Init => TypeOK
<1> SUFFICES ASSUME Init PROVE TypeOK
  OBVIOUS
<1>1. <<Root>> \in Seq(Path)
  BY RootIsPath
<1>2. pc \in [Thread -> {"unborn", "spawn", "lock", "test", "wait", "asleep",
                    "open", "broadcast", "join", "done"} \cup Reading]
  BY DEF Init
<1>3. queue \in Seq(Path)
  BY <1>1 DEF Init
<1>4. task \in [Worker -> Path] /\ item \in [Worker -> Path]
  BY RootIsPath DEF Init
<1>5. todo \in [Worker -> SUBSET Entry] /\ tmp \in [Worker -> Nat]
  BY DEF Init
<1>6. spurious \in 0..MaxSpurious
  BY ThreadAssumption DEF Init
<1> QED
  BY <1>2, <1>3, <1>4, <1>5, <1>6 DEF Init, TypeOK

LEMMA NextType == TypeOK /\ ActiveCount /\ [Next]_vars => TypeOK'
<1> SUFFICES ASSUME TypeOK, ActiveCount, [Next]_vars PROVE TypeOK'
  OBVIOUS
<1> USE DEF Thread, Reading
<1>1. CASE InitFind
  BY <1>1 DEF TypeOK, InitFind, Spawn, Spawned, AwaitShutDown, Join
<1>2. ASSUME NEW w \in Worker, Lock(w) PROVE TypeOK'
  BY <1>2 DEF TypeOK, Lock
<1>3. ASSUME NEW w \in Worker, Take(w) PROVE TypeOK'
  BY <1>3 DEF TypeOK, Take
<1>4. ASSUME NEW w \in Worker, Quit(w) PROVE TypeOK'
  BY <1>4 DEF TypeOK, Quit
<1>5. ASSUME NEW w \in Worker, ShutDown(w) PROVE TypeOK'
  BY <1>5 DEF TypeOK, ShutDown, Broadcast
<1>6. ASSUME NEW w \in Worker, MustWait(w) \/ Wait(w) PROVE TypeOK'
  BY <1>6 DEF TypeOK, MustWait, Wait
<1>7. ASSUME NEW w \in Worker, OpenFails(w) PROVE TypeOK'
  <2>1. active_tasks' \in Nat
    BY <1>7, BusyIsCounted DEF OpenFails, Release, Busy
  <2>2. finished' \in SUBSET Path
    BY <1>7 DEF TypeOK, OpenFails, Release
  <2> QED
    BY <1>7, <2>1, <2>2, RootIsPath DEF TypeOK, OpenFails, Release
<1>8. ASSUME NEW w \in Worker, WakeAll(w) PROVE TypeOK'
  BY <1>8 DEF TypeOK, WakeAll, Broadcast
<1>9. ASSUME NEW w \in Worker, OpenDir(w) PROVE TypeOK'
  BY <1>9 DEF TypeOK, OpenDir, EntriesOf
<1>10. ASSUME NEW w \in Worker, CloseDir(w) PROVE TypeOK'
  <2>1. active_tasks' \in Nat
    BY <1>10, BusyIsCounted DEF CloseDir, Release, Busy
  <2>2. finished' \in SUBSET Path
    BY <1>10 DEF TypeOK, CloseDir, Release
  <2> QED
    BY <1>10, <2>1, <2>2, RootIsPath DEF TypeOK, CloseDir, Release
<1>11. ASSUME NEW w \in Worker, NEW e \in Entry, ReadEntry(w, e) PROVE TypeOK'
  <2>1. item' \in [Worker -> Path]
    BY <1>11, AppendIsPath DEF TypeOK, ReadEntry
  <2>2. pc' \in [Thread -> {"unborn", "spawn", "lock", "test", "wait", "asleep",
                      "open", "broadcast", "join", "done"} \cup Reading]
    BY <1>11 DEF TypeOK, ReadEntry
  <2> QED
    BY <1>11, <2>1, <2>2 DEF TypeOK, ReadEntry
<1>12. ASSUME NEW w \in Worker, Enqueue(w) PROVE TypeOK'
  <2>1. queue' \in Seq(Path)
    BY <1>12 DEF TypeOK, Enqueue
  <2>2. PICK s \in Reading : pc' \in Signalled([pc EXCEPT ![w] = s])
    BY <1>12 DEF Enqueue
  <2> QED
    BY <1>12, <2>1, <2>2, SignalledType DEF TypeOK, Enqueue
<1>13. ASSUME NEW w \in Worker, LoadCount(w) PROVE TypeOK'
  BY <1>13 DEF TypeOK, LoadCount
<1>14. ASSUME NEW w \in Worker, StoreCount(w) PROVE TypeOK'
  <2>1. found' \in SUBSET Path
    BY <1>14 DEF TypeOK, StoreCount
  <2> QED
    BY <1>14, <2>1 DEF TypeOK, StoreCount
<1>15. ASSUME NEW t \in Thread, SpuriousWakeup(t) PROVE TypeOK'
  BY <1>15, ThreadAssumption DEF TypeOK, SpuriousWakeup
<1>16. CASE Ended \/ UNCHANGED vars
  BY <1>16 DEF TypeOK, Ended, vars
<1> QED
  BY <1>1, <1>2, <1>3, <1>4, <1>5, <1>6, <1>7, <1>8, <1>9, <1>10, <1>11, <1>12,
     <1>13, <1>14, <1>15, <1>16 DEF Next, Finder, Dequeue

-----------------------------------------------------------------------------
(* Paths. *)

LEMMA AppendFacts ==
  ASSUME NEW p \in Path, NEW e \in Entry
  PROVE  /\ Append(p, e) \in Path
         /\ Append(p, e) # Root
         /\ Append(p, e)[Len(Append(p, e))] = e
  BY DEF Path, Root

LEMMA AppendInjective ==
  ASSUME NEW p \in Path, NEW q \in Path, NEW e \in Entry, NEW f \in Entry,
         Append(p, e) = Append(q, f)
  PROVE  p = q /\ e = f
<1>1. Len(p) = Len(q)
  BY DEF Path
<1>2. e = f
  BY <1>1, Append(p, e)[Len(p) + 1] = e, Append(q, f)[Len(q) + 1] = f DEF Path
<1>3. \A i \in 1..Len(p) : p[i] = Append(p, e)[i] /\ q[i] = Append(q, f)[i]
  BY <1>1 DEF Path
<1>4. \A i \in 1..Len(p) : p[i] = q[i]
  BY <1>3
<1> QED
  BY <1>1, <1>2, <1>4 DEF Path

-----------------------------------------------------------------------------
(* The inductive invariant.  A directory is discovered from the moment it is *)
(* queued: it is then queued, in the hands of a worker, or finished.         *)

Discovered == Open \cup finished

Holding == Reading \cup {"open"}
InHand == {"enqueue", "load", "store"}

\* The entry in hand was read from the directory in hand and belongs there.
HandOK(w) ==
    /\ pc[w] \in Reading =>
          todo[w] \subseteq EntriesOf(task[w]) /\ Readable(task[w])
    /\ pc[w] \in InHand =>
          \E e \in EntriesOf(task[w]) \ todo[w] :
              /\ item[w] = Append(task[w], e)
              /\ pc[w] = "enqueue" => Descends(task[w], e)
              /\ pc[w] # "enqueue" =>
                    /\ Lists(task[w], e)
                    /\ Descends(task[w], e) => item[w] \in Discovered

HandInv == \A w \in Worker : HandOK(w)

\* Every entry already read was dealt with, or is the one in hand.
ProgressOK(w) ==
    pc[w] \in Reading =>
        \A e \in EntriesOf(task[w]) \ todo[w] :
            /\ Descends(task[w], e) =>
                  \/ Append(task[w], e) \in Discovered
                  \/ pc[w] = "enqueue" /\ item[w] = Append(task[w], e)
            /\ Lists(task[w], e) =>
                  \/ Append(task[w], e) \in found
                  \/ pc[w] \in InHand /\ item[w] = Append(task[w], e)

ProgressInv == \A w \in Worker : ProgressOK(w)

\* Of a finished directory everything was dealt with.
FinishedInv ==
    /\ Root \in Discovered
    /\ \A p \in finished : Readable(p) =>
          \A e \in EntriesOf(p) :
              /\ Descends(p, e) => Append(p, e) \in Discovered
              /\ Lists(p, e) => Append(p, e) \in found

\* Nothing is discovered or listed but by reading it in its directory.
ReadBy(w, p, e) == pc[w] \in Reading /\ task[w] = p /\ e \notin todo[w]

OriginOK(p, e) ==
    /\ Append(p, e) \in Discovered =>
          \/ p \in finished
          \/ \E w \in Worker :
                ReadBy(w, p, e) /\ ~(pc[w] = "enqueue" /\ item[w] = Append(p, e))
    /\ Append(p, e) \in found =>
          \/ p \in finished
          \/ \E w \in Worker :
                ReadBy(w, p, e) /\ ~(pc[w] \in InHand /\ item[w] = Append(p, e))

OriginInv == \A p \in Path, e \in Entry : OriginOK(p, e)

\* Between two steps the mutex is held by the worker inside dequeue_dir.
MutexHeld == \A w \in Worker : pc[w] \in {"test", "wait"} <=> mutex = w

\* Out of dequeue_dir and not asleep.
Stirring(v) == pc[v] \in Holding \cup {"lock", "broadcast"}

\* A worker that is about to sleep saw another one at work, and that one cannot
\* come to sleep before it: it needs the mutex for that.
SleepInv ==
    ~shut_down =>
        /\ \A w \in Worker : pc[w] # "done"
        /\ \A w \in Worker : pc[w] = "wait" => \E v \in Worker \ {w} : Stirring(v)
        /\ \A w \in Worker : pc[w] = "asleep" =>
              \E v \in Worker : pc[v] \notin {"unborn", "asleep", "done"}

IInv ==
    /\ TypeOK
    /\ ActiveCount
    /\ NoEarlyShutDown
    /\ ReadOnce
    /\ HandInv
    /\ ProgressInv
    /\ FinishedInv
    /\ OriginInv
    /\ MutexHeld
    /\ SleepInv

-----------------------------------------------------------------------------
(* What each kind of step does to the directories in hand. *)

\* A worker with a directory keeps it, and no other gets one.
Kept == \A w \in Worker : pc[w] \in Holding \/ pc'[w] \in Holding => pc'[w] = pc[w]

\* Threads that lock, wait, wake or end touch no directory.
Idle ==
    \/ InitFind
    \/ \E w \in Worker : Lock(w) \/ Quit(w) \/ ShutDown(w) \/ MustWait(w) \/ Wait(w) \/ WakeAll(w)
    \/ \E t \in Thread : SpuriousWakeup(t)
    \/ Ended
    \/ UNCHANGED vars

LEMMA IdleStep ==
  ASSUME TypeOK, Idle
  PROVE  /\ UNCHANGED <<queue, active_tasks, task, todo, item, finished, found>>
         /\ Kept
         /\ Busy' = Busy
         /\ Open' = Open
<1>1. UNCHANGED <<queue, active_tasks, task, todo, item, finished, found>>
  BY DEF Idle, InitFind, Spawn, Spawned, AwaitShutDown, Join, Lock, Quit, ShutDown,
         MustWait, Wait, WakeAll, SpuriousWakeup, Ended, vars
<1>2. Kept
  <2> USE ThreadAssumption DEF TypeOK, Kept, Holding, Reading, Thread
  <2>1. CASE InitFind
    BY <2>1 DEF InitFind, Spawn, Spawned, AwaitShutDown, Join
  <2>2. ASSUME NEW v \in Worker, Lock(v) \/ Quit(v) \/ MustWait(v) \/ Wait(v)
        PROVE  Kept
    BY <2>2 DEF Lock, Quit, MustWait, Wait
  <2>3. ASSUME NEW v \in Worker, ShutDown(v) \/ WakeAll(v)
        PROVE  Kept
    BY <2>3 DEF ShutDown, WakeAll, Broadcast
  <2>4. ASSUME NEW t \in Thread, SpuriousWakeup(t) PROVE Kept
    BY <2>4 DEF SpuriousWakeup
  <2> QED
    BY <2>1, <2>2, <2>3, <2>4 DEF Idle, Ended, vars
<1>3. Busy' = Busy
  BY <1>2 DEF Kept, Busy, Holding, Reading
<1> QED
  BY <1>1, <1>2, <1>3 DEF Open, Queued

\* A worker that reads on keeps its directory.
LEMMA ReadStep ==
  ASSUME TypeOK, NEW w \in Worker,
         \/ OpenDir(w) \/ LoadCount(w) \/ StoreCount(w)
         \/ \E e \in Entry : ReadEntry(w, e)
  PROVE  Busy' = Busy /\ Open' = Open
<1>1. pc[w] \in Holding /\ pc'[w] \in Holding
  BY DEF OpenDir, LoadCount, StoreCount, ReadEntry, TypeOK, Thread, Holding, Reading
<1>2. \A v \in Worker \ {w} : pc'[v] = pc[v]
  BY DEF OpenDir, LoadCount, StoreCount, ReadEntry, TypeOK, Thread
<1>3. UNCHANGED <<queue, task>>
  BY DEF OpenDir, LoadCount, StoreCount, ReadEntry
<1>4. Busy' = Busy
  BY <1>1, <1>2 DEF Busy, Holding
<1> QED
  BY <1>3, <1>4 DEF Open, Queued

LEMMA EnqueueStep ==
  ASSUME TypeOK, NEW w \in Worker, Enqueue(w)
  PROVE  /\ Busy' = Busy
         /\ Queued' = Queued \cup {item[w]}
         /\ Open' = Open \cup {item[w]}
         /\ \A v \in Worker \ {w} : pc[v] \in Holding \/ pc'[v] \in Holding => pc'[v] = pc[v]
         /\ pc'[w] = IF Lists(task[w], item[w][Len(item[w])]) THEN "load" ELSE "read"
<1> DEFINE s == IF Lists(task[w], item[w][Len(item[w])]) THEN "load" ELSE "read"
<1>1. pc' \in Signalled([pc EXCEPT ![w] = s]) /\ s \in Reading
  BY DEF Enqueue, Reading
<1> HIDE DEF s
<1>2. \A t \in Thread : pc'[t] = [pc EXCEPT ![w] = s][t] \/ (pc[t] = "asleep" /\ pc'[t] = "lock")
  BY <1>1, SignalledType
<1>3. \A v \in Worker \ {w} : pc[v] \in Holding \/ pc'[v] \in Holding => pc'[v] = pc[v]
  BY <1>2 DEF TypeOK, Thread, Holding, Reading
<1>4. pc[w] = "enqueue" /\ pc'[w] = s
  BY <1>2 DEF TypeOK, Thread, Enqueue
<1>5. Busy' = Busy
  BY <1>1, <1>3, <1>4 DEF Busy, Holding, Reading
<1>6. Queued' = Queued \cup {item[w]}
  BY DEF TypeOK, Enqueue, Queued
<1> QED
  BY <1>3, <1>4, <1>5, <1>6 DEF Open, Enqueue, s

LEMMA TakeStep ==
  ASSUME TypeOK, NEW w \in Worker, Take(w)
  PROVE  /\ w \notin Busy
         /\ Busy' = Busy \cup {w}
         /\ Head(queue) \in Queued
         /\ task'[w] = Head(queue)
         /\ Queued = Queued' \cup {Head(queue)}
         /\ Open' = Open
         /\ \A v \in Worker \ {w} : pc'[v] = pc[v] /\ task'[v] = task[v]
<1>1. queue \in Seq(Path) /\ queue # <<>> /\ queue' = Tail(queue)
  BY DEF TypeOK, Take
<1>2. task'[w] = Head(queue) /\ pc[w] = "test" /\ pc'[w] = "open"
  BY DEF TypeOK, Take, Thread
<1>3. \A v \in Worker \ {w} : pc'[v] = pc[v] /\ task'[v] = task[v]
  BY DEF TypeOK, Take, Thread
<1>4. w \notin Busy /\ Busy' = Busy \cup {w}
  BY <1>2, <1>3 DEF Busy, Reading
<1>5. Queued = Queued' \cup {Head(queue)}
  <2>1. Queued' \subseteq Queued
    BY <1>1 DEF Queued
  <2>2. ASSUME NEW i \in 1..Len(queue), i # 1 PROVE queue[i] \in Queued'
    <3>1. i - 1 \in 1..Len(queue') /\ queue'[i - 1] = queue[i]
      BY <1>1, <2>2
    <3> QED
      BY <3>1 DEF Queued
  <2>3. queue[1] = Head(queue) /\ 1 \in 1..Len(queue)
    BY <1>1
  <2> QED
    BY <2>1, <2>2, <2>3 DEF Queued
<1>6. {task'[v] : v \in Busy'} = {task[v] : v \in Busy} \cup {Head(queue)}
  <2>1. Busy \subseteq Worker \ {w}
    BY <1>4 DEF Busy
  <2>2. \A v \in Busy : task'[v] = task[v]
    BY <1>3, <2>1
  <2> QED
    BY <1>2, <1>4, <2>2
<1>7. Open' = Open
  BY <1>5, <1>6 DEF Open
<1>8. Head(queue) \in Queued
  BY <1>5
<1> QED
  BY <1>2, <1>3, <1>4, <1>5, <1>7, <1>8

LEMMA ReleaseStep ==
  ASSUME TypeOK, ReadOnce, NEW w \in Worker, pc[w] \in Holding, UNCHANGED queue,
         NEW next \in {"lock", "broadcast"}, Release(w, next)
  PROVE  /\ w \in Busy
         /\ Busy' = Busy \ {w}
         /\ Open' = Open \ {task[w]}
         /\ task[w] \in Open
         /\ \A v \in Worker \ {w} : pc'[v] = pc[v] /\ task'[v] = task[v]
<1>1. \A v \in Worker \ {w} : pc'[v] = pc[v] /\ task'[v] = task[v]
  BY DEF TypeOK, Release, Thread
<1>2. pc'[w] = next
  BY DEF TypeOK, Release, Thread
<1>3. w \in Busy /\ Busy' = Busy \ {w}
  BY <1>1, <1>2 DEF Busy, Holding, Reading
<1>4. {task'[v] : v \in Busy'} = {task[v] : v \in Busy} \ {task[w]}
  BY <1>1, <1>3 DEF ReadOnce, Busy
<1>5. Queued' = Queued /\ task[w] \notin Queued
  BY <1>3 DEF Queued, ReadOnce
<1> QED
  BY <1>1, <1>3, <1>4, <1>5 DEF Open

-----------------------------------------------------------------------------
(* The count of active tasks. *)

LEMMA NextActive == TypeOK /\ ActiveCount /\ ReadOnce /\ [Next]_vars => ActiveCount'
<1> SUFFICES ASSUME TypeOK, ActiveCount, ReadOnce, [Next]_vars PROVE ActiveCount'
  OBVIOUS
<1>1. CASE Idle
  BY <1>1, IdleStep DEF ActiveCount
<1>2. ASSUME NEW w \in Worker,
             \/ OpenDir(w) \/ LoadCount(w) \/ StoreCount(w)
             \/ \E e \in Entry : ReadEntry(w, e)
      PROVE  ActiveCount'
  <2>1. active_tasks' = active_tasks
    BY <1>2 DEF OpenDir, LoadCount, StoreCount, ReadEntry
  <2> QED
    BY <1>2, <2>1, ReadStep DEF ActiveCount
<1>3. ASSUME NEW w \in Worker, Enqueue(w) PROVE ActiveCount'
  BY <1>3, EnqueueStep DEF ActiveCount, Enqueue
<1>4. ASSUME NEW w \in Worker, Take(w) PROVE ActiveCount'
  BY <1>4, TakeStep, BusyIsFinite, FS_AddElement DEF ActiveCount, Take
<1>5. ASSUME NEW w \in Worker, OpenFails(w) \/ CloseDir(w) PROVE ActiveCount'
  <2>1. PICK next \in {"lock", "broadcast"} : Release(w, next)
    BY <1>5 DEF OpenFails, CloseDir
  <2>2. pc[w] \in Holding /\ UNCHANGED queue
    BY <1>5 DEF OpenFails, CloseDir, Holding, Reading
  <2>3. w \in Busy /\ Busy' = Busy \ {w}
    BY <2>1, <2>2, ReleaseStep
  <2>4. active_tasks' = active_tasks - 1
    BY <2>1 DEF Release
  <2> QED
    BY <2>3, <2>4, BusyIsFinite, FS_RemoveElement DEF ActiveCount
<1> QED
  BY <1>1, <1>2, <1>3, <1>4, <1>5 DEF Next, Finder, Dequeue, Idle

\* shut_down is set only when nobody holds a directory, and from then on nobody
\* can queue one.
LEMMA NextShutDown ==
  TypeOK /\ ActiveCount /\ ReadOnce /\ NoEarlyShutDown /\ [Next]_vars => NoEarlyShutDown'
<1> SUFFICES ASSUME TypeOK, ActiveCount, ReadOnce, NoEarlyShutDown, [Next]_vars
             PROVE  NoEarlyShutDown'
  OBVIOUS
<1>1. ASSUME NEW w \in Worker, ShutDown(w) PROVE NoEarlyShutDown'
  <2>1. Busy = {}
    BY <1>1, BusyIsFinite, FS_EmptySet DEF ActiveCount, ShutDown
  <2>2. Open = {}
    BY <1>1, <2>1 DEF Open, Queued, ShutDown
  <2> QED
    BY <1>1, <2>2, IdleStep DEF Idle, NoEarlyShutDown
<1>2. CASE Idle /\ UNCHANGED shut_down
  BY <1>2, IdleStep DEF NoEarlyShutDown
<1>3. ASSUME NEW w \in Worker,
             \/ OpenDir(w) \/ LoadCount(w) \/ StoreCount(w)
             \/ \E e \in Entry : ReadEntry(w, e)
      PROVE  NoEarlyShutDown'
  <2>1. shut_down' = shut_down
    BY <1>3 DEF OpenDir, LoadCount, StoreCount, ReadEntry
  <2> QED
    BY <1>3, <2>1, ReadStep DEF NoEarlyShutDown
<1>4. ASSUME NEW w \in Worker, Enqueue(w) PROVE NoEarlyShutDown'
  <2>1. task[w] \in Open
    BY <1>4 DEF Enqueue, Open, Busy, Reading
  <2> QED
    BY <1>4, <2>1 DEF NoEarlyShutDown, Enqueue
<1>5. ASSUME NEW w \in Worker, Take(w) PROVE NoEarlyShutDown'
  BY <1>5, TakeStep DEF NoEarlyShutDown, Take
<1>6. ASSUME NEW w \in Worker, OpenFails(w) \/ CloseDir(w) PROVE NoEarlyShutDown'
  <2>1. PICK next \in {"lock", "broadcast"} : Release(w, next)
    BY <1>6 DEF OpenFails, CloseDir
  <2>2. pc[w] \in Holding /\ UNCHANGED <<queue, shut_down>>
    BY <1>6 DEF OpenFails, CloseDir, Holding, Reading
  <2> QED
    BY <2>1, <2>2, ReleaseStep DEF NoEarlyShutDown
<1>7. Idle => UNCHANGED shut_down \/ \E w \in Worker : ShutDown(w)
  BY DEF Idle, InitFind, Spawn, Spawned, AwaitShutDown, Join, Lock, Quit,
         MustWait, Wait, WakeAll, SpuriousWakeup, Ended, vars
<1> QED
  BY <1>1, <1>2, <1>3, <1>4, <1>5, <1>6, <1>7 DEF Next, Finder, Dequeue, Idle

-----------------------------------------------------------------------------
(* No directory is read twice. *)

\* The entry in hand is new: nobody queued it and nobody listed it.
LEMMA InHandIsNew ==
  ASSUME TypeOK, ReadOnce, HandInv, OriginInv, NEW w \in Worker
  PROVE  /\ pc[w] = "enqueue" => item[w] \notin Discovered
         /\ pc[w] \in InHand => item[w] \notin found
<1> SUFFICES ASSUME pc[w] \in InHand
             PROVE  /\ pc[w] = "enqueue" => item[w] \notin Discovered
                    /\ item[w] \notin found
  BY DEF InHand
<1>1. PICK e \in EntriesOf(task[w]) \ todo[w] : item[w] = Append(task[w], e)
  BY DEF HandInv, HandOK
<1>2. e \in Entry /\ task[w] \in Path
  BY <1>1 DEF EntriesOf, TypeOK
<1>3. w \in Busy /\ task[w] \notin finished
  BY DEF Busy, InHand, Reading, ReadOnce
<1>4. \A v \in Worker : pc[v] \in Reading /\ task[v] = task[w] => v = w
  BY <1>3 DEF ReadOnce, Busy
<1> QED
  BY <1>1, <1>2, <1>3, <1>4 DEF OriginInv, OriginOK, ReadBy

LEMMA NextReadOnce ==
  TypeOK /\ ReadOnce /\ HandInv /\ OriginInv /\ [Next]_vars => ReadOnce'
<1> SUFFICES ASSUME TypeOK, ReadOnce, HandInv, OriginInv, [Next]_vars PROVE ReadOnce'
  OBVIOUS
<1>1. ASSUME UNCHANGED <<queue, finished, task>>, Busy' = Busy PROVE ReadOnce'
  BY <1>1 DEF ReadOnce, Queued
<1>2. CASE Idle
  BY <1>1, <1>2, IdleStep
<1>3. ASSUME NEW w \in Worker,
             \/ OpenDir(w) \/ LoadCount(w) \/ StoreCount(w)
             \/ \E e \in Entry : ReadEntry(w, e)
      PROVE  ReadOnce'
  <2>1. UNCHANGED <<queue, finished, task>>
    BY <1>3 DEF OpenDir, LoadCount, StoreCount, ReadEntry
  <2> QED
    BY <1>1, <1>3, <2>1, ReadStep
<1>4. ASSUME NEW w \in Worker, Enqueue(w) PROVE ReadOnce'
  <2>1. item[w] \notin Discovered /\ UNCHANGED <<finished, task>>
    BY <1>4, InHandIsNew DEF Enqueue
  <2>2. item[w] \notin Queued /\ item[w] \notin finished /\ \A v \in Busy : task[v] # item[w]
    BY <2>1 DEF Discovered, Open
  <2>3. Busy' = Busy /\ Queued' = Queued \cup {item[w]}
    BY <1>4, EnqueueStep
  <2>4. \A i, j \in 1..Len(queue') : queue'[i] = queue'[j] => i = j
    <3>1. queue' = Append(queue, item[w]) /\ queue \in Seq(Path)
      BY <1>4 DEF Enqueue, TypeOK
    <3>2. \A i \in 1..Len(queue) : queue[i] # item[w]
      BY <2>2 DEF Queued
    <3> QED
      BY <3>1, <3>2 DEF ReadOnce
  <2> QED
    BY <2>1, <2>2, <2>3, <2>4 DEF ReadOnce
<1>5. ASSUME NEW w \in Worker, Take(w) PROVE ReadOnce'
  <2>1. queue \in Seq(Path) /\ queue # <<>> /\ queue' = Tail(queue) /\ finished' = finished
    BY <1>5 DEF Take, TypeOK
  <2>2. \A i, j \in 1..Len(queue') : queue'[i] = queue'[j] => i = j
    <3>1. \A i \in 1..Len(queue') : i + 1 \in 1..Len(queue) /\ queue'[i] = queue[i + 1]
      BY <2>1
    <3> QED
      BY <3>1 DEF ReadOnce
  <2>3. Head(queue) \notin Queued'
    <3>1. \A i \in 1..Len(queue') :
             i + 1 \in 1..Len(queue) /\ queue'[i] = queue[i + 1] /\ i + 1 # 1
      BY <2>1
    <3>2. queue[1] = Head(queue) /\ 1 \in 1..Len(queue)
      BY <2>1
    <3> QED
      BY <3>1, <3>2 DEF ReadOnce, Queued
  <2>4. \A v \in Busy : task[v] # Head(queue)
    BY <1>5, TakeStep DEF ReadOnce
  <2>5. Queued' \cap finished' = {}
    BY <1>5, <2>1, TakeStep DEF ReadOnce
  <2>6. \A v \in Busy' : task'[v] \notin finished' \cup Queued'
    <3>1. ASSUME NEW v \in Busy PROVE task'[v] \notin finished' \cup Queued'
      BY <1>5, <2>1, TakeStep DEF ReadOnce, Busy
    <3>2. task'[w] \notin finished' \cup Queued'
      BY <1>5, <2>1, <2>3, TakeStep DEF ReadOnce
    <3> QED
      BY <1>5, <3>1, <3>2, TakeStep
  <2>7. \A u, v \in Busy' : task'[u] = task'[v] => u = v
    BY <1>5, <2>4, TakeStep DEF ReadOnce, Busy
  <2> QED
    BY <2>2, <2>5, <2>6, <2>7 DEF ReadOnce
<1>6. ASSUME NEW w \in Worker, OpenFails(w) \/ CloseDir(w) PROVE ReadOnce'
  <2>1. PICK next \in {"lock", "broadcast"} : Release(w, next)
    BY <1>6 DEF OpenFails, CloseDir
  <2>2. pc[w] \in Holding /\ UNCHANGED queue
    BY <1>6 DEF OpenFails, CloseDir, Holding, Reading
  <2>3. finished' = finished \cup {task[w]} /\ Queued' = Queued
    BY <2>1, <2>2 DEF Release, Queued
  <2>4. w \in Busy /\ Busy' = Busy \ {w}
        /\ \A v \in Worker \ {w} : pc'[v] = pc[v] /\ task'[v] = task[v]
    BY <2>1, <2>2, ReleaseStep
  <2> QED
    BY <2>2, <2>3, <2>4 DEF ReadOnce, Busy
<1> QED
  BY <1>2, <1>3, <1>4, <1>5, <1>6 DEF Next, Finder, Dequeue, Idle

-----------------------------------------------------------------------------
(* What a step leaves alone. *)

Work(w) ==
    \/ Take(w) \/ OpenFails(w) \/ OpenDir(w) \/ CloseDir(w) \/ Enqueue(w)
    \/ LoadCount(w) \/ StoreCount(w)
    \/ \E e \in Entry : ReadEntry(w, e)

LEMMA StepKinds == [Next]_vars => Idle \/ \E w \in Worker : Work(w)
  BY DEF Next, Finder, Dequeue, Idle, Work

Undisturbed(v) ==
    /\ pc[v] \in Holding \/ pc'[v] \in Holding => pc'[v] = pc[v] /\ task'[v] = task[v]
    /\ todo'[v] = todo[v]
    /\ item'[v] = item[v]

LEMMA IdleUndisturbs ==
  ASSUME TypeOK, Idle, NEW v \in Worker
  PROVE  Undisturbed(v)
  BY IdleStep DEF Undisturbed, Kept

LEMMA WorkUndisturbs ==
  ASSUME TypeOK, NEW w \in Worker, Work(w), NEW v \in Worker \ {w}
  PROVE  Undisturbed(v)
<1>1. CASE Enqueue(w)
  BY <1>1, EnqueueStep DEF Undisturbed, Enqueue
<1>2. CASE ~Enqueue(w)
  BY <1>2 DEF Work, Take, OpenFails, OpenDir, CloseDir, LoadCount, StoreCount,
              ReadEntry, Release, TypeOK, Thread, Undisturbed
<1> QED
  BY <1>1, <1>2

\* Discovered and found only grow.
LEMMA Growth ==
  ASSUME TypeOK, ReadOnce, [Next]_vars
  PROVE  /\ Discovered' = Discovered \/ \E w \in Worker : Enqueue(w) /\ Discovered' = Discovered \cup {item[w]}
         /\ found' = found \/ \E w \in Worker : StoreCount(w)
         /\ Discovered \subseteq Discovered'
         /\ found \subseteq found'
<1>1. CASE Idle
  BY <1>1, IdleStep DEF Discovered
<1>2. ASSUME NEW w \in Worker,
             \/ OpenDir(w) \/ LoadCount(w) \/ StoreCount(w)
             \/ \E e \in Entry : ReadEntry(w, e)
      PROVE  /\ Discovered' = Discovered
             /\ found' = found \/ StoreCount(w)
             /\ found \subseteq found'
  <2>1. finished' = finished /\ (found' = found \/ StoreCount(w)) /\ found \subseteq found'
    BY <1>2 DEF OpenDir, LoadCount, StoreCount, ReadEntry
  <2> QED
    BY <1>2, <2>1, ReadStep DEF Discovered
<1>3. ASSUME NEW w \in Worker, Enqueue(w)
      PROVE  Discovered' = Discovered \cup {item[w]} /\ found' = found
  BY <1>3, EnqueueStep DEF Discovered, Enqueue
<1>4. ASSUME NEW w \in Worker, Take(w) PROVE Discovered' = Discovered /\ found' = found
  BY <1>4, TakeStep DEF Discovered, Take
<1>5. ASSUME NEW w \in Worker, OpenFails(w) \/ CloseDir(w)
      PROVE  Discovered' = Discovered /\ found' = found
  <2>1. PICK next \in {"lock", "broadcast"} : Release(w, next)
    BY <1>5 DEF OpenFails, CloseDir
  <2>2. pc[w] \in Holding /\ UNCHANGED <<queue, found>>
    BY <1>5 DEF OpenFails, CloseDir, Holding, Reading
  <2>3. finished' = finished \cup {task[w]}
    BY <2>1 DEF Release
  <2>4. Open' = Open \ {task[w]} /\ task[w] \in Open
    BY <2>1, <2>2, ReleaseStep
  <2> QED
    BY <2>2, <2>3, <2>4 DEF Discovered
<1> QED
  BY <1>1, <1>2, <1>3, <1>4, <1>5, StepKinds DEF Work

-----------------------------------------------------------------------------
(* The entry in hand and the progress through a directory. *)

LEMMA NextHand ==
  TypeOK /\ ReadOnce /\ HandInv /\ [Next]_vars => HandInv'
<1> SUFFICES ASSUME TypeOK, ReadOnce, HandInv, [Next]_vars, NEW v \in Worker
             PROVE  HandOK(v)'
  BY DEF HandInv
<1> USE DEF Holding, Reading, InHand
<1>1. HandOK(v) /\ Discovered \subseteq Discovered'
  BY Growth DEF HandInv
<1>2. CASE Undisturbed(v)
  BY <1>1, <1>2 DEF HandOK, Undisturbed
<1>3. CASE Take(v) \/ OpenFails(v) \/ CloseDir(v)
  BY <1>3 DEF HandOK, Take, OpenFails, CloseDir, Release, TypeOK, Thread
<1>4. CASE OpenDir(v)
  BY <1>4 DEF HandOK, OpenDir, TypeOK, Thread
<1>5. ASSUME NEW e \in Entry, ReadEntry(v, e) PROVE HandOK(v)'
  <2>1. /\ pc[v] = "read" /\ e \in todo[v] /\ todo'[v] = todo[v] \ {e}
        /\ task'[v] = task[v] /\ item'[v] = Append(task[v], e)
        /\ pc'[v] = IF Descends(task[v], e) THEN "enqueue"
                    ELSE IF Lists(task[v], e) THEN "load" ELSE "read"
    BY <1>5 DEF ReadEntry, TypeOK, Thread
  <2>2. e \in EntriesOf(task[v]) \ todo'[v]
    BY <1>1, <2>1 DEF HandOK
  <2> QED
    BY <1>1, <2>1, <2>2 DEF HandOK
<1>6. CASE Enqueue(v)
  <2>1. /\ pc[v] = "enqueue" /\ UNCHANGED <<task, todo, item>>
        /\ item[v] \in Discovered'
        /\ pc'[v] = IF Lists(task[v], item[v][Len(item[v])]) THEN "load" ELSE "read"
    BY <1>6, EnqueueStep DEF Enqueue, Discovered
  <2>2. PICK e \in EntriesOf(task[v]) \ todo[v] : item[v] = Append(task[v], e)
    BY <1>1, <2>1 DEF HandOK
  <2>3. item[v][Len(item[v])] = e
    BY <2>2, AppendFacts DEF TypeOK, EntriesOf
  <2> QED
    BY <1>1, <2>1, <2>2, <2>3 DEF HandOK
<1>7. CASE LoadCount(v) \/ StoreCount(v)
  BY <1>1, <1>7 DEF HandOK, LoadCount, StoreCount, TypeOK, Thread
<1>8. Undisturbed(v) \/ Work(v)
  BY StepKinds, IdleUndisturbs, WorkUndisturbs
<1> QED
  BY <1>2, <1>3, <1>4, <1>5, <1>6, <1>7, <1>8 DEF Work

LEMMA NextProgress ==
  TypeOK /\ ReadOnce /\ HandInv /\ ProgressInv /\ [Next]_vars => ProgressInv'
<1> SUFFICES ASSUME TypeOK, ReadOnce, HandInv, ProgressInv, [Next]_vars, NEW v \in Worker
             PROVE  ProgressOK(v)'
  BY DEF ProgressInv
<1> USE DEF Holding, Reading, InHand
<1>1. /\ HandOK(v) /\ ProgressOK(v)
      /\ Discovered \subseteq Discovered' /\ found \subseteq found'
  BY Growth DEF HandInv, ProgressInv
<1>2. CASE Undisturbed(v)
  BY <1>1, <1>2 DEF ProgressOK, Undisturbed
<1>3. CASE Take(v) \/ OpenFails(v) \/ CloseDir(v)
  BY <1>3 DEF ProgressOK, Take, OpenFails, CloseDir, Release, TypeOK, Thread
<1>4. CASE OpenDir(v)
  BY <1>4 DEF ProgressOK, OpenDir, TypeOK, Thread
<1>5. ASSUME NEW e \in Entry, ReadEntry(v, e) PROVE ProgressOK(v)'
  <2>1. /\ pc[v] = "read" /\ todo'[v] = todo[v] \ {e}
        /\ task'[v] = task[v] /\ item'[v] = Append(task[v], e)
        /\ pc'[v] = IF Descends(task[v], e) THEN "enqueue"
                    ELSE IF Lists(task[v], e) THEN "load" ELSE "read"
    BY <1>5 DEF ReadEntry, TypeOK, Thread
  <2> QED
    BY <1>1, <2>1 DEF ProgressOK
<1>6. CASE Enqueue(v)
  <2>1. /\ pc[v] = "enqueue" /\ UNCHANGED <<task, todo, item, found>>
        /\ item[v] \in Discovered'
        /\ pc'[v] = IF Lists(task[v], item[v][Len(item[v])]) THEN "load" ELSE "read"
    BY <1>6, EnqueueStep DEF Enqueue, Discovered
  <2>2. ASSUME NEW e \in EntriesOf(task[v]), item[v] = Append(task[v], e)
        PROVE  item[v][Len(item[v])] = e
    BY <2>2, AppendFacts DEF TypeOK, EntriesOf
  <2> QED
    BY <1>1, <2>1, <2>2 DEF ProgressOK
<1>7. CASE LoadCount(v)
  BY <1>1, <1>7 DEF ProgressOK, LoadCount, TypeOK, Thread
<1>8. CASE StoreCount(v)
  BY <1>1, <1>8 DEF ProgressOK, StoreCount, TypeOK, Thread
<1>9. Undisturbed(v) \/ Work(v)
  BY StepKinds, IdleUndisturbs, WorkUndisturbs
<1> QED
  BY <1>2, <1>3, <1>4, <1>5, <1>6, <1>7, <1>8, <1>9 DEF Work

-----------------------------------------------------------------------------
(* Finished directories. *)

LEMMA NextFinished ==
  TypeOK /\ ReadOnce /\ ProgressInv /\ FinishedInv /\ [Next]_vars => FinishedInv'
<1> SUFFICES ASSUME TypeOK, ReadOnce, ProgressInv, FinishedInv, [Next]_vars
             PROVE  FinishedInv'
  OBVIOUS
<1>1. Discovered \subseteq Discovered' /\ found \subseteq found'
  BY Growth
<1>2. CASE finished' = finished
  BY <1>1, <1>2 DEF FinishedInv
<1>3. ASSUME NEW w \in Worker, OpenFails(w) PROVE FinishedInv'
  <2>1. finished' = finished \cup {task[w]} /\ ~Readable(task[w])
    BY <1>3 DEF OpenFails, Release
  <2> QED
    BY <1>1, <2>1 DEF FinishedInv
<1>4. ASSUME NEW w \in Worker, CloseDir(w) PROVE FinishedInv'
  <2>1. /\ finished' = finished \cup {task[w]}
        /\ pc[w] = "read" /\ todo[w] = {}
    BY <1>4 DEF CloseDir, Release
  <2>2. \A e \in EntriesOf(task[w]) :
           /\ Descends(task[w], e) => Append(task[w], e) \in Discovered
           /\ Lists(task[w], e) => Append(task[w], e) \in found
    BY <2>1 DEF ProgressInv, ProgressOK, Reading, InHand
  <2> QED
    BY <1>1, <2>1, <2>2 DEF FinishedInv
<1>5. \/ finished' = finished
      \/ \E w \in Worker : OpenFails(w) \/ CloseDir(w)
  BY StepKinds, IdleStep DEF Work, Take, OpenDir, Enqueue, LoadCount, StoreCount, ReadEntry
<1> QED
  BY <1>2, <1>3, <1>4, <1>5


\* Who has read an entry goes on holding its directory, or finishes it, and once
\* done with the entry does not take it in hand again.
LEMMA ReaderStays ==
  ASSUME TypeOK, ReadOnce, [Next]_vars, NEW p \in Path, NEW e \in Entry,
         NEW w \in Worker, ReadBy(w, p, e)
  PROVE  \/ p \in finished'
         \/ /\ ReadBy(w, p, e)'
            /\ ~(pc[w] = "enqueue" /\ item[w] = Append(p, e))
                  => ~(pc[w] = "enqueue" /\ item[w] = Append(p, e))'
            /\ ~(pc[w] \in InHand /\ item[w] = Append(p, e))
                  => ~(pc[w] \in InHand /\ item[w] = Append(p, e))'
<1> USE DEF Holding, Reading, InHand, ReadBy
<1>1. CASE Undisturbed(w)
  BY <1>1 DEF Undisturbed
<1>2. CASE CloseDir(w)
  BY <1>2 DEF CloseDir, Release
<1>3. ASSUME NEW f \in Entry, ReadEntry(w, f)
      PROVE  ReadBy(w, p, e)' /\ item'[w] # Append(p, e)
  <2>1. f \in todo[w] /\ f # e /\ task'[w] = p /\ todo'[w] = todo[w] \ {f}
        /\ item'[w] = Append(p, f) /\ pc'[w] \in Reading
    BY <1>3 DEF ReadEntry, TypeOK, Thread
  <2> QED
    BY <2>1, AppendInjective
<1>4. CASE Enqueue(w)
  BY <1>4, EnqueueStep DEF Enqueue
<1>5. CASE LoadCount(w) \/ StoreCount(w)
  BY <1>5 DEF LoadCount, StoreCount, TypeOK, Thread
<1>6. Undisturbed(w) \/ Work(w)
  BY StepKinds, IdleUndisturbs, WorkUndisturbs
<1>7. ~Take(w) /\ ~OpenFails(w) /\ ~OpenDir(w)
  BY DEF Take, OpenFails, OpenDir
<1> QED
  BY <1>1, <1>2, <1>3, <1>4, <1>5, <1>6, <1>7 DEF Work

LEMMA NextOrigin ==
  TypeOK /\ ReadOnce /\ HandInv /\ OriginInv /\ [Next]_vars => OriginInv'
<1> SUFFICES ASSUME TypeOK, ReadOnce, HandInv, OriginInv, [Next]_vars,
                    NEW p \in Path, NEW e \in Entry
             PROVE  OriginOK(p, e)'
  BY DEF OriginInv
<1>1. OriginOK(p, e)
  BY DEF OriginInv
<1>2. finished \subseteq finished'
  BY StepKinds, IdleStep DEF Work, Take, OpenFails, OpenDir, CloseDir, Enqueue,
     LoadCount, StoreCount, ReadEntry, Release
\* The entry in hand of a worker determines the directory and the entry.
<1>3. ASSUME NEW w \in Worker, pc[w] \in InHand, item[w] = Append(p, e)
      PROVE  ReadBy(w, p, e)
  <2>1. PICK f \in EntriesOf(task[w]) \ todo[w] : item[w] = Append(task[w], f)
    BY <1>3 DEF HandInv, HandOK
  <2>2. task[w] \in Path /\ f \in Entry /\ Append(task[w], f) = Append(p, e)
    BY <1>3, <2>1 DEF TypeOK, EntriesOf
  <2>3. task[w] = p /\ f = e
    BY <2>2, AppendInjective
  <2> QED
    BY <1>3, <2>1, <2>3 DEF ReadBy, InHand, Reading
<1>4. ASSUME Append(p, e) \in Discovered'
      PROVE  \/ p \in finished'
             \/ \E w \in Worker :
                   ReadBy(w, p, e)' /\ ~(pc'[w] = "enqueue" /\ item'[w] = Append(p, e))
  <2>1. CASE Append(p, e) \in Discovered
    BY <1>1, <1>2, <2>1, ReaderStays DEF OriginOK
  <2>2. CASE Append(p, e) \notin Discovered
    <3>1. PICK w \in Worker : Enqueue(w) /\ item[w] = Append(p, e)
      BY <1>4, <2>2, Growth
    <3>2. ReadBy(w, p, e) /\ pc'[w] \in {"load", "read"}
      BY <1>3, <3>1, EnqueueStep DEF Enqueue, InHand
    <3> QED
      BY <3>2, ReaderStays
  <2> QED
    BY <2>1, <2>2
<1>5. ASSUME Append(p, e) \in found'
      PROVE  \/ p \in finished'
             \/ \E w \in Worker :
                   ReadBy(w, p, e)' /\ ~(pc'[w] \in InHand /\ item'[w] = Append(p, e))
  <2>1. CASE Append(p, e) \in found
    BY <1>1, <1>2, <2>1, ReaderStays DEF OriginOK
  <2>2. CASE Append(p, e) \notin found
    <3>1. PICK w \in Worker : StoreCount(w) /\ item[w] = Append(p, e)
      BY <1>5, <2>2, Growth DEF StoreCount
    <3>2. ReadBy(w, p, e) /\ pc'[w] = "read"
      BY <1>3, <3>1 DEF StoreCount, InHand, TypeOK, Thread
    <3> QED
      BY <3>2, ReaderStays DEF InHand
  <2> QED
    BY <2>1, <2>2
<1> QED
  BY <1>4, <1>5 DEF OriginOK

-----------------------------------------------------------------------------
(* Who sleeps, and who will wake them. *)

\* A worker may wake another one and changes nothing else of it.
LEMMA FinderMoves ==
  ASSUME TypeOK, NEW w \in Worker, Finder(w), NEW v \in Worker \ {w}
  PROVE  pc'[v] = pc[v] \/ (pc[v] = "asleep" /\ pc'[v] = "lock")
<1> USE DEF Thread, TypeOK
<1>1. CASE Lock(w) \/ Take(w) \/ Quit(w) \/ MustWait(w) \/ Wait(w)
  BY <1>1 DEF Lock, Take, Quit, MustWait, Wait
<1>2. CASE ShutDown(w) \/ WakeAll(w)
  BY <1>2 DEF ShutDown, WakeAll, Broadcast
<1>3. CASE OpenFails(w) \/ OpenDir(w) \/ CloseDir(w)
  BY <1>3 DEF OpenFails, OpenDir, CloseDir, Release
<1>4. CASE \/ LoadCount(w) \/ StoreCount(w)
           \/ \E e \in Entry : ReadEntry(w, e)
  BY <1>4 DEF LoadCount, StoreCount, ReadEntry
<1>5. CASE Enqueue(w)
  <2> HIDE DEF TypeOK
  <2>1. PICK s \in Reading : pc' \in Signalled([pc EXCEPT ![w] = s])
    BY <1>5 DEF Enqueue, Reading
  <2>2. pc'[v] = [pc EXCEPT ![w] = s][v] \/ (pc[v] = "asleep" /\ pc'[v] = "lock")
    BY <2>1, SignalledType
  <2> QED
    BY <2>2 DEF TypeOK
<1> QED
  BY <1>1, <1>2, <1>3, <1>4, <1>5 DEF Finder, Dequeue

\* The worker itself goes from one place of finder to the next, and takes and
\* gives back the mutex.
LEMMA FinderSelf ==
  ASSUME TypeOK, MutexHeld, NEW w \in Worker, Finder(w)
  PROVE  \/ /\ pc[w] = "lock" /\ pc'[w] = "test"
            /\ mutex = NoOne /\ mutex' = w
         \/ pc[w] = "test" /\ pc'[w] = "wait" /\ mutex = w /\ mutex' = w
         \/ /\ pc[w] \in {"test", "wait"}
            /\ pc'[w] \in {"open", "done", "asleep"}
            /\ mutex = w /\ mutex' = NoOne
         \/ /\ Stirring(w) /\ pc'[w] \in Holding \cup {"lock", "broadcast"}
            /\ mutex' = mutex
<1> USE DEF Thread, TypeOK
<1>1. CASE Lock(w) \/ Take(w) \/ Quit(w) \/ MustWait(w) \/ Wait(w)
  BY <1>1 DEF Lock, Take, Quit, MustWait, Wait, MutexHeld
<1>2. CASE ShutDown(w) \/ WakeAll(w)
  BY <1>2 DEF ShutDown, WakeAll, Broadcast, MutexHeld, Stirring
<1>3. CASE OpenFails(w) \/ OpenDir(w) \/ CloseDir(w)
  BY <1>3 DEF OpenFails, OpenDir, CloseDir, Release, Stirring, Holding, Reading
<1>4. CASE \/ LoadCount(w) \/ StoreCount(w)
           \/ \E e \in Entry : ReadEntry(w, e)
  BY <1>4 DEF LoadCount, StoreCount, ReadEntry, Stirring, Holding, Reading
<1>5. CASE Enqueue(w)
  <2>1. pc'[w] \in Reading
    BY <1>5, EnqueueStep DEF Reading
  <2> QED
    BY <1>5, <2>1 DEF Enqueue, Stirring, Holding, Reading
<1> QED
  BY <1>1, <1>2, <1>3, <1>4, <1>5 DEF Finder, Dequeue

\* The other steps start a worker or wake one up.
LEMMA OtherMoves ==
  ASSUME TypeOK, NEW v \in Worker,
         \/ InitFind \/ Ended \/ UNCHANGED vars
         \/ \E t \in Thread : SpuriousWakeup(t)
  PROVE  /\ mutex' = mutex
         /\ shut_down' = shut_down
         /\ \/ pc'[v] = pc[v]
            \/ pc[v] \in {"unborn", "asleep"} /\ pc'[v] = "lock"
<1> USE ThreadAssumption DEF Thread, TypeOK
<1>1. CASE InitFind
  BY <1>1 DEF InitFind, Spawn, Spawned, AwaitShutDown, Join
<1>2. CASE \E t \in Thread : SpuriousWakeup(t)
  BY <1>2 DEF SpuriousWakeup
<1> QED
  BY <1>1, <1>2 DEF Ended, vars

LEMMA NextMutex == TypeOK /\ MutexHeld /\ [Next]_vars => MutexHeld'
<1> SUFFICES ASSUME TypeOK, MutexHeld, [Next]_vars, NEW v \in Worker
             PROVE  (pc[v] \in {"test", "wait"} <=> mutex = v)'
  BY DEF MutexHeld
<1>1. ASSUME NEW w \in Worker, Finder(w)
      PROVE  (pc[v] \in {"test", "wait"} <=> mutex = v)'
  <2>1. CASE v = w
    BY <1>1, <2>1, FinderSelf, ThreadAssumption DEF MutexHeld, Stirring, Holding, Reading
  <2>2. CASE v # w
    BY <1>1, <2>2, FinderSelf, FinderMoves, ThreadAssumption DEF MutexHeld
  <2> QED
    BY <2>1, <2>2
<1>2. CASE \/ InitFind \/ Ended \/ UNCHANGED vars
           \/ \E t \in Thread : SpuriousWakeup(t)
  BY <1>2, OtherMoves DEF MutexHeld
<1> QED
  BY <1>1, <1>2 DEF Next

LEMMA NextSleep ==
  TypeOK /\ ActiveCount /\ MutexHeld /\ SleepInv /\ [Next]_vars => SleepInv'
<1> SUFFICES ASSUME TypeOK, ActiveCount, MutexHeld, SleepInv, [Next]_vars, ~shut_down'
             PROVE  /\ \A v \in Worker : pc'[v] # "done"
                    /\ \A v \in Worker : pc'[v] = "wait" =>
                          \E u \in Worker \ {v} : Stirring(u)'
                    /\ \A v \in Worker : pc'[v] = "asleep" =>
                          \E u \in Worker : pc'[u] \notin {"unborn", "asleep", "done"}
  BY DEF SleepInv
<1>1. CASE \/ InitFind \/ Ended \/ UNCHANGED vars
           \/ \E t \in Thread : SpuriousWakeup(t)
  <2>1. \A v \in Worker : \/ pc'[v] = pc[v]
                          \/ pc[v] \in {"unborn", "asleep"} /\ pc'[v] = "lock"
    BY <1>1, OtherMoves
  <2>2. ~shut_down \/ Worker = {}
    BY <1>1, OtherMoves
  <2> QED
    BY <2>1, <2>2 DEF SleepInv, Stirring, Holding, Reading
<1>2. ASSUME NEW w \in Worker, Finder(w)
      PROVE  /\ \A v \in Worker : pc'[v] # "done"
             /\ \A v \in Worker : pc'[v] = "wait" =>
                   \E u \in Worker \ {v} : Stirring(u)'
             /\ \A v \in Worker : pc'[v] = "asleep" =>
                   \E u \in Worker : pc'[u] \notin {"unborn", "asleep", "done"}
  <2>1. ~shut_down /\ ~Quit(w) /\ ~ShutDown(w)
    BY <1>2 DEF Finder, Dequeue, Lock, Take, Quit, ShutDown, MustWait, Wait, OpenFails,
                Release, WakeAll, OpenDir, CloseDir, ReadEntry, Enqueue, LoadCount, StoreCount
  <2>2. /\ \A v \in Worker : pc[v] # "done"
        /\ \A v \in Worker : pc[v] = "wait" => \E u \in Worker \ {v} : Stirring(u)
        /\ \A v \in Worker : pc[v] = "asleep" =>
              \E u \in Worker : pc[u] \notin {"unborn", "asleep", "done"}
    BY <2>1 DEF SleepInv
  <2>3. \A v \in Worker \ {w} : pc'[v] = pc[v] \/ (pc[v] = "asleep" /\ pc'[v] = "lock")
    BY <1>2, FinderMoves
  <2>4. CASE Wait(w)
    <3>1. PICK u \in Worker \ {w} : Stirring(u)
      BY <2>2, <2>4 DEF Wait
    <3>2. pc'[u] = pc[u]
      BY <2>3, <3>1 DEF Stirring, Holding, Reading
    <3>3. pc'[w] = "asleep"
      BY <2>4 DEF Wait, TypeOK, Thread
    <3>4. \A v \in Worker : pc'[v] # "wait"
      BY <2>3, <2>4, <3>3 DEF MutexHeld, Wait
    <3> QED
      BY <2>2, <2>3, <3>1, <3>2, <3>3, <3>4 DEF Stirring, Holding, Reading
  <2>5. CASE MustWait(w)
    <3>1. pc[w] = "test" /\ pc'[w] = "wait" /\ active_tasks # 0
      BY <2>5 DEF MustWait, TypeOK, Thread
    <3>2. Busy # {}
      BY <3>1, FS_EmptySet DEF ActiveCount
    <3>3. PICK u \in Worker \ {w} : pc[u] \in Holding
      BY <3>1, <3>2 DEF Busy, Holding, Reading
    <3>4. Stirring(u)'
      BY <2>3, <3>3 DEF Stirring, Holding, Reading
    <3>5. \A v \in Worker \ {w} : pc'[v] # "wait"
      BY <2>3, <3>1 DEF MutexHeld
    <3> QED
      BY <2>2, <2>3, <3>1, <3>4, <3>5
  <2>6. CASE ~Wait(w) /\ ~MustWait(w)
    <3>1. /\ pc'[w] \in Holding \cup {"lock", "broadcast", "test"}
          /\ pc'[w] = "test" => pc[w] = "lock" /\ mutex = NoOne
      <4>1. CASE Lock(w) \/ Take(w)
        BY <4>1 DEF Lock, Take, TypeOK, Thread, Holding, Reading
      <4>2. CASE ~Lock(w) /\ ~Take(w)
        <5>1. Stirring(w) /\ pc[w] # "wait" /\ pc[w] # "test"
          BY <1>2, <2>1, <2>6, <4>2 DEF Finder, Dequeue, OpenFails, WakeAll, OpenDir, CloseDir,
             ReadEntry, Enqueue, LoadCount, StoreCount, Stirring, Holding, Reading
        <5>2. pc'[w] # "test"
          BY <1>2, <2>1, <2>6, <4>2, EnqueueStep DEF Finder, Dequeue, OpenFails, WakeAll, OpenDir,
             CloseDir, Broadcast, Release, ReadEntry, Enqueue, LoadCount, StoreCount, TypeOK,
             Thread
        <5> QED
          BY <1>2, <5>1, <5>2, FinderSelf
      <4> QED
        BY <4>1, <4>2
    <3>2. ASSUME NEW v \in Worker, pc'[v] = "wait"
          PROVE  \E u \in Worker \ {v} : Stirring(u)'
      <4>1. v # w /\ pc[v] = "wait" /\ mutex = v /\ mutex # NoOne
        BY <2>3, <3>1, <3>2, ThreadAssumption DEF MutexHeld, Holding, Reading
      <4>2. PICK u \in Worker \ {v} : Stirring(u)
        BY <2>2, <4>1
      <4>3. Stirring(u)'
        BY <2>3, <3>1, <4>1, <4>2 DEF Stirring, Holding, Reading
      <4> QED
        BY <4>3
    <3> QED
      BY <2>2, <2>3, <3>1, <3>2 DEF Holding, Reading
  <2> QED
    BY <2>4, <2>5, <2>6
<1> QED
  BY <1>1, <1>2 DEF Next

\* With somebody out of dequeue_dir whenever one sleeps, they never all sleep.
LEMMA SleepIsSafe == SleepInv => SomeoneAwake
  BY DEF SleepInv, SomeoneAwake

-----------------------------------------------------------------------------
(* The invariant holds, and what it gives. *)

LEMMA InitInv == Init => IInv
<1> SUFFICES ASSUME Init PROVE IInv
  OBVIOUS
<1>1. TypeOK
  BY InitType
<1>2. \A w \in Worker : pc[w] = "unborn"
  BY ThreadAssumption DEF Init, Thread
<1>3. Busy = {} /\ Queued = {Root} /\ finished = {} /\ found = {}
  BY <1>2 DEF Init, Busy, Reading, Queued
<1>4. Discovered = {Root}
  BY <1>3 DEF Discovered, Open
<1>5. ActiveCount
  BY <1>3, FS_EmptySet DEF ActiveCount, Init
<1>6. NoEarlyShutDown
  BY DEF NoEarlyShutDown, Init
<1>7. ReadOnce
  BY <1>3 DEF ReadOnce, Init
<1>8. HandInv /\ ProgressInv
  BY <1>2 DEF HandInv, HandOK, ProgressInv, ProgressOK, Reading, InHand
<1>9. FinishedInv
  BY <1>3, <1>4 DEF FinishedInv
<1>10. OriginInv
  BY <1>3, <1>4, AppendFacts DEF OriginInv, OriginOK
<1>11. MutexHeld /\ SleepInv
  BY <1>2, ThreadAssumption DEF MutexHeld, SleepInv, Init
<1> QED
  BY <1>1, <1>5, <1>6, <1>7, <1>8, <1>9, <1>10, <1>11 DEF IInv

LEMMA NextInv == IInv /\ [Next]_vars => IInv'
  BY NextType, NextActive, NextShutDown, NextReadOnce, NextHand, NextProgress,
     NextFinished, NextOrigin, NextMutex, NextSleep DEF IInv

THEOREM Invariance == Spec => []IInv
  BY InitInv, NextInv, PTL DEF Spec

\* The type invariant of the pool; active_tasks is never negative.
THEOREM TypeCorrect == Spec => []TypeOK
  BY Invariance, PTL DEF IInv

\* active_tasks counts exactly the workers that hold a directory.
THEOREM ActiveCorrect == Spec => []ActiveCount
  BY Invariance, PTL DEF IInv

\* The search is never declared over with a directory queued or in hand.
THEOREM ShutDownCorrect == Spec => []NoEarlyShutDown
  BY Invariance, PTL DEF IInv

\* No directory is read twice.
THEOREM ReadOnceCorrect == Spec => []ReadOnce
  BY Invariance, PTL DEF IInv

\* When the search is over, all there was to read was read and all there was to
\* list was listed.
THEOREM CompleteCorrect == Spec => []Complete
<1>1. IInv => Complete
  BY DEF IInv, Complete, NoEarlyShutDown, FinishedInv, Discovered
<1> QED
  BY <1>1, Invariance, PTL

\* As long as the search is on, some finder is awake: the signal of enqueue_dir
\* that the main thread swallows, and a finder that goes to sleep while another
\* counts itself out, leave nobody sleeping for ever.
THEOREM SomeoneAwakeCorrect == Spec => []SomeoneAwake
  BY Invariance, SleepIsSafe, PTL DEF IInv

\* No path is listed twice.
THEOREM ListedOnceCorrect == Spec => ListedOnce
<1>1. IInv => \A w \in Worker : StoreCount(w) => item[w] \notin found
  BY InHandIsNew DEF IInv, StoreCount, InHand
<1> QED
  BY <1>1, Invariance, PTL DEF ListedOnce

-----------------------------------------------------------------------------
(* The pool implements the walk. *)

\* The entry in hand, as the walk sees it.
LEMMA InHandOf ==
  ASSUME IInv, NEW w \in Worker, pc[w] \in InHand
  PROVE  /\ task[w] \in Open
         /\ \E e \in Entry :
               /\ e \in EntriesOf(task[w])
               /\ item[w] = Append(task[w], e)
               /\ pc[w] = "enqueue" => Descends(task[w], e)
               /\ pc[w] # "enqueue" => Lists(task[w], e)
<1>1. HandOK(w)
  BY DEF IInv, HandInv
<1>2. task[w] \in Open
  BY DEF Open, Busy, InHand, Reading
<1> QED
  BY <1>1, <1>2 DEF HandOK, EntriesOf

\* Both modules speak of the same tree.
LEMMA SameTree ==
  ASSUME NEW p
  PROVE  /\ Walk!Root = Root
         /\ Walk!Readable(p) <=> Readable(p)
         /\ Walk!EntriesOf(p) = EntriesOf(p)
         /\ \A e \in Entry : Walk!Descends(p, e) <=> Descends(p, e)
         /\ \A e \in Entry : Walk!Lists(p, e) <=> Lists(p, e)
<1>1. Walk!DirOf(p) = DirOf(p) /\ Walk!History(p) = History(p) /\ Walk!Root = Root
  BY DEF Walk!DirOf, Walk!Root, Walk!History, DirOf, Root, History
<1>2. \A e \in Entry : Walk!AsDir(e) <=> AsDir(e)
  BY DEF Walk!AsDir, AsDir
<1>3. \A e \in Entry : Walk!Descends(p, e) <=> Descends(p, e)
  BY <1>1, <1>2 DEF Walk!Descends, Walk!Cyclic, Walk!TooDeep, Descends, Cyclic, TooDeep
<1>4. \A e \in Entry : Walk!Shown(e) <=> Shown(e)
  BY <1>2 DEF Walk!Shown, Shown
<1> QED
  BY <1>1, <1>2, <1>3, <1>4 DEF Walk!Readable, Readable, Walk!EntriesOf, EntriesOf,
     Walk!Lists, Lists, Walk!StatFails, StatFails

LEMMA WalkStep == IInv /\ [Next]_vars => [Walk!WalkNext]_Walk!walkVars
<1> SUFFICES ASSUME IInv, [Next]_vars, ~UNCHANGED Walk!walkVars PROVE Walk!WalkNext
  OBVIOUS
<1> USE DEF Walk!walkVars
<1>1. TypeOK /\ ReadOnce /\ ActiveCount
  BY DEF IInv
<1>2. ASSUME NEW w \in Worker, ShutDown(w) PROVE Walk!Stop
  <2>1. Busy = {}
    BY <1>1, <1>2, BusyIsFinite, FS_EmptySet DEF ActiveCount, ShutDown
  <2>2. Open = {}
    BY <1>2, <2>1 DEF Open, Queued, ShutDown
  <2>3. Open' = Open
    BY <1>1, <1>2, IdleStep DEF Idle
  <2> QED
    BY <1>2, <2>2, <2>3 DEF Walk!Stop, ShutDown
<1>3. CASE Idle /\ UNCHANGED shut_down
  BY <1>1, <1>3, IdleStep
<1>4. ASSUME NEW w \in Worker, Enqueue(w) PROVE Walk!WalkNext
  <2>1. pc[w] \in InHand /\ pc[w] = "enqueue"
    BY <1>4 DEF Enqueue, InHand
  <2>2. PICK e \in Entry : /\ e \in EntriesOf(task[w])
                           /\ item[w] = Append(task[w], e)
                           /\ Descends(task[w], e)
    BY <2>1, InHandOf
  <2>3. item[w] \notin Open \cup finished
    BY <2>1, InHandIsNew DEF IInv, Discovered
  <2>4. Open' = Open \cup {item[w]} /\ UNCHANGED <<finished, found, shut_down>>
    BY <1>1, <1>4, EnqueueStep DEF Enqueue
  <2>5. Walk!Discover(task[w], e)
    BY <2>2, <2>3, <2>4, SameTree DEF Walk!Discover
  <2> QED
    BY <2>1, <2>5, InHandOf DEF Walk!WalkNext
<1>5. ASSUME NEW w \in Worker, StoreCount(w) PROVE Walk!WalkNext
  <2>1. pc[w] \in InHand /\ pc[w] # "enqueue"
    BY <1>5 DEF StoreCount, InHand
  <2>2. PICK e \in Entry : /\ e \in EntriesOf(task[w])
                           /\ item[w] = Append(task[w], e)
                           /\ Lists(task[w], e)
    BY <2>1, InHandOf
  <2>3. item[w] \notin found
    BY <2>1, InHandIsNew DEF IInv
  <2>4. Open' = Open /\ found' = found \cup {item[w]} /\ UNCHANGED <<finished, shut_down>>
    BY <1>1, <1>5, ReadStep DEF StoreCount
  <2>5. Walk!List(task[w], e)
    BY <2>2, <2>3, <2>4, SameTree DEF Walk!List
  <2> QED
    BY <2>1, <2>5, InHandOf DEF Walk!WalkNext
<1>6. ASSUME NEW w \in Worker, OpenFails(w) \/ CloseDir(w) PROVE Walk!WalkNext
  <2>1. PICK next \in {"lock", "broadcast"} : Release(w, next)
    BY <1>6 DEF OpenFails, CloseDir
  <2>2. pc[w] \in Holding /\ UNCHANGED <<queue, found, shut_down>>
    BY <1>6 DEF OpenFails, CloseDir, Holding, Reading
  <2>3. finished' = finished \cup {task[w]}
    BY <2>1 DEF Release
  <2>4. Open' = Open \ {task[w]} /\ task[w] \in Open
    BY <1>1, <2>1, <2>2, ReleaseStep
  <2>5. Readable(task[w]) =>
           \A e \in EntriesOf(task[w]) :
              /\ Descends(task[w], e) => Append(task[w], e) \in Open \cup finished
              /\ Lists(task[w], e) => Append(task[w], e) \in found
    BY <1>6 DEF OpenFails, CloseDir, IInv, ProgressInv, ProgressOK, Reading, InHand,
                Discovered
  <2>6. Walk!Readable(task[w]) => Walk!Exhausted(task[w])
    BY <2>5, SameTree DEF Walk!Exhausted, EntriesOf
  <2>7. Walk!Close(task[w])
    BY <2>2, <2>3, <2>4, <2>6 DEF Walk!Close
  <2> QED
    BY <2>4, <2>7 DEF Walk!WalkNext
<1>7. ASSUME NEW w \in Worker, Take(w) PROVE FALSE
  BY <1>1, <1>7, TakeStep DEF Take
<1>8. ASSUME NEW w \in Worker,
             OpenDir(w) \/ LoadCount(w) \/ \E e \in Entry : ReadEntry(w, e)
      PROVE  FALSE
  <2>1. UNCHANGED <<finished, found, shut_down>>
    BY <1>8 DEF OpenDir, LoadCount, ReadEntry
  <2> QED
    BY <1>1, <1>8, <2>1, ReadStep
<1>9. Idle => UNCHANGED shut_down \/ \E w \in Worker : ShutDown(w)
  BY DEF Idle, InitFind, Spawn, Spawned, AwaitShutDown, Join, Lock, Quit,
         MustWait, Wait, WakeAll, SpuriousWakeup, Ended, vars
<1> QED
  BY <1>2, <1>3, <1>4, <1>5, <1>6, <1>7, <1>8, <1>9, StepKinds DEF Work, Walk!WalkNext

\* Whatever the number of threads and however they interleave, what the pool does
\* is one of the walks that LfWalk allows.
THEOREM PoolImplementsWalk == Spec => ImplementsWalk
<1>1. Init => Walk!WalkInit
  <2> SUFFICES ASSUME Init PROVE Walk!WalkInit
    OBVIOUS
  <2>1. Busy = {} /\ Queued = {Root}
    BY ThreadAssumption DEF Init, Busy, Reading, Queued, Thread
  <2> QED
    BY <2>1 DEF Init, Open, Walk!WalkInit, Walk!Root, Root
<1> QED
  BY <1>1, WalkStep, Invariance, PTL DEF Spec, ImplementsWalk, Walk!WalkSpec
=============================================================================
