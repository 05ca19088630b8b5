----------------------------- MODULE ProcessProofs -----------------------------
(***************************************************************************)
(* The family tree of processes, the waits of their threads and the known  *)
(* failures of waitpid, for every number of processes and threads.  The    *)
(* invariant adds to the checked properties what the pointers between the  *)
(* structures keep: a thread and its process (Owners), and the two ends of *)
(* a wait for a child (Joins).                                             *)
(***************************************************************************)
EXTENDS Process, KQueueSeqProofs

\* Threads and processes point to each other: a thread to a process that exists, and
\* a process to a main thread of its own; every process but the first has a parent.
Owners ==
    /\ pstat[Main] = "alive" /\ parent[Main] = Null
    /\ \A q \in Proc : pstat[q] = "alive" /\ q # Main => parent[q] \in Proc
    /\ \A p \in Proc : pstat[p] # "none" => main[p] \in Thread /\ owner[main[p]] = p
    /\ \A t \in Thread : st[t] # "NONE" => owner[t] \in Proc /\ pstat[owner[t]] # "none"
    /\ \A t \in Thread : st[t] = "NONE" =>
          owner[t] = Null /\ joining[t] = Null /\ waitsFor[t] = Null

\* A thread in waitpid waits for a child of its process, whose main thread it has
\* joined; a main thread that was joined by a thread since released belongs to an
\* orphan, if it has not exited.
Joins ==
    /\ \A t \in Thread : waitsFor[t] \in Proc =>
          /\ waitsFor[t] \in children[owner[t]] \cup deadChildren[owner[t]]
          /\ joining[main[waitsFor[t]]] = t
    /\ \A u \in Thread : joining[u] \in Thread =>
          /\ st[joining[u]] # "NONE" /\ main[owner[u]] = u
          /\ pstat[owner[u]] = "alive" => parent[owner[u]] = owner[joining[u]]
    /\ \A u \in Thread : joining[u] = Freed =>
          /\ main[owner[u]] = u
          /\ pstat[owner[u]] = "alive" => parent[owner[u]] = Main

\* FutexQueuesLive in other words, next to Owners.
QueuesShape ==
    \A p \in Proc : IsInjective(waitq[p]) /\ (pstat[p] = "none" => waitq[p] = <<>>)
QueuesHold ==
    \A p \in Proc, t \in Thread :
        Contains(waitq[p], t) => owner[t] = p /\ st[t] \in {"WAITING", "ZOMBIE"}
WaitersHeld == \A t \in Thread : st[t] = "WAITING" => Contains(waitq[owner[t]], t)
ExitedDead ==
    \A t \in Thread : st[t] # "NONE" /\ pstat[owner[t]] = "exited" => st[t] = "ZOMBIE"

Queues == QueuesShape /\ QueuesHold /\ WaitersHeld /\ ExitedDead

\* The conjuncts of ProcessTree.
Existing == {p \in Proc : pstat[p] # "none"}
TreeCount == processCount = Cardinality(Existing)
TreeChildren ==
    \A p, q \in Proc : q \in children[p] <=> (q # Main /\ pstat[q] = "alive" /\ parent[q] = p)
TreeParents ==
    \A p, q \in Proc : q \in children[p] \cup deadChildren[p] => pstat[p] # "none"
TreeDead ==
    \A p, q \in Proc : q \in deadChildren[p] => pstat[q] = "exited" /\ parent[q] = p
TreeAlive ==
    \A q \in Proc : pstat[q] = "alive" /\ q # Main => pstat[parent[q]] # "none"

Tree == TreeCount /\ TreeChildren /\ TreeParents /\ TreeDead /\ TreeAlive

ProcessInv ==
    TypeOK /\ Tree /\ Owners /\ Queues /\ WaitersServed /\ Joins

USE DEF States, Queues, Tree

\* The pointers between processes, and those of a wait, stand in a step that changes
\* but the states of threads, as long as threads keep their process and exist.
LEMMA LocalKeeps ==
    ASSUME ProcessInv,
           UNCHANGED <<pstat, parent, children, deadChildren, main, processCount,
                       joining, waitsFor>>,
           owner' \in [Thread -> Proc \cup {Null}],
           \A u \in Thread : st[u] # "NONE" => owner'[u] = owner[u] /\ st'[u] # "NONE",
           \A u \in Thread : st'[u] = "NONE" => owner'[u] = owner[u],
           \A u \in Thread : st'[u] # "NONE" => owner'[u] \in Proc /\ pstat[owner'[u]] # "none"
    PROVE  Tree' /\ Owners' /\ Joins'
<1> USE ProcessAssumption DEF ProcessInv
<1>1. Tree' BY DEF Existing, TreeCount, TreeChildren, TreeParents, TreeDead, TreeAlive
<1>2. Owners' BY DEF TypeOK, Owners
<1>3. \A u \in Thread : joining[u] # Null \/ waitsFor[u] # Null => owner'[u] = owner[u]
  BY DEF Owners
<1>4. Joins' BY <1>3 DEF TypeOK, Owners, Joins
<1> QED BY <1>1, <1>2, <1>4

\* Threads that sleep in waitpid are served in a step after which no thread is newly
\* a zombie and none newly sleeps.
LEMMA LocalServed ==
    ASSUME ProcessInv, UNCHANGED <<pstat, main, joining, waitsFor>>,
           st' \in [Thread -> States],
           \A u \in Thread : st'[u] = "JOINING" => st[u] = "JOINING",
           \A u \in Thread : st'[u] = "ZOMBIE" =>
              \/ st[u] = "ZOMBIE"
              \/ joining[u] \in Thread => st'[joining[u]] # "JOINING"
    PROVE  WaitersServed'
<1> USE ProcessAssumption DEF ProcessInv
<1> SUFFICES ASSUME NEW t \in Thread, waitsFor[t] \in Proc, st'[t] = "JOINING"
             PROVE  /\ joining[main[waitsFor[t]]] = t
                    /\ pstat[waitsFor[t]] = "alive" /\ st'[main[waitsFor[t]]] # "ZOMBIE"
  BY DEF WaitersServed
<1>1. /\ joining[main[waitsFor[t]]] = t
      /\ pstat[waitsFor[t]] = "alive" /\ st[main[waitsFor[t]]] # "ZOMBIE"
  BY DEF WaitersServed
<1>2. main[waitsFor[t]] \in Thread BY <1>1 DEF Owners
<1> QED BY <1>1, <1>2

\* A thread that runs belongs to a process that lives.
LEMMA CallerLives ==
    ASSUME ProcessInv, NEW t \in Thread, st[t] = "READY"
    PROVE  owner[t] \in Proc /\ pstat[owner[t]] = "alive" /\ t \in ThreadsOf(owner[t])
BY DEF ProcessInv, Owners, ExitedDead, ThreadsOf, TypeOK

\* Steps of a thread on its own, and the creation of a thread.
LEMMA LocalStep ==
    ASSUME ProcessInv, NEW t \in Thread,
           \/ Sleep(t) \/ WakeUp(t)
           \/ \E u \in Thread : CreateThread(t, u)
    PROVE  ProcessInv'
<1> USE ProcessAssumption DEF ProcessInv
<1>1. TypeOK' BY ZenonT(40) DEF TypeOK, Sleep, WakeUp, CreateThread
<1>2. Tree' /\ Owners' /\ Joins'
  <2>1. CASE Sleep(t) \/ WakeUp(t)
    BY <1>1, <2>1, LocalKeeps DEF TypeOK, Owners, Sleep, WakeUp, Calls
  <2>2. ASSUME NEW u \in Thread, CreateThread(t, u) PROVE Tree' /\ Owners' /\ Joins'
    <3>1. owner[t] \in Proc /\ pstat[owner[t]] # "none"
      BY <2>2, CallerLives DEF CreateThread, Calls
    <3> QED BY <1>1, <2>2, <3>1, LocalKeeps DEF TypeOK, Owners, CreateThread
  <2> QED BY <2>1, <2>2
<1>3. Queues'
  <2>1. CASE Sleep(t) \/ WakeUp(t)
    <3>1. /\ UNCHANGED <<pstat, waitq, owner>> /\ st[t] \in {"READY", "SLEEPING"}
          /\ st'[t] \in {"READY", "SLEEPING"} /\ \A x \in Thread \ {t} : st'[x] = st[x]
      BY <2>1 DEF Sleep, WakeUp, Calls, TypeOK
    <3> QED BY <3>1 DEF QueuesShape, QueuesHold, WaitersHeld, ExitedDead
  <2>2. ASSUME NEW u \in Thread, CreateThread(t, u) PROVE Queues'
    <3>1. owner[t] \in Proc /\ pstat[owner[t]] = "alive"
      BY <2>2, CallerLives DEF CreateThread, Calls
    <3>2. /\ UNCHANGED <<pstat, waitq>> /\ st[u] = "NONE"
          /\ st'[u] = "READY" /\ owner'[u] = owner[t]
          /\ \A x \in Thread \ {u} : st'[x] = st[x] /\ owner'[x] = owner[x]
      BY <2>2 DEF CreateThread, TypeOK
    <3>3. \A q \in Proc : ~Contains(waitq[q], u) BY <3>2 DEF QueuesHold
    <3>4. QueuesShape' BY <3>2 DEF QueuesShape
    <3>5. QueuesHold' BY <3>2, <3>3 DEF QueuesHold
    <3>6. WaitersHeld' BY <3>2 DEF WaitersHeld
    <3>7. ExitedDead' BY <3>1, <3>2 DEF ExitedDead
    <3> QED BY <3>4, <3>5, <3>6, <3>7
  <2> QED BY <2>1, <2>2
<1>4. WaitersServed'
  BY <1>1, LocalServed DEF TypeOK, Sleep, WakeUp, CreateThread, Calls
<1> QED BY <1>1, <1>2, <1>3, <1>4

\* A thread that waits enters the queue of its process, and a wake takes its head.
LEMMA FutexStep ==
    ASSUME ProcessInv, NEW t \in Thread, FutexWait(t) \/ FutexWake(t)
    PROVE  ProcessInv'
<1> USE ProcessAssumption DEF ProcessInv
<1> DEFINE p == owner[t]
<1>1. /\ p \in Proc /\ pstat[p] = "alive" /\ st[t] = "READY" /\ p = owner[t]
      /\ waitq[p] \in Seq(Thread) /\ IsInjective(waitq[p])
  BY CallerLives DEF FutexWait, FutexWake, Calls, TypeOK, QueuesShape
<1> HIDE DEF p
<1>2. CASE FutexWait(t)
  <2>1. PICK q : q = Push(waitq[p], t) OBVIOUS
  <2>2. ~Contains(waitq[p], t) BY <1>1 DEF QueuesHold
  <2>3. /\ q \in Seq(Thread) /\ IsInjective(q)
        /\ \A x : Contains(q, x) <=> (x = t \/ Contains(waitq[p], x))
    BY <1>1, <2>1, <2>2, PushProperties, SMTT(30)
  <2>4. waitq' = [waitq EXCEPT ![p] = q] /\ st' = [st EXCEPT ![t] = "WAITING"]
    BY <1>1, <1>2, <2>1 DEF FutexWait
  <2>5. TypeOK'
    <3>1. waitq' \in [Proc -> Seq(Thread)] /\ st' \in [Thread -> States]
      BY <2>3, <2>4 DEF TypeOK
    <3> QED BY <1>2, <3>1 DEF TypeOK, FutexWait
  <2>6. Tree' /\ Owners' /\ Joins'
    BY <1>2, <2>5, LocalKeeps DEF TypeOK, Owners, FutexWait, Calls
  <2>7. Queues'
    BY <1>1, <1>2, <2>3, <2>4 DEF TypeOK, Owners, QueuesShape, QueuesHold, WaitersHeld, ExitedDead, FutexWait
  <2>8. WaitersServed' BY <1>2, <2>5, LocalServed DEF TypeOK, FutexWait
  <2> QED BY <2>5, <2>6, <2>7, <2>8
<1>3. CASE FutexWake(t)
  <2>1. PICK q : q = Tail(waitq[p]) OBVIOUS
  <2>2. PICK h : h = Head(waitq[p]) OBVIOUS
  <2>3. /\ h \in Thread /\ q \in Seq(Thread) /\ IsInjective(q)
        /\ \A x : Contains(q, x) <=> (x # h /\ Contains(waitq[p], x))
        /\ Contains(waitq[p], h)
    <3>1. waitq[p] # <<>> BY <1>1, <1>3 DEF FutexWake
    <3> QED BY <1>1, <2>1, <2>2, <3>1, TailQueue
  <2>4. waitq' = [waitq EXCEPT ![p] = q] /\ st' = [st EXCEPT ![h] = "READY"]
    BY <1>1, <1>3, <2>1, <2>2 DEF FutexWake
  <2>5. owner[h] = p /\ st[h] \in {"WAITING", "ZOMBIE"} BY <1>1, <2>3 DEF QueuesHold
  <2>6. TypeOK'
    <3>1. waitq' \in [Proc -> Seq(Thread)] /\ st' \in [Thread -> States]
      BY <2>3, <2>4 DEF TypeOK
    <3> QED BY <1>3, <3>1 DEF TypeOK, FutexWake
  <2>7. Tree' /\ Owners' /\ Joins'
    <3>1. /\ UNCHANGED <<pstat, parent, children, deadChildren, main, processCount,
                         joining, waitsFor, owner>>
          /\ st'[h] = "READY" /\ st[h] # "NONE" /\ \A x \in Thread \ {h} : st'[x] = st[x]
      BY <1>3, <2>3, <2>4, <2>5 DEF FutexWake, TypeOK
    <3>2. \A x \in Thread : st'[x] # "NONE" => owner[x] \in Proc /\ pstat[owner[x]] # "none"
      BY <3>1 DEF Owners
    <3> QED BY <3>1, <3>2, LocalKeeps DEF TypeOK
  <2>8. Queues'
    <3>1. /\ UNCHANGED <<pstat, owner>> /\ waitq'[p] = q
          /\ \A r \in Proc \ {p} : waitq'[r] = waitq[r]
          /\ st'[h] = "READY" /\ \A x \in Thread \ {h} : st'[x] = st[x]
      BY <1>1, <1>3, <2>3, <2>4 DEF FutexWake, TypeOK
    <3>2. \A r \in Proc : ~Contains(waitq'[r], h) BY <2>3, <2>5, <3>1 DEF QueuesHold
    <3>3. QueuesShape' BY <1>1, <2>3, <3>1 DEF QueuesShape
    <3>4. QueuesHold' BY <1>1, <2>3, <3>1, <3>2 DEF QueuesHold
    <3>5. WaitersHeld'
      <4> SUFFICES ASSUME NEW x \in Thread, st'[x] = "WAITING" PROVE Contains(waitq'[owner[x]], x)
        BY <3>1 DEF WaitersHeld
      <4>1. x # h /\ st[x] = "WAITING" /\ owner[x] \in Proc BY <3>1 DEF Owners
      <4> QED BY <2>3, <3>1, <4>1 DEF WaitersHeld
    <3>6. ExitedDead' BY <1>1, <2>5, <3>1 DEF ExitedDead
    <3> QED BY <3>3, <3>4, <3>5, <3>6
  <2>9. WaitersServed' BY <1>3, <2>4, <2>6, LocalServed DEF TypeOK, FutexWake
  <2> QED BY <2>6, <2>7, <2>8, <2>9
<1> QED BY <1>2, <1>3

\* The end of a thread: it wakes the thread that joined it.
LEMMA ThreadExitStep ==
    ASSUME ProcessInv, NEW t \in Thread, ThreadExit(t), joining[t] # Freed
    PROVE  ProcessInv'
<1> USE ProcessAssumption DEF ProcessInv
<1> PICK J : J = Woken(t, st) OBVIOUS
<1>1. /\ UNCHANGED <<pstat, parent, children, deadChildren, main, processCount,
                     joining, waitsFor, waitq, owner, fail>>
      /\ st[t] = "READY" /\ st'[t] = "ZOMBIE" /\ t \notin J
      /\ \A x \in Thread \ {t} : st'[x] = IF x \in J THEN "READY" ELSE st[x]
      /\ \A x \in J : st[x] = "JOINING"
      /\ joining[t] \in Thread /\ st[joining[t]] = "JOINING" => joining[t] \in J
      /\ st' \in [Thread -> States]
  BY DEF ThreadExit, Calls, Wake, Woken, TypeOK
<1>2. TypeOK' BY <1>1 DEF TypeOK
<1>3. Tree' /\ Owners' /\ Joins'
  <2>1. \A x \in Thread : st'[x] = "NONE" <=> st[x] = "NONE" BY <1>1
  <2>2. \A x \in Thread : st'[x] # "NONE" => owner[x] \in Proc /\ pstat[owner[x]] # "none"
    BY <2>1 DEF Owners
  <2> QED BY <1>1, <2>1, <2>2, LocalKeeps DEF TypeOK
<1>4. Queues'
  <2>1. \A p \in Proc, x \in Thread : Contains(waitq[p], x) => x # t /\ x \notin J
    BY <1>1 DEF QueuesHold
  <2>2. QueuesShape' BY <1>1 DEF QueuesShape
  <2>3. QueuesHold' BY <1>1, <2>1 DEF QueuesHold
  <2>4. WaitersHeld' BY <1>1 DEF WaitersHeld
  <2>5. ExitedDead' BY <1>1 DEF ExitedDead
  <2> QED BY <2>2, <2>3, <2>4, <2>5
<1>5. WaitersServed'
  <2>1. \A u \in Thread : st'[u] = "JOINING" => st[u] = "JOINING" BY <1>1
  <2>2. \A u \in Thread : st'[u] = "ZOMBIE" => st[u] = "ZOMBIE" \/ u = t BY <1>1
  <2>3. joining[t] \in Thread => st'[joining[t]] # "JOINING" BY <1>1
  <2> QED BY <1>1, <2>1, <2>2, <2>3, LocalServed
<1> QED BY <1>2, <1>3, <1>4, <1>5

\* A fork makes a process that nothing points to yet but its parent.
LEMMA ForkStep ==
    ASSUME ProcessInv, NEW t \in Thread, NEW q \in Proc, NEW u \in Thread, Fork(t, q, u)
    PROVE  ProcessInv'
<1> USE ProcessAssumption DEF ProcessInv
<1> PICK p : p = owner[t] OBVIOUS
<1>1. p \in Proc /\ pstat[p] = "alive" BY CallerLives DEF Fork, Calls
<1>2. /\ pstat[q] = "none" /\ st[u] = "NONE" /\ q # p /\ q # Main
      /\ pstat'[q] = "alive" /\ \A r \in Proc \ {q} : pstat'[r] = pstat[r]
      /\ parent'[q] = p /\ \A r \in Proc \ {q} : parent'[r] = parent[r]
      /\ children'[p] = children[p] \cup {q}
      /\ \A r \in Proc \ {p} : children'[r] = children[r]
      /\ main'[q] = u /\ \A r \in Proc \ {q} : main'[r] = main[r]
      /\ processCount' = processCount + 1
      /\ st'[u] = "READY" /\ \A x \in Thread \ {u} : st'[x] = st[x]
      /\ owner'[u] = q /\ \A x \in Thread \ {u} : owner'[x] = owner[x]
      /\ UNCHANGED <<deadChildren, joining, waitsFor, waitq, fail>>
  BY <1>1 DEF Fork, TypeOK, Owners
<1>3. TypeOK' BY <1>1 DEF TypeOK, Fork
<1>4. Tree'
  <2>1. TreeCount'
    <3>1. Existing' = Existing \cup {q} /\ q \notin Existing BY <1>2 DEF Existing
    <3>2. IsFiniteSet(Existing) BY FS_Subset DEF Existing
    <3>3. Cardinality(Existing') = Cardinality(Existing) + 1 BY <3>1, <3>2, FS_AddElement
    <3> QED BY <1>2, <3>3 DEF TreeCount
  <2>2. \A r \in Proc : q \notin children[r] /\ q \notin deadChildren[r]
    BY <1>2 DEF TreeChildren, TreeDead
  <2>3. \A r \in Proc : pstat[r] = "alive" /\ r # Main => parent[r] # q
    BY <1>2 DEF TreeAlive
  <2>4. TreeChildren' BY <1>1, <1>2, <2>3 DEF TreeChildren
  <2>5. TreeParents' BY <1>1, <1>2, <2>2 DEF TreeParents
  <2>6. TreeDead' BY <1>2, <2>2 DEF TreeDead
  <2>7. TreeAlive' BY <1>1, <1>2, <2>3 DEF TreeAlive, Owners
  <2> QED BY <2>1, <2>4, <2>5, <2>6, <2>7
<1>5. \A x \in Thread : owner[x] # q /\ (st[x] # "NONE" => x # u)
  BY <1>2 DEF Owners
<1>6. \A r \in Proc : pstat[r] # "none" => main[r] \in Thread /\ main[r] # u /\ r # q
  BY <1>1, <1>2 DEF Owners
<1>7. Owners'
  <2>1. /\ pstat'[Main] = "alive" /\ parent'[Main] = Null
        /\ \A r \in Proc : pstat'[r] = "alive" /\ r # Main => parent'[r] \in Proc
    BY <1>1, <1>2 DEF Owners
  <2>2. \A r \in Proc : pstat'[r] # "none" => main'[r] \in Thread /\ owner'[main'[r]] = r
    BY <1>2, <1>6 DEF Owners
  <2>3. \A x \in Thread : st'[x] # "NONE" => owner'[x] \in Proc /\ pstat'[owner'[x]] # "none"
    BY <1>2, <1>5 DEF Owners
  <2>4. \A x \in Thread : st'[x] = "NONE" =>
          owner'[x] = Null /\ joining'[x] = Null /\ waitsFor'[x] = Null
    BY <1>2 DEF Owners
  <2> QED BY <2>1, <2>2, <2>3, <2>4 DEF Owners
<1>8. Queues'
  <2>1. \A r \in Proc : ~Contains(waitq[r], u) BY <1>2 DEF QueuesHold
  <2>2. QueuesShape' BY <1>2 DEF QueuesShape
  <2>3. QueuesHold' BY <1>2, <2>1 DEF QueuesHold
  <2>4. WaitersHeld' BY <1>2 DEF WaitersHeld
  <2>5. ExitedDead' BY <1>2, <1>5 DEF ExitedDead, Owners
  <2> QED BY <2>2, <2>3, <2>4, <2>5
<1>9. WaitersServed' BY <1>2, <1>6 DEF WaitersServed
<1>10. joining[u] = Null /\ waitsFor[u] = Null BY <1>2 DEF Owners
<1>11. Joins'
  <2>1. ASSUME NEW x \in Thread, waitsFor[x] \in Proc
        PROVE  /\ waitsFor[x] \in children'[owner'[x]] \cup deadChildren[owner'[x]]
               /\ joining[main'[waitsFor[x]]] = x
    <3>1. x # u /\ owner'[x] = owner[x] /\ owner[x] \in Proc BY <1>2, <1>10, <2>1 DEF Owners
    <3>2. waitsFor[x] \in children[owner[x]] \cup deadChildren[owner[x]] /\ joining[main[waitsFor[x]]] = x
      BY <2>1 DEF Joins
    <3>3. waitsFor[x] # q BY <1>2, <2>1, <3>1, <3>2 DEF TreeChildren, TreeDead
    <3> QED BY <1>1, <1>2, <2>1, <3>1, <3>2, <3>3
  <2>2. ASSUME NEW x \in Thread, joining[x] # Null
        PROVE  /\ x # u /\ owner'[x] = owner[x] /\ owner[x] \in Proc \ {q}
               /\ pstat'[owner[x]] = pstat[owner[x]] /\ parent'[owner[x]] = parent[owner[x]]
               /\ main'[owner[x]] = main[owner[x]]
    BY <1>2, <1>5, <1>10, <2>2 DEF Owners
  <2>3. \A x \in Thread : st[x] # "NONE" => owner'[x] = owner[x] /\ st'[x] # "NONE"
    BY <1>2
  <2> QED BY <1>2, <2>1, <2>2, <2>3 DEF Joins
<1> QED BY <1>3, <1>4, <1>7, <1>8, <1>9, <1>11

\* The exit of a process: it kills all its threads, hangs the process among the dead
\* children of its parent and wakes the thread that waits for it.
LEMMA ExitStep ==
    ASSUME ProcessInv, NEW t \in Thread, Exit(t), joining[main[owner[t]]] # Freed
    PROVE  ProcessInv'
<1> USE ProcessAssumption DEF ProcessInv
<1> PICK p : p = owner[t] OBVIOUS
<1> PICK m : m = main[p] OBVIOUS
<1> PICK r : r = parent[p] OBVIOUS
<1> PICK K : K = Killed(t) OBVIOUS
<1> PICK st1 : st1 = [u \in Thread |-> IF u \in K THEN "ZOMBIE" ELSE st[u]] OBVIOUS
<1> PICK J : J = Woken(m, st1) OBVIOUS
<1>1. p \in Proc /\ pstat[p] = "alive" /\ p # Main BY CallerLives DEF Exit, Calls
<1>2. r \in Proc /\ m \in Thread /\ owner[m] = p BY <1>1 DEF Owners
<1>3. /\ \A x \in Thread : x \in K <=> (st[x] # "NONE" /\ owner[x] = p)
      /\ \A x \in J : x \in Thread /\ x \notin K /\ joining[m] = x /\ st[x] = "JOINING"
      /\ joining[m] \in Thread /\ joining[m] \notin K /\ st[joining[m]] = "JOINING"
            => joining[m] \in J
  BY DEF Killed, ThreadsOf, Woken
<1>4. /\ pstat'[p] = "exited" /\ \A q \in Proc \ {p} : pstat'[q] = pstat[q]
      /\ children'[r] = children[r] \ {p} /\ \A q \in Proc \ {r} : children'[q] = children[q]
      /\ deadChildren'[r] = deadChildren[r] \cup {p}
      /\ \A q \in Proc \ {r} : deadChildren'[q] = deadChildren[q]
      /\ UNCHANGED <<parent, main, processCount, owner, joining, waitsFor, waitq, fail>>
  BY <1>1, <1>2 DEF Exit, TypeOK
<1>5. st' = Wake(st1, J) BY <1>1, <1>2 DEF Exit
<1>6. /\ st' \in [Thread -> States]
      /\ \A x \in Thread : st'[x] = IF x \in J THEN "READY"
                                    ELSE IF x \in K THEN "ZOMBIE" ELSE st[x]
  BY <1>3, <1>5 DEF Wake, TypeOK
<1>7. \A x \in Thread : st'[x] = "NONE" <=> st[x] = "NONE" BY <1>3, <1>6
<1>8. \A q \in Proc : /\ pstat'[q] = "none" <=> pstat[q] = "none"
                      /\ pstat'[q] = "alive" => pstat[q] = "alive" /\ q # p
  BY <1>1, <1>4
<1>9. TypeOK'
  <2>1. /\ pstat' \in [Proc -> {"none", "alive", "exited"}]
        /\ children' = [children EXCEPT ![r] = @ \ {p}]
        /\ deadChildren' = [deadChildren EXCEPT ![r] = @ \cup {p}]
    BY <1>1, <1>2, ZenonT(40) DEF Exit, TypeOK
  <2>2. children' \in [Proc -> SUBSET Proc] BY <1>2, <2>1 DEF TypeOK
  <2>3. deadChildren' \in [Proc -> SUBSET Proc] BY <1>1, <1>2, <2>1 DEF TypeOK
  <2> QED BY <1>4, <1>6, <2>1, <2>2, <2>3 DEF TypeOK
<1>10. Tree'
  <2>1. Existing' = Existing BY <1>8 DEF Existing
  <2>2. p \in children[r] BY <1>1, <1>2 DEF TreeChildren
  <2>3. TreeCount' BY <1>4, <2>1 DEF TreeCount
  <2>4. TreeChildren' BY <1>1, <1>2, <1>4 DEF TreeChildren
  <2>5. TreeParents' BY <1>1, <1>2, <1>4, <1>8, <2>2 DEF TreeParents
  <2>6. TreeDead' BY <1>1, <1>2, <1>4 DEF TreeDead
  <2>7. TreeAlive' BY <1>4, <1>8 DEF TreeAlive, Owners
  <2> QED BY <2>3, <2>4, <2>5, <2>6, <2>7
<1>11. Owners' BY <1>1, <1>4, <1>7, <1>8 DEF Owners
<1>12. Queues'
  <2>1. \A q \in Proc, x \in Thread : Contains(waitq[q], x) => x \notin J
    BY <1>3 DEF QueuesHold
  <2>2. QueuesShape' BY <1>4, <1>8 DEF QueuesShape
  <2>3. QueuesHold' BY <1>4, <1>6, <2>1 DEF QueuesHold
  <2>4. WaitersHeld' BY <1>4, <1>6 DEF WaitersHeld
  <2>5. ASSUME NEW x \in Thread, st'[x] # "NONE", pstat'[owner[x]] = "exited"
        PROVE  st'[x] = "ZOMBIE"
    <3>1. owner[x] \in Proc /\ st[x] # "NONE" BY <1>7, <2>5 DEF Owners
    <3>2. CASE owner[x] = p BY <1>3, <1>6, <3>1, <3>2
    <3>3. CASE owner[x] # p
      <4>1. st[x] = "ZOMBIE" BY <1>4, <2>5, <3>1, <3>3 DEF ExitedDead
      <4> QED BY <1>3, <1>6, <4>1
    <3> QED BY <3>2, <3>3
  <2>6. ExitedDead' BY <1>4, <2>5 DEF ExitedDead
  <2> QED BY <2>2, <2>3, <2>4, <2>6
<1>13. WaitersServed'
  <2> SUFFICES ASSUME NEW x \in Thread, waitsFor[x] \in Proc, st'[x] = "JOINING"
               PROVE  /\ joining[main[waitsFor[x]]] = x
                      /\ pstat'[waitsFor[x]] = "alive" /\ st'[main[waitsFor[x]]] # "ZOMBIE"
    BY <1>4 DEF WaitersServed
  <2> PICK w : w = waitsFor[x] OBVIOUS
  <2>1. x \notin J /\ x \notin K /\ st[x] = "JOINING" BY <1>6
  <2>2. joining[main[w]] = x /\ pstat[w] = "alive" /\ st[main[w]] # "ZOMBIE"
    BY <2>1 DEF WaitersServed
  <2>3. w # p BY <1>3, <2>1, <2>2
  <2>4. main[w] \in Thread /\ owner[main[w]] = w BY <2>2 DEF Owners
  <2>5. main[w] \notin K BY <1>3, <2>3, <2>4
  <2> QED BY <1>4, <1>6, <2>2, <2>3, <2>4, <2>5
<1>14. Joins'
  <2>1. ASSUME NEW x \in Thread, waitsFor[x] \in Proc
        PROVE  /\ waitsFor[x] \in children'[owner[x]] \cup deadChildren'[owner[x]]
               /\ joining[main[waitsFor[x]]] = x
    <3>1. owner[x] \in Proc BY <2>1 DEF Owners
    <3>2. waitsFor[x] \in children[owner[x]] \cup deadChildren[owner[x]] /\ joining[main[waitsFor[x]]] = x
      BY <2>1 DEF Joins
    <3>3. CASE owner[x] = r BY <1>4, <3>2, <3>3
    <3>4. CASE owner[x] # r BY <1>4, <3>1, <3>2, <3>4
    <3> QED BY <3>2, <3>3, <3>4
  <2>2. \A u \in Thread : joining[u] # Null => owner[u] \in Proc BY DEF Owners
  <2>3. \A u \in Thread : joining[u] \in Thread \/ joining[u] = Freed => joining[u] # Null
    OBVIOUS
  <2> QED BY <1>4, <1>7, <1>8, <2>1, <2>2, <2>3 DEF Joins
<1> QED BY <1>9, <1>10, <1>11, <1>12, <1>13, <1>14

\* The call of waitpid that has to wait: nobody waited for the child before.
LEMMA WaitPidStep ==
    ASSUME ProcessInv, NEW t \in Thread, NEW q \in Proc, WaitPid(t, q)
    PROVE  ProcessInv'
<1> USE ProcessAssumption DEF ProcessInv
<1> PICK m : m = main[q] OBVIOUS
<1>1. /\ owner[t] \in Proc /\ pstat[owner[t]] = "alive" /\ st[t] = "READY" /\ waitsFor[t] = Null
      /\ q \in children[owner[t]] \cup deadChildren[owner[t]] /\ st[m] # "ZOMBIE"
      /\ joining[m] = Null
  BY CallerLives DEF WaitPid, Calls
<1>2. parent[q] = owner[t] /\ pstat[q] # "none" BY <1>1 DEF TreeChildren, TreeDead
<1>3. m \in Thread /\ owner[m] = q /\ st[m] # "NONE" BY <1>2 DEF Owners
<1>4. pstat[q] = "alive" BY <1>1, <1>2, <1>3 DEF ExitedDead, TypeOK
<1>5. /\ st'[t] = "JOINING" /\ \A x \in Thread \ {t} : st'[x] = st[x]
      /\ joining'[m] = t /\ \A x \in Thread \ {m} : joining'[x] = joining[x]
      /\ waitsFor'[t] = q /\ \A x \in Thread \ {t} : waitsFor'[x] = waitsFor[x]
      /\ UNCHANGED <<pstat, parent, children, deadChildren, main, processCount,
                     owner, waitq, fail>>
  BY <1>3 DEF WaitPid, TypeOK
<1>6. TypeOK'
  <2>1. /\ st' \in [Thread -> States] /\ joining' \in [Thread -> Thread \cup {Null, Freed}]
        /\ waitsFor' \in [Thread -> Proc \cup {Null, Freed}]
    BY <1>3 DEF WaitPid, TypeOK
  <2> QED BY <1>5, <2>1 DEF TypeOK
<1>7. Tree'
  BY <1>5 DEF Existing, TreeCount, TreeChildren, TreeParents, TreeDead, TreeAlive
<1>8. Owners' BY <1>1, <1>3, <1>5 DEF Owners
<1>9. Queues'
  <2>1. \A p \in Proc : ~Contains(waitq[p], t) BY <1>1 DEF QueuesHold
  <2>2. QueuesShape' BY <1>5 DEF QueuesShape
  <2>3. QueuesHold' BY <1>5, <2>1 DEF QueuesHold
  <2>4. WaitersHeld' BY <1>5 DEF WaitersHeld
  <2>5. ExitedDead' BY <1>1, <1>5 DEF ExitedDead
  <2> QED BY <2>2, <2>3, <2>4, <2>5
<1>10. WaitersServed'
  <2> SUFFICES ASSUME NEW x \in Thread, waitsFor'[x] \in Proc, st'[x] = "JOINING"
               PROVE  /\ joining'[main[waitsFor'[x]]] = x
                      /\ pstat[waitsFor'[x]] = "alive" /\ st'[main[waitsFor'[x]]] # "ZOMBIE"
    BY <1>5 DEF WaitersServed
  <2>1. CASE x = t BY <1>1, <1>3, <1>4, <1>5, <2>1
  <2>2. CASE x # t
    <3> PICK w : w = waitsFor[x] OBVIOUS
    <3>1. joining[main[w]] = x /\ pstat[w] = "alive" /\ st[main[w]] # "ZOMBIE" /\ w \in Proc
      BY <1>5, <2>2 DEF WaitersServed
    <3>2. main[w] \in Thread /\ main[w] # m BY <1>1, <3>1 DEF Owners
    <3> QED BY <1>5, <2>2, <3>1, <3>2
  <2> QED BY <2>1, <2>2
<1>11. Joins'
  <2>1. ASSUME NEW x \in Thread, waitsFor'[x] \in Proc
        PROVE  /\ waitsFor'[x] \in children[owner[x]] \cup deadChildren[owner[x]]
               /\ joining'[main[waitsFor'[x]]] = x
    <3>1. CASE x = t BY <1>1, <1>5, <3>1
    <3>2. CASE x # t
      <4> PICK w : w = waitsFor[x] OBVIOUS
      <4>1. w \in children[owner[x]] \cup deadChildren[owner[x]] /\ joining[main[w]] = x /\ w \in Proc
        BY <1>5, <2>1, <3>2 DEF Joins
      <4>2. owner[x] \in Proc BY <1>5, <2>1, <3>2 DEF Owners
      <4>3. pstat[w] # "none" BY <4>1, <4>2 DEF TreeChildren, TreeDead
      <4>4. main[w] \in Thread /\ main[w] # m BY <1>1, <4>1, <4>3 DEF Owners
      <4> QED BY <1>5, <3>2, <4>1, <4>4
    <3> QED BY <3>1, <3>2
  <2>2. \A x \in Thread : st[x] # "NONE" => st'[x] # "NONE" BY <1>5
  <2> QED BY <1>1, <1>2, <1>3, <1>5, <2>1, <2>2 DEF Joins
<1> QED BY <1>6, <1>7, <1>8, <1>9, <1>10, <1>11

\* The release of an exited process by a thread of its parent: what pointed to it, or
\* to a thread of it, points elsewhere, or to nothing that is used again.
LEMMA ReleaseStep ==
    ASSUME ProcessInv, NEW t \in Thread, NEW q \in Proc, st[t] = "READY",
           q \in deadChildren[owner[t]], Release(t, q)
    PROVE  ProcessInv'
<1> USE ProcessAssumption DEF ProcessInv
<1> PICK o : o = owner[t] OBVIOUS
<1> PICK G : G = ThreadsOf(q) OBVIOUS
<1>1. /\ o \in Proc /\ pstat[o] = "alive" /\ pstat[q] = "exited" /\ parent[q] = o
      /\ q # o /\ q # Main
  BY CallerLives DEF TreeDead, Owners
<1>2. /\ \A x \in Thread : x \in G <=> (st[x] # "NONE" /\ owner[x] = q)
      /\ G \subseteq Thread /\ t \notin G
  BY <1>1 DEF ThreadsOf
<1>3. /\ pstat'[q] = "none" /\ \A r \in Proc \ {q} : pstat'[r] = pstat[r]
      /\ main'[q] = Null /\ \A r \in Proc \ {q} : main'[r] = main[r]
      /\ processCount' = processCount - 1
      /\ UNCHANGED fail
  BY <1>1 DEF Release, TypeOK
<1>4. /\ children'[q] = {} /\ children'[Main] = children[Main] \cup children[q]
      /\ \A r \in Proc \ {q, Main} : children'[r] = children[r]
      /\ deadChildren'[q] = {} /\ deadChildren'[o] = deadChildren[o] \ {q}
      /\ \A r \in Proc \ {q, o} : deadChildren'[r] = deadChildren[r]
  BY <1>1 DEF Release, TypeOK
<1>5. \A r \in Proc : parent'[r] = IF r \in children[q] THEN Main
                                   ELSE IF r = q THEN Null ELSE parent[r]
  BY DEF Release, NewParent
<1>6. \A x \in Thread :
        /\ st'[x] = IF x \in G THEN "NONE" ELSE st[x]
        /\ owner'[x] = IF x \in G THEN Null ELSE owner[x]
        /\ joining'[x] = IF x \in G THEN Null ELSE IF joining[x] \in G THEN Freed ELSE joining[x]
        /\ waitsFor'[x] = IF x = t \/ x \in G THEN Null
                          ELSE IF waitsFor[x] = q THEN Freed ELSE waitsFor[x]
  BY DEF Release
<1>7. /\ waitq' = [waitq EXCEPT ![q] = Keep(@, Thread \ G)]
      /\ waitq'[q] = <<>> /\ \A r \in Proc \ {q} : waitq'[r] = waitq[r]
  <2>1. waitq' = [waitq EXCEPT ![q] = Keep(@, Thread \ G)] BY DEF Release, CleanQueue
  <2> PICK k : k = Keep(waitq[q], Thread \ G) OBVIOUS
  <2>2. waitq[q] \in Seq(Thread) BY DEF TypeOK
  <2>3. k \in Seq(Thread) /\ \A x : Contains(k, x) <=> (Contains(waitq[q], x) /\ x \in Thread \ G)
    BY <2>2, KeepProperties
  <2>4. \A x \in Thread : ~Contains(k, x) BY <1>2, <2>3 DEF QueuesHold
  <2>5. k = <<>> BY <2>3, <2>4, EmptyQueue
  <2> QED BY <2>1, <2>5 DEF TypeOK
<1>8. TypeOK'
  <2>1. /\ pstat' \in [Proc -> {"none", "alive", "exited"}]
        /\ main' \in [Proc -> Thread \cup {Null}] /\ processCount' \in Int /\ fail' = fail
    BY DEF Release, TypeOK
  <2>2. parent' \in [Proc -> Proc \cup {Null}] BY DEF Release, NewParent, TypeOK
  <2>3. children' = [children EXCEPT ![q] = {}, ![Main] = @ \cup children[q]]
        /\ deadChildren' = [deadChildren EXCEPT ![q] = {}, ![o] = @ \ {q}]
    BY DEF Release
  <2>4. children' \in [Proc -> SUBSET Proc] BY <2>3 DEF TypeOK
  <2>5. deadChildren' \in [Proc -> SUBSET Proc] BY <1>1, <2>3 DEF TypeOK
  <2>6. st' \in [Thread -> States] /\ owner' \in [Thread -> Proc \cup {Null}]
    BY <1>6 DEF Release, TypeOK
  <2>7. joining' \in [Thread -> Thread \cup {Null, Freed}]
    BY <1>6 DEF Release, TypeOK
  <2>8. waitsFor' \in [Thread -> Proc \cup {Null, Freed}]
    BY <1>6 DEF Release, TypeOK
  <2>9. waitq' \in [Proc -> Seq(Thread)]
    <3>1. <<>> \in Seq(Thread) OBVIOUS
    <3> PICK k : k = Keep(waitq[q], Thread \ G) OBVIOUS
    <3>2. waitq' = [waitq EXCEPT ![q] = k] BY <1>7
    <3>3. k = <<>> BY <1>7, <3>2 DEF TypeOK
    <3> QED BY <3>1, <3>2, <3>3 DEF TypeOK
  <2> QED BY <2>1, <2>2, <2>4, <2>5, <2>6, <2>7, <2>8, <2>9 DEF TypeOK
<1>9. Tree'
  <2>1. TreeCount'
    <3>1. Existing' = Existing \ {q} /\ q \in Existing BY <1>1, <1>3 DEF Existing
    <3>2. IsFiniteSet(Existing) BY FS_Subset DEF Existing
    <3>3. Cardinality(Existing') = Cardinality(Existing) - 1 BY <3>1, <3>2, FS_RemoveElement
    <3> QED BY <1>3, <3>3 DEF TreeCount
  <2>2. \A b \in Proc : b \in children[q] <=> (b # Main /\ pstat[b] = "alive" /\ parent[b] = q)
    BY DEF TreeChildren
  <2>3. ASSUME NEW a \in Proc, NEW b \in Proc
        PROVE  b \in children'[a] <=> (b # Main /\ pstat'[b] = "alive" /\ parent'[b] = a)
    <3>1. b \in children[a] <=> (b # Main /\ pstat[b] = "alive" /\ parent[b] = a)
      BY DEF TreeChildren
    <3>2. CASE b = q
      <4>1. \A r \in Proc : q \notin children[r] BY <1>1 DEF TreeChildren
      <4> QED BY <1>1, <1>3, <1>4, <3>2, <4>1
    <3>3. CASE b # q /\ b \in children[q]
      BY <1>1, <1>3, <1>4, <1>5, <2>2, <3>1, <3>3
    <3>4. CASE b # q /\ b \notin children[q]
      BY <1>1, <1>3, <1>4, <1>5, <2>2, <3>1, <3>4
    <3> QED BY <3>2, <3>3, <3>4
  <2>4. TreeChildren' BY <2>3 DEF TreeChildren
  <2>5. TreeParents' BY <1>1, <1>3, <1>4 DEF TreeParents, Owners
  <2>6. ASSUME NEW a \in Proc, NEW b \in Proc, b \in deadChildren'[a]
        PROVE  pstat'[b] = "exited" /\ parent'[b] = a
    <3>1. b \in deadChildren[a] /\ a # q /\ b # q
      BY <1>1, <1>4, <2>6 DEF TreeDead
    <3>2. pstat[b] = "exited" /\ parent[b] = a BY <3>1 DEF TreeDead
    <3> QED BY <1>3, <1>5, <2>2, <3>1, <3>2
  <2>7. TreeDead' BY <2>6 DEF TreeDead
  <2>8. ASSUME NEW b \in Proc, pstat'[b] = "alive", b # Main PROVE pstat'[parent'[b]] # "none"
    <3>1. b # q /\ pstat[b] = "alive" /\ parent[b] \in Proc /\ pstat[parent[b]] # "none"
      BY <1>3, <2>8 DEF Owners, TreeAlive
    <3>2. parent'[b] \in Proc \ {q} BY <1>1, <1>5, <2>2, <2>8, <3>1
    <3>3. parent'[b] = Main \/ parent'[b] = parent[b] BY <1>5, <3>1
    <3> QED BY <1>3, <3>1, <3>2, <3>3 DEF Owners
  <2>9. TreeAlive' BY <2>8 DEF TreeAlive
  <2> QED BY <2>1, <2>4, <2>5, <2>7, <2>9
<1>10. \A x \in Thread : st'[x] # "NONE" =>
          /\ x \notin G /\ st'[x] = st[x] /\ owner'[x] = owner[x] /\ owner[x] \in Proc \ {q}
          /\ pstat[owner[x]] # "none"
  BY <1>2, <1>6 DEF Owners
<1>11. \A r \in Proc \ {q} : pstat[r] # "none" =>
          main'[r] = main[r] /\ main[r] \in Thread \ G /\ owner[main[r]] = r
  BY <1>2, <1>3 DEF Owners
<1>12. Owners'
  <2>1. pstat'[Main] = "alive" /\ parent'[Main] = Null
    BY <1>1, <1>3, <1>5 DEF Owners, TreeChildren
  <2>2. \A b \in Proc : pstat'[b] = "alive" /\ b # Main => parent'[b] \in Proc
    BY <1>3, <1>5 DEF Owners
  <2>3. \A r \in Proc : pstat'[r] # "none" => main'[r] \in Thread /\ owner'[main'[r]] = r
    BY <1>3, <1>6, <1>11
  <2>4. \A x \in Thread : st'[x] # "NONE" => owner'[x] \in Proc /\ pstat'[owner'[x]] # "none"
    BY <1>3, <1>10
  <2>5. \A x \in Thread : st'[x] = "NONE" =>
          owner'[x] = Null /\ joining'[x] = Null /\ waitsFor'[x] = Null
    BY <1>2, <1>6 DEF Owners
  <2> QED BY <2>1, <2>2, <2>3, <2>4, <2>5 DEF Owners
<1>13. Queues'
  <2>1. \A x : ~Contains(<<>>, x) BY DEF Contains
  <2>2. QueuesShape'
    <3>1. IsInjective(<<>>) BY DEF IsInjective
    <3> QED BY <1>3, <1>7, <3>1 DEF QueuesShape
  <2>3. QueuesHold' BY <1>2, <1>6, <1>7, <2>1 DEF QueuesHold
  <2>4. WaitersHeld' BY <1>7, <1>10 DEF WaitersHeld
  <2>5. ExitedDead' BY <1>3, <1>10 DEF ExitedDead
  <2> QED BY <2>2, <2>3, <2>4, <2>5
<1>14. \A x \in Thread : waitsFor'[x] \in Proc =>
          /\ waitsFor'[x] = waitsFor[x] /\ waitsFor[x] # q /\ st[x] # "NONE" /\ x \notin G
  BY <1>2, <1>6 DEF Owners
<1>15. WaitersServed'
  <2> SUFFICES ASSUME NEW x \in Thread, waitsFor'[x] \in Proc, st'[x] = "JOINING"
               PROVE  /\ joining'[main'[waitsFor'[x]]] = x
                      /\ pstat'[waitsFor'[x]] = "alive" /\ st'[main'[waitsFor'[x]]] # "ZOMBIE"
    BY DEF WaitersServed
  <2> PICK w : w = waitsFor[x] OBVIOUS
  <2>1. w \in Proc \ {q} /\ waitsFor'[x] = w /\ x \notin G BY <1>14
  <2>2. joining[main[w]] = x /\ pstat[w] = "alive" /\ st[main[w]] # "ZOMBIE"
    BY <1>6, <2>1 DEF WaitersServed
  <2>3. main'[w] = main[w] /\ main[w] \in Thread \ G BY <1>11, <2>1, <2>2
  <2> QED BY <1>3, <1>6, <2>1, <2>2, <2>3
<1>16. Joins'
  <2>1. ASSUME NEW x \in Thread, waitsFor'[x] \in Proc
        PROVE  /\ waitsFor'[x] \in children'[owner'[x]] \cup deadChildren'[owner'[x]]
               /\ joining'[main'[waitsFor'[x]]] = x
    <3> PICK w : w = waitsFor[x] OBVIOUS
    <3>1. w \in Proc \ {q} /\ waitsFor'[x] = w /\ x \notin G /\ st[x] # "NONE" BY <1>14, <2>1
    <3>2. owner'[x] = owner[x] /\ owner[x] \in Proc \ {q} BY <1>2, <1>6, <3>1 DEF Owners
    <3>3. w \in children[owner[x]] \cup deadChildren[owner[x]] /\ joining[main[w]] = x
      BY <3>1 DEF Joins
    <3>4. w \in children'[owner[x]] \cup deadChildren'[owner[x]] BY <1>4, <3>1, <3>2, <3>3
    <3>5. pstat[w] # "none" BY <3>1, <3>2, <3>3 DEF TreeChildren, TreeDead
    <3>6. main'[w] = main[w] /\ main[w] \in Thread \ G BY <1>11, <3>1, <3>5
    <3> QED BY <1>6, <3>1, <3>2, <3>3, <3>4, <3>6
  <2>2. ASSUME NEW u \in Thread, joining'[u] \in Thread \cup {Freed}
        PROVE  /\ u \notin G /\ st[u] # "NONE" /\ owner'[u] = owner[u] /\ owner[u] \in Proc \ {q}
               /\ joining[u] \in Thread \cup {Freed} /\ main'[owner[u]] = main[owner[u]]
               /\ main[owner[u]] = u /\ pstat'[owner[u]] = pstat[owner[u]]
    <3>1. u \notin G BY <1>6, <2>2
    <3>2. joining[u] \in Thread \cup {Freed} BY <1>2, <1>6, <2>2, <3>1
    <3>3. st[u] # "NONE" /\ owner'[u] = owner[u] /\ owner[u] \in Proc \ {q}
      BY <1>2, <1>6, <3>1, <3>2 DEF Owners
    <3> QED BY <1>3, <3>1, <3>2, <3>3 DEF Joins
  <2>3. ASSUME NEW u \in Thread, joining'[u] \in Thread
        PROVE  /\ st'[joining'[u]] # "NONE" /\ main'[owner'[u]] = u
               /\ pstat'[owner'[u]] = "alive" => parent'[owner'[u]] = owner'[joining'[u]]
    <3> PICK j : j = joining[u] OBVIOUS
    <3>1. joining'[u] = j /\ j \in Thread /\ j \notin G BY <1>6, <2>2, <2>3
    <3>2. st[j] # "NONE" /\ (pstat[owner[u]] = "alive" => parent[owner[u]] = owner[j])
      BY <3>1 DEF Joins
    <3>3. owner[j] \in Proc \ {q} BY <1>2, <3>1, <3>2 DEF Owners
    <3>4. pstat[owner[u]] = "alive" => parent'[owner[u]] = owner[j]
      BY <1>5, <2>2, <2>3, <3>2, <3>3 DEF TreeChildren
    <3> QED BY <1>6, <2>2, <2>3, <3>1, <3>2, <3>4
  <2>4. ASSUME NEW u \in Thread, joining'[u] = Freed
        PROVE  /\ main'[owner'[u]] = u
               /\ pstat'[owner'[u]] = "alive" => parent'[owner'[u]] = Main
    <3>1. CASE joining[u] = Freed
      <4>1. pstat[owner[u]] = "alive" => parent[owner[u]] = Main BY <3>1 DEF Joins
      <4> QED BY <1>5, <2>2, <2>4, <4>1
    <3>2. CASE joining[u] \in G
      <4>1. pstat[owner[u]] = "alive" => parent[owner[u]] = q BY <1>2, <3>2 DEF Joins
      <4>2. pstat[owner[u]] = "alive" => owner[u] \in children[q]
        BY <2>2, <2>4, <4>1 DEF TreeChildren, Owners
      <4> QED BY <1>5, <2>2, <2>4, <4>2
    <3> QED BY <1>6, <2>2, <2>4, <3>1, <3>2
  <2> QED BY <2>1, <2>3, <2>4 DEF Joins
<1> QED BY <1>8, <1>9, <1>12, <1>13, <1>15, <1>16

--------------------------------------------------------------------------------
\* What KnownFailures says of a cause: the state that lets the model end with it.
Blame(c) ==
    \/ c \in {"asleep", "not_dead"} /\ \E q \in Proc :
          pstat[q] = "alive" /\ (st[main[q]] = "ZOMBIE" \/ joining[main[q]] # Null)
    \/ c = "freed_joiner" /\ \E q \in Proc :
          pstat[q] = "alive" /\ parent[q] = Main /\ joining[main[q]] = Freed
    \/ c = "freed_child" /\ \E t \in Thread : waitsFor[t] = Freed

Stops == \E c : Stop(c) /\ Blame(c)
Releases ==
    \E t \in Thread, q \in Proc :
        st[t] = "READY" /\ q \in deadChildren[owner[t]] /\ Release(t, q)
Lives ==
    ProcessInv' /\ UNCHANGED fail /\ \A q \in Proc : pstat[q] # "none" => pstat'[q] # "none"

\* A thread that cleans a child releases it, or finds it alive with a main thread that
\* has ended or that was joined.
LEMMA CleanCases ==
    ASSUME ProcessInv, NEW t \in Thread, NEW q \in Proc, st[t] = "READY",
           q \in children[owner[t]] \cup deadChildren[owner[t]],
           st[main[q]] = "ZOMBIE" \/ joining[main[q]] # Null, CleanChild(t, q)
    PROVE  Stops \/ Releases
<1> USE DEF ProcessInv
<1>1. owner[t] \in Proc BY CallerLives
<1>2. pstat[q] = "exited" \/ q \in children[owner[t]] BY <1>1 DEF TreeDead
<1>3. q \in children[owner[t]] => pstat[q] = "alive" BY <1>1 DEF TreeChildren
<1>4. CASE \E u \in ThreadsOf(q) : st[u] = "SLEEPING"
  <2>1. PICK u \in Thread : owner[u] = q /\ st[u] = "SLEEPING" BY <1>4 DEF ThreadsOf
  <2>2. pstat[q] # "exited" BY <2>1 DEF ExitedDead
  <2>3. Stop("asleep") BY <1>4 DEF CleanChild
  <2>4. Blame("asleep") BY <1>2, <1>3, <2>2 DEF Blame
  <2> QED BY <2>3, <2>4 DEF Stops
<1>5. CASE ~(\E u \in ThreadsOf(q) : st[u] = "SLEEPING") /\ q \notin deadChildren[owner[t]]
  <2>1. Stop("not_dead") BY <1>5 DEF CleanChild
  <2>2. Blame("not_dead") BY <1>3, <1>5 DEF Blame
  <2> QED BY <2>1, <2>2 DEF Stops
<1>6. CASE ~(\E u \in ThreadsOf(q) : st[u] = "SLEEPING") /\ q \in deadChildren[owner[t]]
  BY <1>6 DEF CleanChild, Releases
<1> QED BY <1>4, <1>5, <1>6

\* Every step fails for a known reason, releases an exited process, or keeps the
\* processes that exist.
LEMMA StepCases == ASSUME ProcessInv, Next PROVE fail = "none" /\ (Stops \/ Releases \/ Lives)
<1> USE ProcessAssumption
<1>0. PICK t \in Thread :
        \/ Sleep(t) \/ WakeUp(t) \/ FutexWait(t) \/ FutexWake(t)
        \/ ThreadExit(t) \/ Exit(t) \/ WaitPidReturn(t)
        \/ \E u \in Thread : CreateThread(t, u) \/ \E q \in Proc : Fork(t, q, u)
        \/ \E q \in Proc : WaitPid(t, q) \/ WaitPidNow(t, q)
  BY DEF Next
<1>1. fail = "none"
  BY <1>0 DEF Sleep, WakeUp, FutexWait, FutexWake, ThreadExit, Exit, WaitPidReturn,
              CreateThread, Fork, WaitPid, WaitPidNow, Calls
<1> SUFFICES Stops \/ Releases \/ Lives BY <1>1
<1>2. CASE Sleep(t) \/ WakeUp(t) \/ \E u \in Thread : CreateThread(t, u)
  BY <1>2, LocalStep DEF Lives, Sleep, WakeUp, CreateThread
<1>3. CASE FutexWait(t) \/ FutexWake(t)
  BY <1>3, FutexStep DEF Lives, FutexWait, FutexWake
<1>4. CASE ThreadExit(t)
  <2>1. CASE joining[t] = Freed
    <3>1. Stop("freed_joiner") /\ st[t] = "READY" BY <1>4, <2>1 DEF ThreadExit, Calls
    <3>2. owner[t] \in Proc /\ pstat[owner[t]] = "alive" BY <3>1, CallerLives
    <3>3. main[owner[t]] = t /\ parent[owner[t]] = Main
      BY <2>1, <3>2 DEF ProcessInv, Joins
    <3> QED BY <2>1, <3>1, <3>2, <3>3 DEF Stops, Blame
  <2>2. CASE joining[t] # Freed BY <1>4, <2>2, ThreadExitStep DEF Lives, ThreadExit
  <2> QED BY <2>1, <2>2
<1>5. CASE Exit(t)
  <2>1. owner[t] \in Proc /\ pstat[owner[t]] = "alive" BY <1>5, CallerLives DEF Exit, Calls
  <2>2. CASE joining[main[owner[t]]] = Freed
    <3>1. Stop("freed_joiner") BY <1>5, <2>2 DEF Exit
    <3>2. main[owner[t]] \in Thread /\ owner[main[owner[t]]] = owner[t]
      BY <2>1 DEF ProcessInv, Owners
    <3>3. parent[owner[t]] = Main BY <2>1, <2>2, <3>2 DEF ProcessInv, Joins
    <3> QED BY <2>1, <2>2, <3>1, <3>3 DEF Stops, Blame
  <2>3. CASE joining[main[owner[t]]] # Freed
    <3>1. UNCHANGED fail /\ pstat' = [pstat EXCEPT ![owner[t]] = "exited"]
      BY <1>5, <2>3 DEF Exit
    <3>2. \A q \in Proc : pstat[q] # "none" => pstat'[q] # "none"
      BY <3>1 DEF ProcessInv, TypeOK
    <3> QED BY <1>5, <2>3, <3>1, <3>2, ExitStep DEF Lives
  <2> QED BY <2>2, <2>3
<1>6. CASE WaitPidReturn(t)
  <2>1. st[t] = "READY" /\ waitsFor[t] # Null BY <1>6 DEF WaitPidReturn
  <2>2. CASE waitsFor[t] = Freed
    <3>1. Stop("freed_child") BY <1>6, <2>2 DEF WaitPidReturn
    <3> QED BY <2>2, <3>1 DEF Stops, Blame
  <2>3. CASE waitsFor[t] # Freed
    <3>1. waitsFor[t] \in Proc BY <2>1, <2>3 DEF ProcessInv, TypeOK
    <3>2. /\ waitsFor[t] \in children[owner[t]] \cup deadChildren[owner[t]]
          /\ joining[main[waitsFor[t]]] = t
      BY <3>1 DEF ProcessInv, Joins
    <3>3. joining[main[waitsFor[t]]] # Null BY <3>2
    <3>4. CleanChild(t, waitsFor[t]) BY <1>6, <2>3 DEF WaitPidReturn
    <3> QED BY <2>1, <3>1, <3>2, <3>3, <3>4, CleanCases
  <2> QED BY <1>1, <2>2, <2>3
<1>7. ASSUME NEW u \in Thread, NEW q \in Proc, Fork(t, q, u) PROVE Lives
  <2>1. UNCHANGED fail /\ pstat' = [pstat EXCEPT ![q] = "alive"] BY <1>7 DEF Fork
  <2>2. \A r \in Proc : pstat[r] # "none" => pstat'[r] # "none"
    BY <2>1 DEF ProcessInv, TypeOK
  <2> QED BY <1>7, <2>1, <2>2, ForkStep DEF Lives
<1>8. ASSUME NEW q \in Proc, WaitPid(t, q) PROVE Lives
  BY <1>8, WaitPidStep DEF Lives, WaitPid
<1>9. ASSUME NEW q \in Proc, WaitPidNow(t, q) PROVE Stops \/ Releases
  BY <1>9, CleanCases DEF WaitPidNow, Calls
<1> QED BY <1>0, <1>1, <1>2, <1>3, <1>4, <1>5, <1>6, <1>7, <1>8, <1>9

\* The model ends in the state it failed in.
LEMMA StopStep ==
    ASSUME ProcessInv, NEW c, Stop(c), Blame(c) PROVE ProcessInv' /\ KnownFailures'
<1>1. UNCHANGED <<pstat, parent, children, deadChildren, main, processCount, st,
                  owner, joining, waitsFor, waitq>> /\ fail' = c
  BY DEF Stop
<1>2. TypeOK' BY <1>1 DEF ProcessInv, TypeOK, Blame
<1>3. Tree' /\ Owners' /\ Queues' /\ WaitersServed' /\ Joins'
  BY <1>1 DEF ProcessInv, Existing, TreeCount, TreeChildren, TreeParents, TreeDead, TreeAlive,
              Owners, QueuesShape, QueuesHold, WaitersHeld, ExitedDead, WaitersServed, Joins
<1>4. KnownFailures' BY <1>1 DEF KnownFailures, Blame
<1> QED BY <1>2, <1>3, <1>4 DEF ProcessInv

\* The main process and its thread.
LEMMA InitInv == Init => ProcessInv /\ KnownFailures
<1> SUFFICES ASSUME Init PROVE ProcessInv /\ KnownFailures OBVIOUS
<1> USE ProcessAssumption DEF Init
<1>1. TypeOK
  <2>1. <<>> \in Seq(Thread) OBVIOUS
  <2>2. waitq \in [Proc -> Seq(Thread)] BY <2>1
  <2> QED BY <2>2 DEF TypeOK
<1>2. Tree
  <2>1. Existing = {Main} BY DEF Existing
  <2>2. TreeCount BY <2>1, FS_Singleton DEF TreeCount
  <2> QED BY <2>2 DEF TreeChildren, TreeParents, TreeDead, TreeAlive
<1>3. Owners BY DEF Owners
<1>4. Queues
  <2>1. IsInjective(<<>>) BY DEF IsInjective
  <2>2. \A x : ~Contains(<<>>, x) BY DEF Contains
  <2> QED BY <2>1, <2>2 DEF QueuesShape, QueuesHold, WaitersHeld, ExitedDead
<1>5. WaitersServed /\ Joins BY DEF WaitersServed, Joins
<1>6. KnownFailures BY DEF KnownFailures
<1> QED BY <1>1, <1>2, <1>3, <1>4, <1>5, <1>6 DEF ProcessInv

\* The invariant behind the theorems that follow: the family tree, the threads of each
\* process, the wait queues, and the two ends of each wait for a child agree.
THEOREM ProcessInvariant == Spec => [](ProcessInv /\ KnownFailures)
<1>1. Init => ProcessInv /\ KnownFailures BY InitInv
<1>2. ProcessInv /\ KnownFailures /\ [Next]_vars => (ProcessInv /\ KnownFailures)'
  <2> SUFFICES ASSUME ProcessInv, KnownFailures, [Next]_vars
               PROVE  (ProcessInv /\ KnownFailures)'
    OBVIOUS
  <2>1. CASE UNCHANGED vars
    <3>1. ProcessInv'
      BY <2>1 DEF vars, ProcessInv, TypeOK, Existing, TreeCount, TreeChildren, TreeParents,
                  TreeDead, TreeAlive, Owners, QueuesShape, QueuesHold, WaitersHeld,
                  ExitedDead, WaitersServed, Joins
    <3>2. KnownFailures' BY <2>1 DEF vars, KnownFailures
    <3> QED BY <3>1, <3>2
  <2>2. CASE Next
    <3>1. CASE Stops BY <3>1, StopStep DEF Stops
    <3>2. CASE Releases
      <4>1. ProcessInv' BY <3>2, ReleaseStep DEF Releases
      <4>2. fail' = "none" BY <2>2, <3>2, StepCases DEF Releases, Release
      <4> QED BY <4>1, <4>2 DEF KnownFailures
    <3>3. CASE Lives
      <4>1. fail' = "none" BY <2>2, <3>3, StepCases DEF Lives
      <4> QED BY <3>3, <4>1 DEF KnownFailures, Lives
    <3> QED BY <2>2, <3>1, <3>2, <3>3, StepCases
  <2> QED BY <2>1, <2>2
<1> QED BY <1>1, <1>2, PTL DEF Spec

\* The family tree survives every order of forks, exits and releases, for any number of
\* processes and threads.
THEOREM ProcessTreeKept == Spec => []ProcessTree
<1>1. ProcessInv => ProcessTree
  BY DEF ProcessInv, ProcessTree, Existing, TreeCount, TreeChildren, TreeParents, TreeDead, TreeAlive
<1> QED BY <1>1, ProcessInvariant, PTL

\* No wait queue holds a thread that is gone, no thread sleeps in a futex where a wake
\* cannot find it, and nobody waits for a child whose main thread has ended.
THEOREM ProcessWaitersSound == Spec => []WaitersSound
<1>1. ProcessInv => FutexQueuesLive
  <2> SUFFICES ASSUME ProcessInv, NEW p \in Proc
               PROVE  /\ IsInjective(waitq[p])
                      /\ \A t \in Thread :
                          /\ Contains(waitq[p], t) => owner[t] = p /\ st[t] \in {"WAITING", "ZOMBIE"}
                          /\ st[t] = "WAITING" /\ owner[t] = p => Contains(waitq[p], t)
                      /\ pstat[p] = "none" => ThreadsOf(p) = {} /\ waitq[p] = <<>>
                      /\ pstat[p] = "exited" => \A t \in ThreadsOf(p) : st[t] = "ZOMBIE"
    BY DEF FutexQueuesLive
  <2> USE DEF ProcessInv
  <2>1. pstat[p] = "none" => ThreadsOf(p) = {} BY DEF Owners, ThreadsOf
  <2>2. pstat[p] = "exited" => \A t \in ThreadsOf(p) : st[t] = "ZOMBIE"
    BY DEF ExitedDead, ThreadsOf
  <2> QED BY <2>1, <2>2 DEF QueuesShape, QueuesHold, WaitersHeld
<1>2. ProcessInv => WaitersSound BY <1>1 DEF ProcessInv, WaitersSound
<1> QED BY <1>2, ProcessInvariant, PTL

\* An assertion on the way of waitpid fails, or freed memory is used, for no other
\* reasons than the ones KnownFailures names.
THEOREM ProcessFailuresKnown == Spec => []KnownFailures
BY ProcessInvariant, PTL

\* A process is released by its parent, among whose dead children it is, after it has
\* exited and all its threads have ended.
THEOREM ProcessReleased == Spec => ReleasedAfterExit
<1> DEFINE A == \A q \in Proc : pstat[q] # "none" /\ pstat'[q] = "none" =>
          /\ pstat[q] = "exited"
          /\ q \in deadChildren[parent[q]]
          /\ \A t \in ThreadsOf(q) : st[t] = "ZOMBIE"
<1>1. ProcessInv /\ [Next]_vars => [A]_vars
  <2> SUFFICES ASSUME ProcessInv, Next PROVE A BY DEF vars
  <2>1. CASE Stops BY <2>1 DEF Stops, Stop
  <2>2. CASE Releases
    <3>1. PICK t \in Thread, q \in Proc :
            st[t] = "READY" /\ q \in deadChildren[owner[t]] /\ Release(t, q)
      BY <2>2 DEF Releases
    <3>2. owner[t] \in Proc BY <3>1, CallerLives
    <3>3. pstat[q] = "exited" /\ parent[q] = owner[t]
      BY <3>1, <3>2 DEF ProcessInv, TreeDead
    <3>4. \A x \in ThreadsOf(q) : st[x] = "ZOMBIE"
      BY <3>3 DEF ProcessInv, ExitedDead, ThreadsOf
    <3>5. \A r \in Proc \ {q} : pstat'[r] = pstat[r]
      BY <3>1 DEF Release, ProcessInv, TypeOK
    <3> QED BY <3>1, <3>3, <3>4, <3>5
  <2>3. CASE Lives BY <2>3 DEF Lives
  <2> QED BY <2>1, <2>2, <2>3, StepCases
<1>2. [](ProcessInv /\ KnownFailures) /\ [][Next]_vars => [][A]_vars BY <1>1, PTL
<1> QED BY <1>2, ProcessInvariant, PTL DEF Spec, ReleasedAfterExit

================================================================================
