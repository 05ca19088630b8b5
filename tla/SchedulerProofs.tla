---------------------------- MODULE SchedulerProofs ----------------------------
(***************************************************************************)
(* Proofs about the scheduler, for any number of threads, priorities and   *)
(* ticks: the tables always agree with the states of the threads, the idle *)
(* thread can always be elected, a sleep lasts long enough, and a thread   *)
(* structure is released only when its thread is dead.                     *)
(***************************************************************************)
EXTENDS Scheduler, KQueueSeqProofs

USE ConstantsAssumption DEF Thread, Prio

\* select_thread finds a thread in every non-empty set of queues.
LEMMA ElectInQueue ==
    ASSUME prio \in [Thread -> Prio], NEW q \in Seq(Thread), Len(q) # 0
    PROVE  Elect(q) \in 1 .. Len(q)
<1>1. Len(q) \in Nat /\ \A i \in 1 .. Len(q) : q[i] \in Thread /\ prio[q[i]] \in Nat
  OBVIOUS
<1>2. PICK i \in 1 .. Len(q) : \A j \in 1 .. Len(q) : prio[q[i]] <= prio[q[j]]
  <2> DEFINE P == {prio[q[i]] : i \in 1 .. Len(q)}
  <2>1. P \in SUBSET Nat /\ P # {}
    BY <1>1
  <2>2. PICK p \in P : \A r \in P : p <= r
    BY ONLY <2>1, LeastNatural
  <2> QED BY <2>2, SMTT(30)
<1>3. PICK k \in 1 .. Len(q) :
         /\ prio[q[k]] = prio[q[i]]
         /\ \A j \in 1 .. Len(q) : prio[q[j]] = prio[q[i]] => j <= k
  <2> DEFINE D == {Len(q) - j : j \in {k \in 1 .. Len(q) : prio[q[k]] = prio[q[i]]}}
  <2>1. D \in SUBSET Nat /\ D # {}
    BY <1>1
  <2>2. PICK d \in D : \A e \in D : d <= e
    BY ONLY <2>1, LeastNatural
  <2>3. PICK k \in 1 .. Len(q) : d = Len(q) - k /\ prio[q[k]] = prio[q[i]]
    BY <2>2
  <2>4. ASSUME NEW j \in 1 .. Len(q), prio[q[j]] = prio[q[i]] PROVE j <= k
    <3>1. Len(q) - j \in D
      BY <2>4
    <3>2. d <= Len(q) - j
      BY <2>2, <3>1
    <3> HIDE DEF D
    <3> QED BY <1>1, <3>2, <2>3
  <2> QED BY <2>3, <2>4
<1> DEFINE Q(x) == \A j \in 1 .. Len(q) :
                       /\ prio[q[x]] <= prio[q[j]]
                       /\ prio[q[x]] = prio[q[j]] => j <= x
<1>4. Q(k)
  BY <1>2, <1>3
<1>5. Elect(q) = CHOOSE x \in 1 .. Len(q) : Q(x)
  BY DEF Elect
<1> HIDE DEF Q
<1> QED BY <1>4, <1>5

\* The wake up loop of select_thread pops sleepers whose time is over, and the
\* others stay.
LEMMA NbExpiredProperties ==
    ASSUME NEW lft, NEW q \in Seq(Thread)
    PROVE  /\ NbExpired(q, lft) \in 0 .. Len(q)
           /\ \A i \in Len(q) - NbExpired(q, lft) + 1 .. Len(q) : lft[q[i]] < 0
<1> DEFINE L == Len(q)
           I == {i \in 1 .. L : \A j \in i .. L : lft[q[j]] < 0}
<1>1. L \in Nat /\ I \in SUBSET (1 .. L)
  OBVIOUS
<1>2. IsFiniteSet(I) /\ Cardinality(I) \in 0 .. L
  BY ONLY <1>1, CountInQueue
<1>3. NbExpired(q, lft) = Cardinality(I)
  BY DEF NbExpired
<1>4. ASSUME NEW i \in L - Cardinality(I) + 1 .. L, ~(lft[q[i]] < 0)
      PROVE  FALSE
  <2>1. i \in 1 .. L
    BY <1>1, <1>2
  <2>2. \A k \in I : k > i
    <3> SUFFICES ASSUME NEW k \in I, ~(k > i) PROVE FALSE
      OBVIOUS
    <3>1. i \in k .. L
      BY <1>1, <2>1
    <3> QED BY <3>1, <1>4
  <2>3. I \in SUBSET (i + 1 .. L)
    BY <1>1, <2>1, <2>2
  <2> HIDE DEF I, L
  <2>4. IsFiniteSet(i + 1 .. L) /\ Cardinality(i + 1 .. L) = IF i + 1 > L THEN 0 ELSE L - i
    <3>1. i + 1 \in Int /\ L \in Int
      BY <1>1, <2>1
    <3>2. L - (i + 1) + 1 = L - i
      BY <1>1, <2>1
    <3> QED BY <3>1, <3>2, FS_Interval
  <2>5. Cardinality(I) <= Cardinality(i + 1 .. L)
    BY <2>3, <2>4, FS_Subset
  <2> QED BY <1>1, <1>2, <1>4, <2>1, <2>4, <2>5
<1> QED BY <1>2, <1>3, <1>4

\* The sleeper that is not due yet goes back among the sleepers.
LEMMA PutBackProperties ==
    ASSUME NEW q \in Seq(Thread)
    PROVE  /\ PutBack(q) \in Seq(Thread)
           /\ \A x : Contains(PutBack(q), x) <=> Contains(q, x)
           /\ IsInjective(q) => IsInjective(PutBack(q))
<1>1. CASE q = <<>>
  BY <1>1 DEF PutBack
<1>2. CASE q # <<>>
  <2> DEFINE f == SubSeq(q, 1, Len(q) - 1)
             l == SubSeq(q, Len(q), Len(q))
  <2>1. Len(q) \in Nat \ {0} /\ Len(q) - 1 \in 0 .. Len(q) /\ Len(q) = (Len(q) - 1) + 1
    BY <1>2
  <2>2. /\ f \in Seq(Thread)
        /\ \A x : Contains(q, x) <=> Contains(f, x) \/ Contains(l, x)
        /\ IsInjective(q) => IsInjective(f) /\ \A x : ~(Contains(f, x) /\ Contains(l, x))
    BY <2>1, CutQueue
  <2>3. q[Len(q)] \in Thread
    BY <2>1
  <2>4. \A x : Contains(l, x) <=> x = q[Len(q)]
    <3>1. Len(l) = 1 /\ l[1] = q[Len(q)]
      BY <2>1
    <3> HIDE DEF l
    <3> QED BY <3>1 DEF Contains
  <2>5. PutBack(q) = PushPrio(f, q[Len(q)], wkey)
    BY <1>2 DEF PutBack, Front, Last
  <2> HIDE DEF f, l
  <2>6. /\ PushPrio(f, q[Len(q)], wkey) \in Seq(Thread)
        /\ \A x : Contains(PushPrio(f, q[Len(q)], wkey), x) <=> x = q[Len(q)] \/ Contains(f, x)
        /\ IsInjective(f) /\ ~Contains(f, q[Len(q)])
              => IsInjective(PushPrio(f, q[Len(q)], wkey))
    BY ONLY <2>2, <2>3, PushPrioProperties, ZenonT(40)
  <2> QED BY ONLY <2>2, <2>4, <2>5, <2>6
<1> QED BY <1>1, <1>2

\* select_thread keeps the tables in agreement with the states, elects a thread,
\* and touches the state of no thread that is not ready, running or due to wake.
LEMMA SelectThreadProperties ==
    ASSUME TypeOK, NEW st \in [Thread -> States], NEW rq \in Seq(Thread), NEW lft,
           Tables(st, rq), SelectThread(st, rq, lft)
    PROVE  /\ state' \in [Thread -> States]
           /\ runq' \in Seq(Thread) /\ sleepq' \in Seq(Thread)
           /\ active' \in Thread /\ activeNode' = active'
           /\ state'[active'] = "RUNNING"
           /\ Tables(state, runq)'
           /\ \A t \in Thread :
                \/ state'[t] = st[t]
                \/ /\ st[t] \in {"RUNNING", "READY", "SLEEPING"}
                   /\ state'[t] \in {"RUNNING", "READY"}
                   /\ st[t] = "SLEEPING" => lft[t] < 0
<1> DEFINE running == st[active] = "RUNNING"
           ready   == IF running THEN Push(rq, active) ELSE rq
           asleep  == IF st[active] = "SLEEPING"
                      THEN PushPrio(sleepq, active, wkey) ELSE sleepq
           n       == Len(asleep) - NbExpired(asleep, lft)
           woken   == SubSeq(asleep, n + 1, Len(asleep))
           rest    == SubSeq(asleep, 1, n)
           queue   == woken \o ready
           e       == Elect(queue)
<1>1. /\ runq' = RemoveAt(queue, e)
      /\ sleepq' = PutBack(rest)
      /\ state' = [t \in Thread |->
                      IF t = queue[e] THEN "RUNNING"
                      ELSE IF t \in ToSet(woken) \/ (running /\ t = active)
                      THEN "READY" ELSE st[t]]
      /\ active' = queue[e]
      /\ activeNode' = queue[e]
  BY Zenon DEF SelectThread
<1>2. /\ active \in Thread /\ sleepq \in Seq(Thread) /\ prio \in [Thread -> Prio]
      /\ IsInjective(rq) /\ IsInjective(sleepq)
      /\ \A t \in Thread :
            /\ Contains(rq, t) <=> st[t] = "READY"
            /\ Contains(sleepq, t) <=> st[t] = "SLEEPING" /\ t # active
            /\ st[t] = "RUNNING" => t = active
      /\ IF active = Idle THEN st[Idle] \in {"RUNNING", "READY"} ELSE Contains(rq, Idle)
  BY DEF TypeOK, Tables
<1>3. /\ ready \in Seq(Thread) /\ IsInjective(ready)
      /\ \A t \in Thread : Contains(ready, t) <=> st[t] \in {"READY", "RUNNING"}
  <2>1. CASE running
    BY <1>2, <2>1, PushProperties
  <2>2. CASE ~running
    BY <1>2, <2>2
  <2> QED BY <2>1, <2>2
<1>4. /\ asleep \in Seq(Thread) /\ IsInjective(asleep)
      /\ \A t \in Thread : Contains(asleep, t) <=> st[t] = "SLEEPING"
  <2>1. CASE st[active] = "SLEEPING"
    BY <1>2, <2>1, PushPrioProperties
  <2>2. CASE st[active] # "SLEEPING"
    BY <1>2, <2>2
  <2> QED BY <2>1, <2>2
<1> HIDE DEF ready, asleep
<1>5. /\ n \in 0 .. Len(asleep)
      /\ \A i \in n + 1 .. Len(asleep) : lft[asleep[i]] < 0
  <2>1. /\ NbExpired(asleep, lft) \in 0 .. Len(asleep)
        /\ \A i \in Len(asleep) - NbExpired(asleep, lft) + 1 .. Len(asleep) : lft[asleep[i]] < 0
    BY <1>4, NbExpiredProperties
  <2> QED BY <2>1, <1>4
<1> HIDE DEF n
<1>6. /\ rest \in Seq(Thread) /\ woken \in Seq(Thread)
      /\ IsInjective(rest) /\ IsInjective(woken)
      /\ \A t \in Thread : st[t] = "SLEEPING" <=> Contains(rest, t) \/ Contains(woken, t)
      /\ \A t \in Thread : ~(Contains(rest, t) /\ Contains(woken, t))
  BY <1>4, <1>5, CutQueue
<1>7. /\ ToSet(woken) \in SUBSET Thread
      /\ \A t \in Thread : t \in ToSet(woken) <=> Contains(woken, t)
      /\ \A t \in ToSet(woken) : lft[t] < 0
  <2>1. /\ DOMAIN woken = 1 .. Len(woken)
        /\ Len(woken) = Len(asleep) - n
        /\ \A i \in 1 .. Len(woken) : woken[i] = asleep[n + i] /\ n + i \in n + 1 .. Len(asleep)
    BY <1>4, <1>5
  <2>2. \A t \in ToSet(woken) : lft[t] < 0
    BY <2>1, <1>5, SMTT(30) DEF ToSet
  <2> HIDE DEF woken
  <2>3. \A t : t \in ToSet(woken) <=> Contains(woken, t)
    BY <2>1 DEF ToSet, Contains
  <2>4. ToSet(woken) \in SUBSET Thread
    BY <2>1, <1>6 DEF ToSet
  <2> QED BY <2>2, <2>3, <2>4
<1> HIDE DEF rest, woken
<1>8. /\ queue \in Seq(Thread) /\ IsInjective(queue)
      /\ \A t \in Thread : Contains(queue, t) <=>
            Contains(woken, t) \/ st[t] \in {"READY", "RUNNING"}
  <2>1. \A t \in Thread : ~(Contains(woken, t) /\ Contains(ready, t))
    BY <1>3, <1>6
  <2>2. /\ woken \o ready \in Seq(Thread)
        /\ \A x : Contains(woken \o ready, x) <=> Contains(woken, x) \/ Contains(ready, x)
        /\ IsInjective(woken \o ready)
    BY ONLY <1>3, <1>6, <2>1, ConcatQueues
  <2> QED BY ONLY <2>2, <1>3
<1> HIDE DEF queue
<1>9. Contains(queue, Idle)
  BY <1>2, <1>8
<1>10. e \in 1 .. Len(queue)
  <2>1. Len(queue) # 0
    BY <1>9, <1>8 DEF Contains
  <2> QED BY <2>1, <1>2, <1>8, ElectInQueue
<1> HIDE DEF e
<1>11. queue[e] \in Thread /\ Contains(queue, queue[e])
  BY <1>8, <1>10 DEF Contains
<1>12. /\ runq' \in Seq(Thread) /\ IsInjective(runq')
       /\ \A t \in Thread : Contains(runq', t) <=> Contains(queue, t) /\ t # queue[e]
  BY <1>1, <1>8, <1>10, RemoveAtQueue
<1>13. /\ sleepq' \in Seq(Thread) /\ IsInjective(sleepq')
       /\ \A t \in Thread : Contains(sleepq', t) <=> Contains(rest, t)
  BY <1>1, <1>6, PutBackProperties
<1>14. \A t \in Thread :
          state'[t] = IF t = queue[e] THEN "RUNNING"
                      ELSE IF Contains(woken, t) \/ (running /\ t = active)
                      THEN "READY" ELSE st[t]
  BY <1>1, <1>7
<1>15. state' \in [Thread -> States]
  BY <1>1 DEF States
<1>16. \A t \in Thread :
          /\ Contains(runq', t) <=> state'[t] = "READY"
          /\ Contains(sleepq', t) <=> state'[t] = "SLEEPING" /\ t # active'
          /\ state'[t] = "RUNNING" => t = active'
  BY <1>1, <1>2, <1>6, <1>8, <1>11, <1>12, <1>13, <1>14, ZenonT(40)
<1>17. IF active' = Idle THEN state'[Idle] \in {"RUNNING", "READY"} ELSE Contains(runq', Idle)
  BY <1>1, <1>9, <1>12, <1>14
<1>18. Tables(state, runq)'
  BY <1>12, <1>13, <1>16, <1>17 DEF Tables
<1>19. ASSUME NEW t \in Thread, state'[t] # st[t]
       PROVE  /\ st[t] \in {"RUNNING", "READY", "SLEEPING"}
              /\ state'[t] \in {"RUNNING", "READY"}
              /\ st[t] = "SLEEPING" => lft[t] < 0
  <2>1. CASE t = queue[e]
    BY <2>1, <1>6, <1>7, <1>8, <1>11, <1>14
  <2>2. CASE t # queue[e]
    BY <2>2, <1>6, <1>7, <1>14, <1>19
  <2> QED BY <2>1, <2>2
<1> QED BY <1>1, <1>11, <1>12, <1>13, <1>14, <1>15, <1>18, <1>19

--------------------------------------------------------------------------------
(* The inductive step, one lemma for the steps without an election and one for  *)
(* those that run select_thread.                                                *)

\* The elections of the timer and of the software scheduling interrupt.  The
\* handler may have blocked the active thread, or unlocked a waiting one, first
\* (st and rq); the thread that leaves the CPU may move from its call of the
\* scheduler to the return from it (l).
LEMMA ElectionStep ==
    ASSUME SchedInv,
           NEW st \in [Thread -> States], NEW rq \in Seq(Thread),
           NEW lft \in [Thread -> -1 .. MaxSleep],
           Tables(st, rq), SelectThread(st, rq, lft),
           \A t \in Thread :
              \/ st[t] = state[t]
              \/ /\ pc[t] = "run" /\ state[t] \in {"RUNNING", "WAITING"}
                 /\ st[t] \in {"WAITING", "READY"},
           left' = lft, \A t \in Thread : left[t] < 0 => lft[t] < 0,
           clock' \in 0 .. KeyMod - 1,
           UNCHANGED <<prio, joining, retval, wkey, threadCount, target>>,
           NEW l \in PC, pc' = [pc EXCEPT ![active] = l],
           \/ l = pc[active]
           \/ pc[active] = "sleep_sched" /\ l = "sleep_ret"
           \/ pc[active] = "join_sched" /\ l = "join_ret"
    PROVE  SchedInv'
<1>1. TypeOK /\ Positions /\ Sleeps /\ Joins
  BY DEF SchedInv
<1>3. /\ state' \in [Thread -> States]
      /\ runq' \in Seq(Thread) /\ sleepq' \in Seq(Thread)
      /\ active' \in Thread /\ activeNode' = active'
      /\ state'[active'] = "RUNNING"
      /\ Tables(state, runq)'
      /\ \A t \in Thread :
           \/ state'[t] = st[t]
           \/ /\ st[t] \in {"RUNNING", "READY", "SLEEPING"}
              /\ state'[t] \in {"RUNNING", "READY"}
              /\ st[t] = "SLEEPING" => lft[t] < 0
  BY <1>1, SelectThreadProperties
<1>4. TypeOK'
  BY <1>1, <1>3 DEF TypeOK
<1>5. \A t \in Thread :
        /\ pc'[t] \in {"exit_critical", "exit_sched"} <=> pc[t] \in {"exit_critical", "exit_sched"}
        /\ pc'[t] \in {"sleep_sched", "sleep_ret"} <=> pc[t] \in {"sleep_sched", "sleep_ret"}
        /\ pc'[t] \in {"join_sched", "join_ret"} <=> pc[t] \in {"join_sched", "join_ret"}
        /\ pc'[t] = "join_link" <=> pc[t] = "join_link"
        /\ pc'[t] = "run" <=> pc[t] = "run"
        /\ InJoin(t)' <=> InJoin(t)
  BY <1>1 DEF TypeOK, PC, InJoin
<1>6. /\ state'[active'] \notin {"SLEEPING", "JOINING", "ZOMBIE"}
      /\ \A t \in Thread : \A x \in {"NONE", "SLEEPING", "JOINING", "ZOMBIE"} :
            state'[t] = x => state[t] = x
      /\ \A t \in Thread : state'[t] = "WAITING" => state[t] = "WAITING" \/ pc[t] = "run"
      /\ \A t \in Thread : \A x \in {"NONE", "JOINING", "ZOMBIE"} :
            state[t] = x => state'[t] = x
      /\ \A t \in Thread : state[t] = "SLEEPING" /\ state'[t] # "SLEEPING" => left'[t] < 0
  BY <1>3, ZenonT(40)
<1>7. Positions'
  <2>1. pc'[Idle] = "run"
    BY <1>1, <1>5 DEF Positions
  <2>2. \A t \in Thread :
          /\ state'[t] = "ZOMBIE" <=> pc'[t] \in {"exit_critical", "exit_sched"}
          /\ state'[t] \in {"NONE", "WAITING"} => pc'[t] = "run"
          /\ state'[t] = "SLEEPING" => pc'[t] \in {"sleep_sched", "sleep_ret"}
          /\ state'[t] = "JOINING" => pc'[t] \in {"join_link", "join_sched", "join_ret"}
          /\ pc'[t] = "join_link" => state'[t] = "JOINING"
    BY <1>1, <1>5, <1>6 DEF Positions
  <2>3. pc'[active'] # "exit_sched"
    BY <1>3, <1>6, <2>2
  <2> QED BY <1>3, <2>1, <2>2, <2>3 DEF Positions
<1>8. Sleeps'
  BY <1>1, <1>5, <1>6 DEF Sleeps
<1>9. Joins'
  <2>1. \A t \in Thread : InJoin(t) => target[t] \in Thread
    BY <1>1 DEF Joins
  <2>2. \A t \in Thread :
          /\ InJoin(t)' => target[t] \in Thread \ {t, Idle} /\ state'[target[t]] # "NONE"
          /\ pc'[t] \in {"join_sched", "join_ret"} /\ state'[t] # "JOINING" =>
                 state'[target[t]] = "ZOMBIE" /\ retval[target[t]]
    BY <1>1, <1>5, <1>6, <2>1 DEF Joins, InJoin
  <2>3. \A t, u \in Thread :
          /\ InJoin(t)' /\ InJoin(u)' /\ target[t] = target[u] => t = u
          /\ joining[u] = t => pc'[t] \in {"join_sched", "join_ret"} /\ target[t] = u
    BY <1>1, <1>5 DEF Joins
  <2> QED BY <2>2, <2>3 DEF Joins
<1> QED BY <1>3, <1>4, <1>7, <1>8, <1>9 DEF SchedInv

\* Every step that ends in an election keeps the invariant.
LEMMA ElectionSteps ==
    ASSUME SchedInv,
           \/ Timer
           \/ \E t \in Thread :
                \/ Yield(t) \/ Block(t) \/ SleepSchedule(t)
                \/ ExitSchedule(t) \/ JoinSchedule(t)
                \/ \E u \in Thread : UnlockAndSchedule(t, u)
    PROVE  SchedInv'
<1>1. /\ TypeOK /\ Tables(state, runq) /\ Positions
      /\ state \in [Thread -> States] /\ runq \in Seq(Thread) /\ active \in Thread
      /\ left \in [Thread -> -1 .. MaxSleep] /\ clock \in 0 .. KeyMod - 1
      /\ pc \in [Thread -> PC] /\ pc = [pc EXCEPT ![active] = pc[active]]
  BY DEF SchedInv, TypeOK
<1>2. \A t \in Thread : Calls(t) => t = active /\ pc[t] = "run" /\ state[t] = "RUNNING"
  BY <1>1 DEF Calls, Positions
<1>3. CASE Timer
  <2> DEFINE lft == [t \in Thread |-> IF left[t] < 0 THEN -1 ELSE left[t] - 1]
  <2>1. lft \in [Thread -> -1 .. MaxSleep] /\ \A t \in Thread : left[t] < 0 => lft[t] < 0
    BY <1>1
  <2>2. /\ left' = lft /\ SelectThread(state, runq, left')
        /\ clock' = (clock + 1) % KeyMod
        /\ UNCHANGED <<prio, joining, retval, wkey, threadCount, pc, target>>
    BY <1>3 DEF Timer
  <2>3. SelectThread(state, runq, lft)
    BY <2>2 DEF SelectThread
  <2>4. clock' \in 0 .. KeyMod - 1
    BY <1>1, <2>2
  <2> HIDE DEF lft
  <2> QED BY <1>1, <2>1, <2>2, <2>3, <2>4, ElectionStep
<1>4. ASSUME NEW t \in Thread, Yield(t) \/ ExitSchedule(t) PROVE SchedInv'
  <2>1. /\ SelectThread(state, runq, left)
        /\ UNCHANGED <<prio, joining, retval, left, wkey, clock, threadCount, pc, target>>
    BY <1>4 DEF Yield, ExitSchedule
  <2> QED BY <1>1, <2>1, ElectionStep
<1>5. ASSUME NEW t \in Thread, SleepSchedule(t) \/ JoinSchedule(t) PROVE SchedInv'
  <2>1. PICK l \in PC :
          /\ \/ pc[active] = "sleep_sched" /\ l = "sleep_ret"
             \/ pc[active] = "join_sched" /\ l = "join_ret"
          /\ SelectThread(state, runq, left)
          /\ pc' = [pc EXCEPT ![active] = l]
          /\ UNCHANGED <<prio, joining, retval, left, wkey, clock, threadCount, target>>
    BY <1>5 DEF SleepSchedule, JoinSchedule, At, Goto, PC
  <2> QED BY <1>1, <2>1, ElectionStep
<1>6. ASSUME NEW t \in Thread, Block(t) PROVE SchedInv'
  <2> DEFINE st == [state EXCEPT ![t] = "WAITING"]
  <2>1. /\ SelectThread(st, runq, left)
        /\ UNCHANGED <<prio, joining, retval, left, wkey, clock, threadCount, pc, target>>
        /\ t = active /\ t # Idle /\ pc[t] = "run" /\ state[t] = "RUNNING"
    BY <1>2, <1>6 DEF Block, Calls
  <2>2. st \in [Thread -> States]
    BY <1>1 DEF States
  <2>3. /\ \A u \in Thread : u # t => st[u] = state[u]
        /\ st[t] = "WAITING"
    BY <1>1
  <2> HIDE DEF st
  <2>4. Tables(st, runq)
    BY <1>1, <2>1, <2>3 DEF Tables
  <2> QED BY <1>1, <2>1, <2>2, <2>3, <2>4, ElectionStep
<1>7. ASSUME NEW t \in Thread, NEW u \in Thread, UnlockAndSchedule(t, u) PROVE SchedInv'
  <2> DEFINE st == [state EXCEPT ![u] = "READY"]
             rq == Push(runq, u)
  <2>1. /\ SelectThread(st, rq, left)
        /\ UNCHANGED <<prio, joining, retval, left, wkey, clock, threadCount, pc, target>>
        /\ t = active /\ state[t] = "RUNNING" /\ state[u] = "WAITING" /\ t # Idle
    BY <1>2, <1>7 DEF UnlockAndSchedule, Calls
  <2>2. st \in [Thread -> States]
    BY <1>1 DEF States
  <2>3. /\ \A v \in Thread : v # u => st[v] = state[v]
        /\ st[u] = "READY"
    BY <1>1
  <2>4. ~Contains(runq, u)
    BY <1>1, <2>1 DEF Tables
  <2>5. /\ rq \in Seq(Thread) /\ IsInjective(rq)
        /\ \A v : Contains(rq, v) <=> v = u \/ Contains(runq, v)
    BY <1>1, <2>4, PushProperties DEF Tables
  <2> HIDE DEF st, rq
  <2>6. Tables(st, rq)
    BY <1>1, <2>1, <2>3, <2>5 DEF Tables
  <2>7. pc[u] = "run"
    BY <1>1, <2>1 DEF Positions
  <2> QED BY <1>1, <2>1, <2>2, <2>3, <2>5, <2>6, <2>7, ElectionStep
<1> QED BY <1>3, <1>4, <1>5, <1>6, <1>7

\* A step that leaves the links of the joins alone keeps what is known of them.
LEMMA JoinsKept ==
    ASSUME Joins, UNCHANGED <<joining, target, retval>>,
           \A v \in Thread :
              /\ InJoin(v)' <=> InJoin(v)
              /\ pc'[v] \in {"join_sched", "join_ret"} <=> pc[v] \in {"join_sched", "join_ret"}
              /\ state[v] = "ZOMBIE" => state'[v] = "ZOMBIE"
              /\ state[v] # "NONE" => state'[v] # "NONE"
              /\ state[v] = "JOINING" => state'[v] = "JOINING"
    PROVE  Joins'
<1>1. \A t \in Thread : InJoin(t) => target[t] \in Thread
  BY DEF Joins
<1>2. \A t \in Thread :
        /\ InJoin(t)' => target'[t] \in Thread \ {t, Idle} /\ state'[target'[t]] # "NONE"
        /\ pc'[t] \in {"join_sched", "join_ret"} /\ state'[t] # "JOINING" =>
               state'[target'[t]] = "ZOMBIE" /\ retval'[target'[t]]
  BY <1>1 DEF Joins, InJoin
<1>3. \A t, u \in Thread :
        /\ InJoin(t)' /\ InJoin(u)' /\ target'[t] = target'[u] => t = u
        /\ joining'[u] = t => pc'[t] \in {"join_sched", "join_ret"} /\ target'[t] = u
  BY DEF Joins
<1> QED BY <1>2, <1>3 DEF Joins

\* The steps of sched_sleep, and the change of priority.
LEMMA SleepSteps ==
    ASSUME SchedInv,
           \E t \in Thread :
              \/ \E p \in 0 .. LowestPrio + 1 : SetPriority(t, p)
              \/ \E d \in 0 .. MaxSleep : SleepTime(t, d)
              \/ SleepState(t) \/ SleepReturn(t)
    PROVE  SchedInv'
<1>1. /\ TypeOK /\ Tables(state, runq) /\ Positions /\ Sleeps /\ Joins
      /\ state \in [Thread -> States] /\ pc \in [Thread -> PC]
  BY DEF SchedInv, TypeOK
<1>2. ASSUME NEW t \in Thread, NEW p \in 0 .. LowestPrio + 1, SetPriority(t, p) PROVE SchedInv'
  <2>1. /\ t = active /\ p \in Prio
        /\ prio' = [prio EXCEPT ![t] = p]
        /\ UNCHANGED <<state, joining, retval, left, wkey, clock, runq, sleepq,
                       active, activeNode, threadCount, pc, target>>
    BY <1>1, <1>2 DEF SetPriority, PC, At, Calls, Goto, Positions
  <2>2. TypeOK'
    BY <1>1, <2>1 DEF TypeOK, States, PC
  <2>3. Tables(state, runq)'
    BY <1>1, <2>1 DEF Tables, TypeOK
  <2>4. Positions'
    BY <1>1, <2>1 DEF Positions, TypeOK, PC
  <2>5. Sleeps'
    BY <1>1, <2>1 DEF Sleeps, Positions, TypeOK, PC
  <2>6. \A v \in Thread :
          /\ InJoin(v)' <=> InJoin(v)
          /\ pc'[v] \in {"join_sched", "join_ret"} <=> pc[v] \in {"join_sched", "join_ret"}
          /\ state[v] = "ZOMBIE" => state'[v] = "ZOMBIE"
          /\ state[v] # "NONE" => state'[v] # "NONE"
          /\ state[v] = "JOINING" => state'[v] = "JOINING"
    BY <1>1, <2>1 DEF InJoin, PC
  <2>7. Joins'
    BY <1>1, <2>1, <2>6, JoinsKept
  <2> QED BY <2>2, <2>3, <2>4, <2>5, <2>7 DEF SchedInv
<1>3. ASSUME NEW t \in Thread, NEW d \in 0 .. MaxSleep, SleepTime(t, d) PROVE SchedInv'
  <2>1. /\ t = active /\ pc[t] = "run" /\ state[t] = "RUNNING" /\ t # Idle
        /\ left' = [left EXCEPT ![t] = d]
        /\ wkey' = [wkey EXCEPT ![t] = (clock + d) % KeyMod]
        /\ pc' = [pc EXCEPT ![t] = "sleep_state"]
        /\ UNCHANGED <<state, prio, joining, retval, clock, runq, sleepq, active,
                       activeNode, threadCount, target>>
    BY <1>1, <1>3 DEF SleepTime, PC, At, Calls, Goto, Positions
  <2>2. TypeOK'
    <3>1. clock \in 0 .. KeyMod - 1 /\ left \in [Thread -> -1 .. MaxSleep]
          /\ wkey \in [Thread -> 0 .. KeyMod - 1]
      BY <1>1 DEF TypeOK
    <3>2. (clock + d) % KeyMod \in 0 .. KeyMod - 1
      BY <3>1
    <3>3. wkey' \in [Thread -> 0 .. KeyMod - 1]
      BY <2>1, <3>1, <3>2
    <3>4. d \in -1 .. MaxSleep
      OBVIOUS
    <3>5. left' \in [Thread -> -1 .. MaxSleep]
      BY <2>1, <3>1, <3>4
    <3>6. pc' \in [Thread -> PC]
      BY <1>1, <2>1 DEF PC
    <3> QED BY <1>1, <2>1, <3>3, <3>5, <3>6 DEF TypeOK
  <2>3. Tables(state, runq)'
    BY <1>1, <2>1 DEF Tables, TypeOK
  <2>4. Positions'
    BY <1>1, <2>1 DEF Positions, TypeOK, PC
  <2>5. Sleeps'
    BY <1>1, <2>1 DEF Sleeps, Positions, TypeOK, PC
  <2>6. \A v \in Thread :
          /\ InJoin(v)' <=> InJoin(v)
          /\ pc'[v] \in {"join_sched", "join_ret"} <=> pc[v] \in {"join_sched", "join_ret"}
          /\ state[v] = "ZOMBIE" => state'[v] = "ZOMBIE"
          /\ state[v] # "NONE" => state'[v] # "NONE"
          /\ state[v] = "JOINING" => state'[v] = "JOINING"
    BY <1>1, <2>1 DEF InJoin, PC
  <2>7. Joins'
    BY <1>1, <2>1, <2>6, JoinsKept
  <2> QED BY <2>2, <2>3, <2>4, <2>5, <2>7 DEF SchedInv
<1>4. ASSUME NEW t \in Thread, SleepState(t) PROVE SchedInv'
  <2>1. /\ t = active /\ pc[t] = "sleep_state" /\ t # Idle
        /\ state[t] = "RUNNING"
        /\ state' = [state EXCEPT ![t] = "SLEEPING"]
        /\ pc' = [pc EXCEPT ![t] = "sleep_sched"]
        /\ UNCHANGED <<prio, joining, retval, left, wkey, clock, runq, sleepq,
                       active, activeNode, threadCount, target>>
    BY <1>1, <1>4 DEF SleepState, PC, At, Calls, Goto, Positions
  <2>2. TypeOK'
    BY <1>1, <2>1 DEF TypeOK, States, PC
  <2>3. Tables(state, runq)'
    BY <1>1, <2>1 DEF Tables, TypeOK
  <2>4. Positions'
    BY <1>1, <2>1 DEF Positions, TypeOK, PC
  <2>5. Sleeps'
    BY <1>1, <2>1 DEF Sleeps, Positions, TypeOK, PC
  <2>6. \A v \in Thread :
          /\ InJoin(v)' <=> InJoin(v)
          /\ pc'[v] \in {"join_sched", "join_ret"} <=> pc[v] \in {"join_sched", "join_ret"}
          /\ state[v] = "ZOMBIE" => state'[v] = "ZOMBIE"
          /\ state[v] # "NONE" => state'[v] # "NONE"
          /\ state[v] = "JOINING" => state'[v] = "JOINING"
    BY <1>1, <2>1 DEF InJoin, PC
  <2>7. Joins'
    BY <1>1, <2>1, <2>6, JoinsKept
  <2> QED BY <2>2, <2>3, <2>4, <2>5, <2>7 DEF SchedInv
<1>5. ASSUME NEW t \in Thread, SleepReturn(t) PROVE SchedInv'
  <2>1. /\ t = active /\ pc[t] = "sleep_ret" /\ t # Idle
        /\ state[t] = "RUNNING"
        /\ wkey' = [wkey EXCEPT ![t] = 0]
        /\ pc' = [pc EXCEPT ![t] = "run"]
        /\ UNCHANGED <<state, prio, joining, retval, left, clock, runq, sleepq,
                       active, activeNode, threadCount, target>>
    BY <1>1, <1>5 DEF SleepReturn, PC, At, Calls, Goto, Positions
  <2>2. TypeOK'
    <3>0. 0 \in 0 .. KeyMod - 1
      OBVIOUS
    <3>1. 0 \in 0 .. KeyMod - 1 /\ wkey \in [Thread -> 0 .. KeyMod - 1]
      BY <1>1, <3>0 DEF TypeOK
    <3>2. wkey' \in [Thread -> 0 .. KeyMod - 1]
      BY <2>1, <3>1
    <3>3. pc' \in [Thread -> PC]
      BY <1>1, <2>1 DEF PC
    <3> QED BY <1>1, <2>1, <3>2, <3>3 DEF TypeOK
  <2>3. Tables(state, runq)'
    BY <1>1, <2>1 DEF Tables, TypeOK
  <2>4. Positions'
    BY <1>1, <2>1 DEF Positions, TypeOK, PC
  <2>5. Sleeps'
    BY <1>1, <2>1 DEF Sleeps, Positions, TypeOK, PC
  <2>6. \A v \in Thread :
          /\ InJoin(v)' <=> InJoin(v)
          /\ pc'[v] \in {"join_sched", "join_ret"} <=> pc[v] \in {"join_sched", "join_ret"}
          /\ state[v] = "ZOMBIE" => state'[v] = "ZOMBIE"
          /\ state[v] # "NONE" => state'[v] # "NONE"
          /\ state[v] = "JOINING" => state'[v] = "JOINING"
    BY <1>1, <2>1 DEF InJoin, PC
  <2>7. Joins'
    BY <1>1, <2>1, <2>6, JoinsKept
  <2> QED BY <2>2, <2>3, <2>4, <2>5, <2>7 DEF SchedInv
<1> QED BY <1>2, <1>3, <1>4, <1>5

\* Creation of a thread and unlocking of a waiting one.
LEMMA CreateSteps ==
    ASSUME SchedInv,
           \E t, u \in Thread : Unlock(t, u) \/ \E p \in Prio : Create(t, u, p)
    PROVE  SchedInv'
<1>1. /\ TypeOK /\ Tables(state, runq) /\ Positions /\ Sleeps /\ Joins
      /\ state \in [Thread -> States] /\ pc \in [Thread -> PC]
  BY DEF SchedInv, TypeOK
<1>2. ASSUME NEW t \in Thread, NEW u \in Thread, Unlock(t, u) PROVE SchedInv'
  <2>1. /\ t = active /\ state[t] = "RUNNING" /\ t # Idle /\ state[u] = "WAITING"
        /\ state' = [state EXCEPT ![u] = "READY"]
        /\ runq' = Push(runq, u)
        /\ UNCHANGED <<prio, joining, retval, left, wkey, clock, sleepq, active,
                       activeNode, threadCount, pc, target>>
        /\ pc[u] = "run" /\ u # t
    BY <1>1, <1>2 DEF Unlock, PC, At, Calls, Goto, Positions
  <2>8. ~Contains(runq, u) /\ runq \in Seq(Thread) /\ IsInjective(runq)
    BY <1>1, <2>1 DEF Tables, TypeOK
  <2>9. /\ Push(runq, u) \in Seq(Thread) /\ IsInjective(Push(runq, u))
        /\ \A v : Contains(Push(runq, u), v) <=> v = u \/ Contains(runq, v)
    BY <2>8, PushProperties
  <2>2. TypeOK'
    BY <1>1, <2>1, <2>9 DEF TypeOK, States
  <2>3. Tables(state, runq)'
    BY <1>1, <2>1, <2>9 DEF Tables, TypeOK
  <2>4. Positions'
    BY <1>1, <2>1 DEF Positions, TypeOK, PC
  <2>5. Sleeps'
    BY <1>1, <2>1 DEF Sleeps, Positions, TypeOK, PC
  <2>6. \A v \in Thread :
          /\ InJoin(v)' <=> InJoin(v)
          /\ pc'[v] \in {"join_sched", "join_ret"} <=> pc[v] \in {"join_sched", "join_ret"}
          /\ state[v] = "ZOMBIE" => state'[v] = "ZOMBIE"
          /\ state[v] # "NONE" => state'[v] # "NONE"
          /\ state[v] = "JOINING" => state'[v] = "JOINING"
    BY <1>1, <2>1 DEF InJoin, PC
  <2>7. Joins'
    BY <1>1, <2>1, <2>6, JoinsKept
  <2> QED BY <2>2, <2>3, <2>4, <2>5, <2>7 DEF SchedInv
<1>3. ASSUME NEW t \in Thread, NEW u \in Thread, NEW p \in Prio, Create(t, u, p) PROVE SchedInv'
  <2>1. /\ t = active /\ state[t] = "RUNNING" /\ t # Idle /\ state[u] = "NONE"
        /\ state' = [state EXCEPT ![u] = "READY"]
        /\ prio' = [prio EXCEPT ![u] = p]
        /\ runq' = Push(runq, u)
        /\ threadCount < MaxCreate + 2 /\ threadCount' = threadCount + 1
        /\ UNCHANGED <<joining, retval, left, wkey, clock, sleepq, active,
                       activeNode, pc, target>>
        /\ pc[u] = "run" /\ u # t
    BY <1>1, <1>3 DEF Create, PC, At, Calls, Goto, Positions
  <2>8. ~Contains(runq, u) /\ runq \in Seq(Thread) /\ IsInjective(runq)
    BY <1>1, <2>1 DEF Tables, TypeOK
  <2>9. /\ Push(runq, u) \in Seq(Thread) /\ IsInjective(Push(runq, u))
        /\ \A v : Contains(Push(runq, u), v) <=> v = u \/ Contains(runq, v)
    BY <2>8, PushProperties
  <2>2. TypeOK'
    <3>0. threadCount \in 2 .. MaxCreate + 2
      BY <1>1 DEF TypeOK
    <3>1. threadCount' \in 2 .. MaxCreate + 2
      BY <2>1, <3>0
    <3> QED BY <1>1, <2>1, <2>9, <3>1 DEF TypeOK, States
  <2>3. Tables(state, runq)'
    BY <1>1, <2>1, <2>9 DEF Tables, TypeOK
  <2>4. Positions'
    BY <1>1, <2>1 DEF Positions, TypeOK, PC
  <2>5. Sleeps'
    BY <1>1, <2>1 DEF Sleeps, Positions, TypeOK, PC
  <2>6. \A v \in Thread :
          /\ InJoin(v)' <=> InJoin(v)
          /\ pc'[v] \in {"join_sched", "join_ret"} <=> pc[v] \in {"join_sched", "join_ret"}
          /\ state[v] = "ZOMBIE" => state'[v] = "ZOMBIE"
          /\ state[v] # "NONE" => state'[v] # "NONE"
          /\ state[v] = "JOINING" => state'[v] = "JOINING"
    BY <1>1, <2>1 DEF InJoin, PC
  <2>7. Joins'
    BY <1>1, <2>1, <2>6, JoinsKept
  <2> QED BY <2>2, <2>3, <2>4, <2>5, <2>7 DEF SchedInv
<1> QED BY <1>2, <1>3

\* The steps of thread_exit before its election.
LEMMA ExitSteps ==
    ASSUME SchedInv, \E t \in Thread : ExitZombie(t) \/ ExitCritical(t)
    PROVE  SchedInv'
<1>1. /\ TypeOK /\ Tables(state, runq) /\ Positions /\ Sleeps /\ Joins
      /\ state \in [Thread -> States] /\ pc \in [Thread -> PC]
  BY DEF SchedInv, TypeOK
<1>2. ASSUME NEW t \in Thread, ExitZombie(t) PROVE SchedInv'
  <2>1. /\ t = active /\ pc[t] = "run" /\ state[t] = "RUNNING" /\ t # Idle
        /\ state' = [state EXCEPT ![t] = "ZOMBIE"]
        /\ pc' = [pc EXCEPT ![t] = "exit_critical"]
        /\ UNCHANGED <<prio, joining, retval, left, wkey, clock, runq, sleepq,
                       active, activeNode, threadCount, target>>
    BY <1>1, <1>2 DEF ExitZombie, PC, At, Calls, Goto, Positions
  <2>2. TypeOK'
    <3>1. pc' \in [Thread -> PC]
      BY <1>1, <2>1 DEF PC
    <3> QED BY <1>1, <2>1, <3>1 DEF TypeOK, States
  <2>3. Tables(state, runq)'
    BY <1>1, <2>1 DEF Tables, TypeOK
  <2>4. Positions'
    BY <1>1, <2>1 DEF Positions, TypeOK, PC
  <2>5. Sleeps'
    BY <1>1, <2>1 DEF Sleeps, Positions, TypeOK, PC
  <2>6. \A v \in Thread :
          /\ InJoin(v)' <=> InJoin(v)
          /\ pc'[v] \in {"join_sched", "join_ret"} <=> pc[v] \in {"join_sched", "join_ret"}
          /\ state[v] = "ZOMBIE" => state'[v] = "ZOMBIE"
          /\ state[v] # "NONE" => state'[v] # "NONE"
          /\ state[v] = "JOINING" => state'[v] = "JOINING"
    BY <1>1, <2>1 DEF InJoin, PC
  <2>7. Joins'
    BY <1>1, <2>1, <2>6, JoinsKept
  <2> QED BY <2>2, <2>3, <2>4, <2>5, <2>7 DEF SchedInv
<1>3. ASSUME NEW t \in Thread, ExitCritical(t) PROVE SchedInv'
  <2>1. /\ t = active /\ pc[t] = "exit_critical" /\ state[t] = "ZOMBIE" /\ t # Idle
        /\ state' = [j \in Thread |-> IF j \in Woken(t) THEN "READY" ELSE state[j]]
        /\ runq' = IF Woken(t) = {} THEN runq ELSE Push(runq, joining[t])
        /\ activeNode' = Null
        /\ retval' = [retval EXCEPT ![t] = TRUE]
        /\ pc' = [pc EXCEPT ![t] = "exit_sched"]
        /\ UNCHANGED <<prio, joining, left, wkey, clock, sleepq, active,
                       threadCount, target>>
    BY <1>1, <1>3 DEF ExitCritical, PC, At, Calls, Goto, Positions
  <2>8. \A j \in Woken(t) :
          /\ j \in Thread /\ j = joining[t] /\ state[j] = "JOINING" /\ j # t
          /\ pc[j] \in {"join_sched", "join_ret"} /\ target[j] = t
    BY <1>1, <2>1 DEF Woken, Joins
  <2>9. /\ runq' \in Seq(Thread) /\ IsInjective(runq')
        /\ \A v : Contains(runq', v) <=> v \in Woken(t) \/ Contains(runq, v)
    <3>1. runq \in Seq(Thread) /\ IsInjective(runq)
      BY <1>1 DEF TypeOK, Tables
    <3>2. CASE Woken(t) = {}
      BY <2>1, <3>1, <3>2
    <3>3. CASE Woken(t) # {}
      <4>1. PICK j \in Woken(t) : TRUE
        BY <3>3
      <4>2. /\ Woken(t) = {j} /\ j = joining[t] /\ j \in Thread
        <5>1. \A x \in Woken(t) : x = joining[t] /\ x \in Thread
          BY <2>8
        <5> QED BY <4>1, <5>1
      <4>3. ~Contains(runq, j)
        BY <1>1, <2>8, <4>1 DEF Tables
      <4>4. /\ Push(runq, j) \in Seq(Thread) /\ IsInjective(Push(runq, j))
            /\ \A v : Contains(Push(runq, j), v) <=> v = j \/ Contains(runq, v)
        BY <3>1, <4>2, <4>3, PushProperties
      <4>5. runq' = Push(runq, j)
        BY <2>1, <3>3, <4>2
      <4> QED BY <4>2, <4>4, <4>5
    <3> QED BY <3>2, <3>3
  <2>10. \A v \in Thread :
           /\ v \in Woken(t) => state'[v] = "READY" /\ v # t
           /\ v \notin Woken(t) => state'[v] = state[v]
           /\ pc'[v] = IF v = t THEN "exit_sched" ELSE pc[v]
           /\ retval'[v] = IF v = t THEN TRUE ELSE retval[v]
    BY <1>1, <2>1, <2>8 DEF TypeOK
  <2>2. TypeOK'
    <3>1. pc' \in [Thread -> PC] /\ state' \in [Thread -> States]
      BY <1>1, <2>1 DEF PC, States
    <3> QED BY <1>1, <2>1, <2>9, <3>1 DEF TypeOK
  <2>3. Tables(state, runq)'
    <3>1. Tables(state, runq) /\ state[t] = "ZOMBIE"
      BY <1>1, <2>1
    <3>2. \A v \in Thread :
            /\ Contains(runq', v) <=> state'[v] = "READY"
            /\ Contains(sleepq', v) <=> state'[v] = "SLEEPING" /\ v # active'
            /\ state'[v] = "RUNNING" => v = active'
      BY <2>1, <2>8, <2>9, <2>10, <3>1 DEF Tables
    <3> QED BY <2>1, <2>9, <3>1, <3>2 DEF Tables
  <2>4. Positions'
    <3>1. pc'[Idle] = "run"
      BY <1>1, <2>1, <2>10 DEF Positions
    <3>2. \A v \in Thread :
            /\ state'[v] = "ZOMBIE" <=> pc'[v] \in {"exit_critical", "exit_sched"}
            /\ state'[v] \in {"NONE", "WAITING"} => pc'[v] = "run"
            /\ state'[v] = "SLEEPING" => pc'[v] \in {"sleep_sched", "sleep_ret"}
            /\ state'[v] = "JOINING" => pc'[v] \in {"join_link", "join_sched", "join_ret"}
            /\ pc'[v] = "join_link" => state'[v] = "JOINING"
      BY <1>1, <2>1, <2>8, <2>10 DEF Positions
    <3> QED BY <2>1, <2>10, <3>1, <3>2, ZenonT(40) DEF Positions
  <2>5. Sleeps'
    BY <1>1, <2>1, <2>8, <2>10 DEF Sleeps
  <2>7. Joins'
    <3>1. \A v \in Thread : InJoin(v) => target[v] \in Thread
      BY <1>1 DEF Joins
    <3>2. \A v \in Thread :
            /\ InJoin(v)' <=> InJoin(v)
            /\ pc'[v] \in {"join_sched", "join_ret"} <=> pc[v] \in {"join_sched", "join_ret"}
            /\ pc'[v] \in {"join_sched", "join_ret"} => InJoin(v)
            /\ state[v] = "ZOMBIE" => state'[v] = "ZOMBIE"
            /\ state[v] # "NONE" => state'[v] # "NONE"
            /\ retval[v] => retval'[v]
      BY <2>1, <2>8, <2>10 DEF InJoin
    <3>3. ASSUME NEW v \in Thread
          PROVE  /\ InJoin(v)' => target[v] \in Thread \ {v, Idle} /\ state'[target[v]] # "NONE"
                 /\ pc'[v] \in {"join_sched", "join_ret"} /\ state'[v] # "JOINING" =>
                        state'[target[v]] = "ZOMBIE" /\ retval'[target[v]]
      <4>1. CASE v \in Woken(t)
        <5>1. target[v] = t /\ state'[t] = "ZOMBIE" /\ retval'[t] /\ v # t /\ t # Idle
          BY <2>1, <2>8, <2>10, <4>1
        <5> QED BY <5>1
      <4>2. CASE v \notin Woken(t)
        <5>1. state'[v] = state[v]
          BY <2>10, <4>2
        <5>2. CASE ~InJoin(v)
          BY <3>2, <5>2
        <5>3. CASE InJoin(v)
          <6>1. /\ target[v] \in Thread \ {v, Idle} /\ state[target[v]] # "NONE"
                /\ pc[v] \in {"join_sched", "join_ret"} /\ state[v] # "JOINING" =>
                       state[target[v]] = "ZOMBIE" /\ retval[target[v]]
            BY <1>1, <5>3 DEF Joins
          <6> QED BY <3>2, <5>1, <6>1
        <5> QED BY <5>2, <5>3
      <4> QED BY <4>1, <4>2
    <3>4. \A v, u \in Thread :
            /\ InJoin(v)' /\ InJoin(u)' /\ target[v] = target[u] => v = u
            /\ joining[u] = v => pc'[v] \in {"join_sched", "join_ret"} /\ target[v] = u
      BY <1>1, <3>2 DEF Joins
    <3>5. joining' = joining /\ target' = target
      BY <2>1
    <3> QED BY <3>3, <3>4, <3>5 DEF Joins
  <2> QED BY <2>2, <2>3, <2>4, <2>5, <2>7 DEF SchedInv
<1> QED BY <1>2, <1>3

\* The steps of sched_join_thread before its election, when no two threads join
\* the same thread at the same time.
LEMMA JoinSteps ==
    ASSUME ~SharedJoin, SchedInv,
           \E t \in Thread : \/ \E u \in Thread : JoinCall(t, u)
                             \/ JoinAlive(t) \/ JoinState(t) \/ JoinLink(t)
    PROVE  SchedInv'
<1>1. /\ TypeOK /\ Tables(state, runq) /\ Positions /\ Sleeps /\ Joins
      /\ state \in [Thread -> States] /\ pc \in [Thread -> PC]
  BY DEF SchedInv, TypeOK
<1>2. ASSUME NEW t \in Thread, NEW u \in Thread, JoinCall(t, u) PROVE SchedInv'
  <2>1. /\ t = active /\ pc[t] = "run" /\ state[t] = "RUNNING" /\ t # Idle
        /\ u \in Thread \ {t, Idle} /\ state[u] # "NONE"
        /\ \A j \in Thread : InJoin(j) => target[j] # u
        /\ target' = [target EXCEPT ![t] = u]
        /\ pc' = [pc EXCEPT ![t] = "join_check"]
        /\ UNCHANGED <<state, prio, joining, retval, left, wkey, clock, runq, sleepq,
                       active, activeNode, threadCount>>
    BY <1>1, <1>2 DEF JoinCall, PC, At, Calls, Goto, Positions
  <2>2. TypeOK'
    <3>1. pc' \in [Thread -> PC]
      BY <1>1, <2>1 DEF PC
    <3> QED BY <1>1, <2>1, <3>1 DEF TypeOK, States
  <2>3. Tables(state, runq)'
    BY <1>1, <2>1 DEF Tables, TypeOK
  <2>4. Positions'
    BY <1>1, <2>1 DEF Positions, TypeOK, PC
  <2>5. Sleeps'
    BY <1>1, <2>1 DEF Sleeps, Positions, TypeOK, PC
  <2>6. \A v \in Thread :
          /\ v # t => pc'[v] = pc[v] /\ target'[v] = target[v]
          /\ v = t => pc'[v] = "join_check" /\ target'[v] = u
    BY <1>1, <2>1 DEF TypeOK
  <2>7. Joins'
    <3>1. \A v \in Thread :
            /\ InJoin(v)' => target'[v] \in Thread \ {v, Idle} /\ state'[target'[v]] # "NONE"
            /\ pc'[v] \in {"join_sched", "join_ret"} /\ state'[v] # "JOINING" =>
                   state'[target'[v]] = "ZOMBIE" /\ retval'[target'[v]]
      BY <1>1, <2>1, <2>6 DEF Joins, InJoin
    <3>2. \A v, w \in Thread :
            /\ InJoin(v)' /\ InJoin(w)' /\ target'[v] = target'[w] => v = w
            /\ joining'[w] = v => pc'[v] \in {"join_sched", "join_ret"} /\ target'[v] = w
      BY <1>1, <2>1, <2>6 DEF Joins, InJoin
    <3> QED BY <3>1, <3>2 DEF Joins
  <2> QED BY <2>2, <2>3, <2>4, <2>5, <2>7 DEF SchedInv
<1>3. ASSUME NEW t \in Thread, JoinAlive(t) PROVE SchedInv'
  <2>1. /\ t = active /\ pc[t] = "join_check" /\ t # Idle
        /\ pc' = [pc EXCEPT ![t] = "join_state"]
        /\ UNCHANGED <<state, prio, joining, retval, left, wkey, clock, runq, sleepq,
                       active, activeNode, threadCount, target>>
        /\ state[t] = "RUNNING"
    BY <1>1, <1>3 DEF JoinAlive, PC, At, Calls, Goto, Positions
  <2>2. TypeOK'
    <3>1. pc' \in [Thread -> PC]
      BY <1>1, <2>1 DEF PC
    <3> QED BY <1>1, <2>1, <3>1 DEF TypeOK, States
  <2>3. Tables(state, runq)'
    BY <1>1, <2>1 DEF Tables, TypeOK
  <2>4. Positions'
    BY <1>1, <2>1 DEF Positions, TypeOK, PC
  <2>5. Sleeps'
    BY <1>1, <2>1 DEF Sleeps, Positions, TypeOK, PC
  <2>6. \A v \in Thread :
          /\ InJoin(v)' <=> InJoin(v)
          /\ pc'[v] \in {"join_sched", "join_ret"} <=> pc[v] \in {"join_sched", "join_ret"}
          /\ state[v] = "ZOMBIE" => state'[v] = "ZOMBIE"
          /\ state[v] # "NONE" => state'[v] # "NONE"
          /\ state[v] = "JOINING" => state'[v] = "JOINING"
    BY <1>1, <2>1 DEF InJoin, PC
  <2>7. Joins'
    BY <1>1, <2>1, <2>6, JoinsKept
  <2> QED BY <2>2, <2>3, <2>4, <2>5, <2>7 DEF SchedInv
<1>4. ASSUME NEW t \in Thread, JoinState(t) PROVE SchedInv'
  <2>1. /\ t = active /\ pc[t] = "join_state" /\ t # Idle
        /\ state' = [state EXCEPT ![t] = "JOINING"]
        /\ pc' = [pc EXCEPT ![t] = "join_link"]
        /\ UNCHANGED <<prio, joining, retval, left, wkey, clock, runq, sleepq,
                       active, activeNode, threadCount, target>>
        /\ state[t] = "RUNNING"
    BY <1>1, <1>4 DEF JoinState, PC, At, Calls, Goto, Positions
  <2>2. TypeOK'
    <3>1. pc' \in [Thread -> PC]
      BY <1>1, <2>1 DEF PC
    <3> QED BY <1>1, <2>1, <3>1 DEF TypeOK, States
  <2>3. Tables(state, runq)'
    BY <1>1, <2>1 DEF Tables, TypeOK
  <2>4. Positions'
    BY <1>1, <2>1 DEF Positions, TypeOK, PC
  <2>5. Sleeps'
    BY <1>1, <2>1 DEF Sleeps, Positions, TypeOK, PC
  <2>6. \A v \in Thread :
          /\ InJoin(v)' <=> InJoin(v)
          /\ pc'[v] \in {"join_sched", "join_ret"} <=> pc[v] \in {"join_sched", "join_ret"}
          /\ state[v] = "ZOMBIE" => state'[v] = "ZOMBIE"
          /\ state[v] # "NONE" => state'[v] # "NONE"
          /\ state[v] = "JOINING" => state'[v] = "JOINING"
    BY <1>1, <2>1 DEF InJoin, PC
  <2>7. Joins'
    BY <1>1, <2>1, <2>6, JoinsKept
  <2> QED BY <2>2, <2>3, <2>4, <2>5, <2>7 DEF SchedInv
<1>5. ASSUME NEW t \in Thread, JoinLink(t) PROVE SchedInv'
  <2>1. /\ t = active /\ pc[t] = "join_link" /\ t # Idle
        /\ state[t] = "JOINING" /\ activeNode = t
        /\ joining' = [joining EXCEPT ![target[t]] = t]
        /\ pc' = [pc EXCEPT ![t] = "join_sched"]
        /\ UNCHANGED <<state, prio, retval, left, wkey, clock, runq, sleepq, active,
                       activeNode, threadCount, target>>
    BY <1>1, <1>5 DEF JoinLink, PC, At, Calls, Goto, Positions
  <2>2. TypeOK'
    <3>1. pc' \in [Thread -> PC]
      BY <1>1, <2>1 DEF PC
    <3>2. joining' \in [Thread -> Thread \cup {Null}]
      BY <1>1, <2>1 DEF TypeOK
    <3> QED BY <1>1, <2>1, <3>1, <3>2 DEF TypeOK
  <2>3. Tables(state, runq)'
    BY <1>1, <2>1 DEF Tables, TypeOK
  <2>4. Positions'
    BY <1>1, <2>1 DEF Positions, TypeOK, PC
  <2>5. Sleeps'
    BY <1>1, <2>1 DEF Sleeps, Positions, TypeOK, PC
  <2>6. \A v \in Thread :
          /\ pc'[v] = IF v = t THEN "join_sched" ELSE pc[v]
          /\ joining'[v] = IF v = target[t] THEN t ELSE joining[v]
    BY <1>1, <2>1 DEF TypeOK
  <2>7. Joins'
    <3>1. \A v \in Thread :
            /\ InJoin(v)' => target'[v] \in Thread \ {v, Idle} /\ state'[target'[v]] # "NONE"
            /\ pc'[v] \in {"join_sched", "join_ret"} /\ state'[v] # "JOINING" =>
                   state'[target'[v]] = "ZOMBIE" /\ retval'[target'[v]]
      BY <1>1, <2>1, <2>6 DEF Joins, InJoin
    <3>2. \A v, w \in Thread :
            /\ InJoin(v)' /\ InJoin(w)' /\ target'[v] = target'[w] => v = w
            /\ joining'[w] = v => pc'[v] \in {"join_sched", "join_ret"} /\ target'[v] = w
      BY <1>1, <2>1, <2>6 DEF Joins, InJoin
    <3> QED BY <3>1, <3>2 DEF Joins
  <2> QED BY <2>2, <2>3, <2>4, <2>5, <2>7 DEF SchedInv
<1> QED BY <1>2, <1>3, <1>4, <1>5

\* Releasing the joined thread, when it was found dead and when the wait for it
\* is over.
LEMMA CollectSteps ==
    ASSUME SchedInv, NEW t \in Thread, JoinZombie(t) \/ JoinReturn(t)
    PROVE  /\ SchedInv'
           /\ t = active /\ target[t] \in Thread \ {t} /\ state[target[t]] = "ZOMBIE"
           /\ \A v \in Thread \ {target[t]} : state'[v] = state[v]
           /\ \A j \in Thread \ {t} : InJoin(j) => target[j] # target[t]
           /\ ~Contains(runq, target[t]) /\ ~Contains(sleepq, target[t])
<1>1. /\ TypeOK /\ Tables(state, runq) /\ Positions /\ Sleeps /\ Joins
      /\ state \in [Thread -> States] /\ pc \in [Thread -> PC]
  BY DEF SchedInv, TypeOK
<1> DEFINE u == target[t]
<1>2. /\ t = active /\ t # Idle /\ InJoin(t) /\ pc[t] # "exit_sched" /\ Collect(t)
      /\ u \in Thread \ {t, Idle} /\ state[u] = "ZOMBIE"
      /\ pc[u] \in {"exit_critical", "exit_sched"}
      /\ state[t] = "RUNNING" /\ activeNode = t
  BY <1>1 DEF JoinZombie, JoinReturn, At, Joins, InJoin, Positions
<1>3. /\ state' = [state EXCEPT ![u] = "NONE"]
      /\ prio' = [prio EXCEPT ![u] = LowestPrio]
      /\ joining' = [joining EXCEPT ![u] = Null]
      /\ retval' = [retval EXCEPT ![u] = FALSE]
      /\ runq' = Unlink(runq, u)
      /\ pc' = [pc EXCEPT ![t] = "run", ![u] = "run"]
      /\ target' = [target EXCEPT ![t] = Null]
      /\ UNCHANGED <<left, wkey, clock, sleepq, active, activeNode, threadCount>>
  BY <1>2 DEF Collect, CleanThread
<1>4. ~InJoin(u) /\ \A j \in Thread \ {t} : InJoin(j) => target[j] # u
  BY <1>1, <1>2 DEF Joins, InJoin
<1>5. ~Contains(runq, u) /\ ~Contains(sleepq, u)
  BY <1>1, <1>2 DEF Tables
<1>6. \A v \in Thread :
        /\ state'[v] = IF v = u THEN "NONE" ELSE state[v]
        /\ joining'[v] = IF v = u THEN Null ELSE joining[v]
        /\ retval'[v] = IF v = u THEN FALSE ELSE retval[v]
        /\ pc'[v] = IF v \in {t, u} THEN "run" ELSE pc[v]
        /\ target'[v] = IF v = t THEN Null ELSE target[v]
  BY <1>1, <1>2, <1>3 DEF TypeOK
<1>7. /\ runq' \in Seq(Thread) /\ IsInjective(runq')
      /\ \A v : Contains(runq', v) <=> Contains(runq, v)
  <2>1. runq \in Seq(Thread) /\ IsInjective(runq)
    BY <1>1 DEF TypeOK, Tables
  <2> QED BY <1>3, <1>5, <2>1, UnlinkProperties
<1> HIDE DEF u
<1>8. TypeOK'
  <2>1. /\ state' \in [Thread -> States] /\ pc' \in [Thread -> PC]
        /\ target' \in [Thread -> Thread \cup {Null}]
        /\ joining' \in [Thread -> Thread \cup {Null}]
        /\ retval' \in [Thread -> BOOLEAN]
    BY <1>1, <1>3 DEF TypeOK, States, PC
  <2>2. LowestPrio \in Prio
    OBVIOUS
  <2>3. prio' \in [Thread -> Prio]
    BY <1>1, <1>3, <2>2 DEF TypeOK
  <2> QED BY <1>1, <1>3, <1>7, <2>1, <2>3 DEF TypeOK
<1>9. Tables(state, runq)'
  BY <1>1, <1>2, <1>3, <1>6, <1>7 DEF Tables
<1>10. Positions'
  BY <1>1, <1>2, <1>3, <1>6 DEF Positions
<1>11. Sleeps'
  BY <1>1, <1>3, <1>6 DEF Sleeps
<1>12. Joins'
  <2>1. \A v \in Thread :
          InJoin(v)' => v \notin {t, u} /\ InJoin(v) /\ pc'[v] = pc[v] /\ target'[v] = target[v]
    BY <1>6 DEF InJoin
  <2>2. ASSUME NEW v \in Thread
        PROVE  /\ InJoin(v)' => target'[v] \in Thread \ {v, Idle} /\ state'[target'[v]] # "NONE"
               /\ pc'[v] \in {"join_sched", "join_ret"} /\ state'[v] # "JOINING" =>
                      state'[target'[v]] = "ZOMBIE" /\ retval'[target'[v]]
    <3>1. pc'[v] \in {"join_sched", "join_ret"} => InJoin(v)'
      BY DEF InJoin
    <3>2. CASE ~InJoin(v)'
      BY <3>1, <3>2
    <3>3. CASE InJoin(v)'
      <4>1. /\ v \notin {t, u} /\ InJoin(v) /\ pc'[v] = pc[v] /\ target'[v] = target[v]
            /\ target[v] \in Thread \ {v, Idle} /\ target[v] # u /\ state'[v] = state[v]
        BY <1>1, <1>4, <1>6, <2>1, <3>3 DEF Joins
      <4>2. state'[target[v]] = state[target[v]] /\ retval'[target[v]] = retval[target[v]]
        BY <1>6, <4>1
      <4> QED BY <1>1, <4>1, <4>2 DEF Joins
    <3> QED BY <3>2, <3>3
  <2>3. ASSUME NEW v \in Thread, NEW w \in Thread,
               InJoin(v)', InJoin(w)', target'[v] = target'[w]
        PROVE  v = w
    <3>1. InJoin(v) /\ InJoin(w) /\ target[v] = target[w]
      BY <2>1, <2>3
    <3> QED BY <1>1, <3>1 DEF Joins
  <2>4. ASSUME NEW v \in Thread, NEW w \in Thread, joining'[w] = v
        PROVE  pc'[v] \in {"join_sched", "join_ret"} /\ target'[v] = w
    <3>1. w # u /\ joining[w] = v
      BY <1>6, <2>4
    <3>2. pc[v] \in {"join_sched", "join_ret"} /\ target[v] = w
      BY <1>1, <3>1 DEF Joins
    <3>3. v # t /\ v # u
      BY <1>2, <3>1, <3>2 DEF u
    <3> QED BY <1>6, <3>2, <3>3
  <2> QED BY <2>2, <2>3, <2>4 DEF Joins
<1> QED BY <1>2, <1>4, <1>5, <1>6, <1>8, <1>9, <1>10, <1>11, <1>12 DEF SchedInv, u

--------------------------------------------------------------------------------
(* The theorems, for clients that do not join one thread twice at the same      *)
(* time (the OneJoiner run shows what happens when they do).                    *)

\* sched_init leaves the tables, the idle thread and INIT in a coherent state.
LEMMA InitInv == InitState => SchedInv
<1> SUFFICES ASSUME InitState PROVE SchedInv
  OBVIOUS
<1>1. /\ state = [t \in Thread |-> IF t \in {Idle, Init} THEN "READY" ELSE "NONE"]
      /\ prio = [t \in Thread |-> IF t = Init THEN 0 ELSE LowestPrio]
      /\ joining = [t \in Thread |-> Null]
      /\ retval = [t \in Thread |-> FALSE]
      /\ left = [t \in Thread |-> -1]
      /\ wkey = [t \in Thread |-> 0]
      /\ clock = 0
      /\ runq = <<Init, Idle>>
      /\ sleepq = <<>>
      /\ active = Idle
      /\ activeNode = Idle
      /\ threadCount = 2
      /\ pc = [t \in Thread |-> "run"]
      /\ target = [t \in Thread |-> Null]
  BY Zenon DEF InitState
<1>2. 0 \in Prio /\ LowestPrio \in Prio /\ 0 \in 0 .. KeyMod - 1 /\ 2 \in 2 .. MaxCreate + 2
      /\ -1 \in -1 .. MaxSleep
  OBVIOUS
<1>3. TypeOK
  <2>1. state \in [Thread -> States] /\ pc \in [Thread -> PC]
    BY <1>1 DEF States, PC
  <2>2. /\ prio \in [Thread -> Prio] /\ joining \in [Thread -> Thread \cup {Null}]
        /\ retval \in [Thread -> BOOLEAN] /\ left \in [Thread -> -1 .. MaxSleep]
        /\ wkey \in [Thread -> 0 .. KeyMod - 1] /\ target \in [Thread -> Thread \cup {Null}]
    BY <1>1, <1>2
  <2>3. runq \in Seq(Thread) /\ sleepq \in Seq(Thread)
    BY <1>1
  <2> QED BY <1>1, <1>2, <2>1, <2>2, <2>3 DEF TypeOK
<1>4. Tables(state, runq)
  <2>1. /\ DOMAIN runq = {1, 2} /\ runq[1] = Init /\ runq[2] = Idle /\ Len(runq) = 2
        /\ DOMAIN sleepq = {} /\ Len(sleepq) = 0
    BY <1>1
  <2>2. IsInjective(runq) /\ IsInjective(sleepq)
    BY <2>1 DEF IsInjective
  <2>3. \A t : (Contains(runq, t) <=> t \in {Idle, Init}) /\ ~Contains(sleepq, t)
    BY <2>1 DEF Contains
  <2> QED BY <1>1, <2>2, <2>3 DEF Tables
<1>5. Positions
  BY <1>1 DEF Positions
<1>6. Sleeps /\ Joins
  BY <1>1 DEF Sleeps, Joins, InJoin
<1> QED BY <1>3, <1>4, <1>5, <1>6 DEF SchedInv

\* Every step of the scheduler keeps the invariant.
LEMMA StepInv == ASSUME ~SharedJoin, SchedInv, [Next]_vars PROVE SchedInv'
<1>1. CASE Timer
  BY <1>1, ElectionSteps
<1>2. ASSUME NEW t \in Thread,
             \/ Yield(t) \/ Block(t) \/ SleepSchedule(t) \/ ExitSchedule(t) \/ JoinSchedule(t)
             \/ \E u \in Thread : UnlockAndSchedule(t, u)
      PROVE  SchedInv'
  BY <1>2, ElectionSteps
<1>3. ASSUME NEW t \in Thread,
             \/ SleepState(t) \/ SleepReturn(t)
             \/ \E p \in 0 .. LowestPrio + 1 : SetPriority(t, p)
             \/ \E d \in 0 .. MaxSleep : SleepTime(t, d)
      PROVE  SchedInv'
  BY <1>3, SleepSteps
<1>4. ASSUME NEW t \in Thread, ExitZombie(t) \/ ExitCritical(t) PROVE SchedInv'
  BY <1>4, ExitSteps
<1>5. ASSUME NEW t \in Thread,
             \/ JoinAlive(t) \/ JoinState(t) \/ JoinLink(t)
             \/ \E u \in Thread : JoinCall(t, u)
      PROVE  SchedInv'
  BY <1>5, JoinSteps
<1>6. ASSUME NEW t \in Thread, JoinZombie(t) \/ JoinReturn(t) PROVE SchedInv'
  BY <1>6, CollectSteps
<1>7. ASSUME NEW t \in Thread, NEW u \in Thread, Unlock(t, u) \/ \E p \in Prio : Create(t, u, p)
      PROVE  SchedInv'
  BY <1>7, CreateSteps
<1>8. CASE UNCHANGED vars
  BY <1>8, SMTT(30) DEF vars, SchedInv, TypeOK, Tables, Positions, Sleeps, Joins, InJoin
<1> QED BY <1>1, <1>2, <1>3, <1>4, <1>5, <1>6, <1>7, <1>8 DEF Next

\* The tables of the scheduler, the states of the threads, the places they
\* stand at in its code and the links of the joins always agree.
THEOREM SchedulerInvariant == ASSUME ~SharedJoin PROVE Spec => []SchedInv
<1>1. InitState => SchedInv
  BY InitInv
<1>2. SchedInv /\ [Next]_vars => SchedInv'
  BY StepInv
<1> QED BY <1>1, <1>2, PTL DEF Spec

\* Every variable of the scheduler keeps its type: in particular no system call
\* stores a priority for which there is no queue.
THEOREM SchedulerTypes == ASSUME ~SharedJoin PROVE Spec => []TypeOK
<1>1. SchedInv => TypeOK
  BY DEF SchedInv
<1> QED BY <1>1, SchedulerInvariant, PTL

\* kqueue_push is never given a node that is linked already, and the state of a
\* thread tells in which table it is.
THEOREM SchedulerQueues == ASSUME ~SharedJoin PROVE Spec => []QueuesMatchStates
<1>1. SchedInv => QueuesMatchStates
  BY DEF SchedInv, Tables, QueuesMatchStates
<1> QED BY <1>1, SchedulerInvariant, PTL

\* select_thread always finds a thread to elect.
THEOREM SchedulerIdle == ASSUME ~SharedJoin PROVE Spec => []IdleAvailable
<1>1. SchedInv => IdleAvailable
  BY DEF SchedInv, Tables, IdleAvailable
<1> QED BY <1>1, SchedulerInvariant, PTL

\* The scheduler never uses the node of the active thread after thread_exit has
\* deleted it.
THEOREM SchedulerActiveNode == ASSUME ~SharedJoin PROVE Spec => []ActiveNodeValid
<1>1. SchedInv => ActiveNodeValid
  BY DEF SchedInv, Tables, Positions, ActiveNodeValid
<1> QED BY <1>1, SchedulerInvariant, PTL

\* sched_sleep never returns early.
THEOREM SchedulerSleeps == ASSUME ~SharedJoin PROVE Spec => []SleepsLongEnough
<1>1. SchedInv => SleepsLongEnough
  BY DEF SchedInv, Sleeps, SleepsLongEnough
<1> QED BY <1>1, SchedulerInvariant, PTL

\* The wait of sched_join_thread ends only after the exit of the joined thread.
THEOREM SchedulerJoins == ASSUME ~SharedJoin PROVE Spec => []JoinReturnsAfterExit
<1>1. SchedInv => JoinReturnsAfterExit
  BY DEF SchedInv, Joins, JoinReturnsAfterExit
<1> QED BY <1>1, SchedulerInvariant, PTL

\* select_thread releases nothing.
LEMMA ElectionReleasesNothing ==
    ASSUME NEW st, NEW rq, NEW lft, SelectThread(st, rq, lft)
    PROVE  \A t \in Thread : state'[t] \in {"RUNNING", "READY"} \/ state'[t] = st[t]
BY DEF SelectThread

\* sched_join_thread is the only service that releases the structure of a thread,
\* and it does so only when that thread is dead, is in no table and is the target
\* of no other join.
THEOREM SchedulerReleases == ASSUME ~SharedJoin PROVE Spec => ReleasedOnlyWhenDead
<1> DEFINE Released(t) == state[t] # "NONE" /\ state'[t] = "NONE"
           Safe(t) == /\ state[t] = "ZOMBIE" /\ t # active
                      /\ ~Contains(runq, t) /\ ~Contains(sleepq, t)
                      /\ \A j \in Thread : InJoin(j) /\ j # active => target[j] # t
<1>1. SchedInv /\ [Next]_vars => [\A t \in Thread : Released(t) => Safe(t)]_vars
  <2> SUFFICES ASSUME SchedInv, Next, NEW u \in Thread, Released(u) PROVE Safe(u)
    OBVIOUS
  <2>1. state \in [Thread -> States] /\ active \in Thread
    BY DEF SchedInv, TypeOK
  <2>2. CASE Timer
    <3>1. SelectThread(state, runq, left')
      BY <2>2 DEF Timer
    <3> QED BY <3>1, ElectionReleasesNothing
  <2>3. ASSUME NEW t \in Thread,
               Yield(t) \/ SleepSchedule(t) \/ ExitSchedule(t) \/ JoinSchedule(t)
        PROVE  FALSE
    <3>1. SelectThread(state, runq, left)
      BY <2>3 DEF Yield, SleepSchedule, ExitSchedule, JoinSchedule
    <3> QED BY <3>1, ElectionReleasesNothing
  <2>4. ASSUME NEW t \in Thread, Block(t) PROVE FALSE
    <3>1. SelectThread([state EXCEPT ![t] = "WAITING"], runq, left)
      BY <2>4 DEF Block
    <3>2. [state EXCEPT ![t] = "WAITING"][u] # "NONE"
      BY <2>1
    <3> QED BY <3>1, <3>2, ElectionReleasesNothing
  <2>5. ASSUME NEW t \in Thread, NEW v \in Thread, UnlockAndSchedule(t, v) PROVE FALSE
    <3>1. SelectThread([state EXCEPT ![v] = "READY"], Push(runq, v), left)
      BY <2>5 DEF UnlockAndSchedule
    <3>2. [state EXCEPT ![v] = "READY"][u] # "NONE"
      BY <2>1
    <3> QED BY <3>1, <3>2, ElectionReleasesNothing
  <2>6. ASSUME NEW t \in Thread,
               \/ SleepReturn(t) \/ JoinAlive(t) \/ JoinLink(t)
               \/ \E p \in 0 .. LowestPrio + 1 : SetPriority(t, p)
               \/ \E d \in 0 .. MaxSleep : SleepTime(t, d)
               \/ \E v \in Thread : JoinCall(t, v)
        PROVE  FALSE
    BY <2>6 DEF SleepReturn, JoinAlive, JoinLink, SetPriority, SleepTime, JoinCall
  <2>7. ASSUME NEW t \in Thread,
               \/ SleepState(t) \/ JoinState(t) \/ ExitZombie(t) \/ ExitCritical(t)
               \/ \E v \in Thread : Unlock(t, v) \/ \E p \in Prio : Create(t, v, p)
        PROVE  FALSE
    BY <2>1, <2>7 DEF SleepState, JoinState, ExitZombie, ExitCritical, Unlock, Create
  <2>8. ASSUME NEW t \in Thread, JoinZombie(t) \/ JoinReturn(t) PROVE Safe(u)
    <3>1. /\ t = active /\ target[t] \in Thread \ {t} /\ state[target[t]] = "ZOMBIE"
          /\ \A v \in Thread \ {target[t]} : state'[v] = state[v]
          /\ \A j \in Thread \ {t} : InJoin(j) => target[j] # target[t]
          /\ ~Contains(runq, target[t]) /\ ~Contains(sleepq, target[t])
      BY <2>8, CollectSteps
    <3> QED BY <3>1
  <2> QED BY <2>2, <2>3, <2>4, <2>5, <2>6, <2>7, <2>8 DEF Next
<1> QED BY <1>1, SchedulerInvariant, PTL DEF Spec, ReleasedOnlyWhenDead

================================================================================
