-------------------------- MODULE Iteration_proof --------------------------
(***************************************************************************)
(* Proofs about Iteration: whatever the tests do, their steps are steps of *)
(* the memory, so that what is proved of the memory holds of every test;   *)
(* and after() sees everything the threads have done.                      *)
(***************************************************************************)
EXTENDS Iteration, MemoryModel_proof

-----------------------------------------------------------------------------
(* The threads and where they wait *)

Phases == {"before", "threads", "fence", "after", "end"}

ControlType ==
    /\ test \in Tests /\ phase \in Phases /\ running \in Thread
    /\ pc \in [Thread -> Nat] /\ special_pc \in Nat \ {0}
    /\ created \subseteq Thread /\ finished \subseteq Thread /\ woken \subseteq Thread
    /\ waitset \in [SyncVar -> SUBSET Thread]

\* t is in a join or in a wait of a futex.
IsAtWait(t) ==
    /\ t \in created
    /\ pc[t] \in 1 .. Len(Program(t)) /\ Ahead(t).op \in {"join", "futex_park"}

\* A thread waits for what its instruction says, and for that only.
WaitsAreRight ==
    /\ \A s \in SyncVar : \A t \in waitset[s] : IsAtWait(t) /\ s = WaitsFor(t) /\ t \notin woken
    /\ \A t \in woken : IsAtWait(t)

Control == ControlType /\ WaitsAreRight

\* The instructions of a thread are well formed.
LEMMA AheadType ==
    ASSUME Control, NEW t \in Thread, pc[t] \in 1 .. Len(Program(t))
    PROVE  IsInstruction(Ahead(t)) /\ t \in created
  <1>1. t \in created
    <2>. SUFFICES ASSUME t \notin created PROVE FALSE
      OBVIOUS
    <2>1. Program(t) = <<>> /\ Len(<<>>) = 0
      BY DEF Program
    <2>. QED  BY <2>1
  <1>2. Program(t) = test.thread[t] /\ IsProgram(test.thread[t])
    BY <1>1, TestAssumption DEF Program, Control, ControlType
  <1>. QED  BY <1>1, <1>2 DEF IsProgram, Ahead

\* What a thread waits for has a sync_var.
LEMMA WaitsForType ==
    ASSUME Control, NEW t \in Thread, IsAtWait(t)
    PROVE  WaitsFor(t) \in SyncVar
  <1>1. IsInstruction(Ahead(t))
    BY AheadType DEF IsAtWait
  <1>2. CASE Ahead(t).op = "join"
    BY <1>1, <1>2, SyncAssumption DEF IsInstruction, WaitsFor
  <1>3. CASE Ahead(t).op = "futex_park"
    <2>1. Ahead(t).obj \in Atomic
      BY <1>1, <1>3 DEF IsInstruction
    <2>2. futex_sync \in [Atomic -> SyncVar \ Thread]
      BY SyncAssumption DEF Injection
    <2>. QED  BY <1>3, <2>1, <2>2 DEF WaitsFor
  <1>. QED  BY <1>2, <1>3 DEF IsAtWait

\* Of a thread that stays where it is, created or not, the wait is the same.
LEMMA WaitKept ==
    ASSUME NEW t, IsAtWait(t), UNCHANGED test, pc'[t] = pc[t], created \subseteq created'
    PROVE  IsAtWait(t)' /\ WaitsFor(t)' = WaitsFor(t)
  <1>1. Program(t)' = Program(t)
    BY DEF IsAtWait, Program
  <1>2. Ahead(t)' = Ahead(t)
    BY <1>1 DEF Ahead
  <1>. QED  BY <1>1, <1>2 DEF IsAtWait, WaitsFor

\* A step that leaves the waits alone, and moves no thread that waits.
LEMMA NobodyWaitsAnew ==
    ASSUME Control, ControlType', UNCHANGED <<test, waitset, woken>>, created \subseteq created',
           \A t \in Thread : t \in Parked \cup woken => pc'[t] = pc[t]
    PROVE  Control'
  <1>1. \A s \in SyncVar : \A t \in waitset[s] : t \in Thread /\ t \in Parked
    BY DEF Control, ControlType, Parked
  <1>2. ASSUME NEW s \in SyncVar, NEW t \in waitset[s]
        PROVE  IsAtWait(t)' /\ s = WaitsFor(t)' /\ t \notin woken
    <2>1. IsAtWait(t) /\ s = WaitsFor(t) /\ t \notin woken
      BY DEF Control, WaitsAreRight
    <2>2. pc'[t] = pc[t]
      BY <1>1
    <2>. QED  BY <2>1, <2>2, WaitKept
  <1>3. ASSUME NEW t \in woken
        PROVE  IsAtWait(t)'
    <2>1. IsAtWait(t) /\ t \in Thread
      BY DEF Control, WaitsAreRight, ControlType
    <2>. QED  BY <2>1, WaitKept
  <1>. QED  BY <1>2, <1>3 DEF Control, WaitsAreRight


-----------------------------------------------------------------------------
(* The steps of a test are steps of the memory *)

\* What the instruction of t may do to the memory.
StepOf(t) == AnyStep(t) \/ (\E result \in TestResult : Fail(result)) \/ UNCHANGED vars

\* It is a step of the memory, and changes no other thread's clock.
LEMMA StepOfOne ==
    ASSUME Inv, NEW t \in Thread, StepOf(t)
    PROVE  [AnyNext]_vars /\ \A u \in Thread \ {t} : acq_rel_order'[u] = acq_rel_order[u]
  <1>1. [AnyNext]_vars
    BY DEF StepOf, AnyNext
  <1>2. ASSUME UNCHANGED acq_rel_order
        PROVE  \A u \in Thread \ {t} : acq_rel_order'[u] = acq_rel_order[u]
    BY <1>2
  <1>3. ASSUME NEW c, acq_rel_order' = [acq_rel_order EXCEPT ![t] = c]
        PROVE  \A u \in Thread \ {t} : acq_rel_order'[u] = acq_rel_order[u]
    BY <1>3 DEF Inv, TypeOK
  <1>4. ASSUME NEW x \in Atomic, NEW mo, Load(t, x, mo) \/ CompareExchangeFails(t, x, mo)
        PROVE  UNCHANGED acq_rel_order \/ \E c : acq_rel_order' = [acq_rel_order EXCEPT ![t] = c]
    <2>1. (\E i \in Int : LoadAt(t, x, i, mo)) \/ Fail("uninitialized")
      BY <1>4, LoadCases DEF Inv
    <2>. QED  BY <2>1 DEF LoadAt, Fail, threadVars
  <1>5. ASSUME NEW x \in Atomic, NEW mo, Store(t, x, mo) \/ ReadModifyWrite(t, x, mo)
        PROVE  \E c : acq_rel_order' = [acq_rel_order EXCEPT ![t] = c]
    <2>1. \A h, c, rmw : Publish(t, x, h, mo, c, rmw) =>
                acq_rel_order' = [acq_rel_order EXCEPT ![t] = c]
      BY DEF Publish
    <2>. QED  BY <1>5, <2>1 DEF Store, ReadModifyWrite
  <1>6. ASSUME NEW mo \in FenceOrder, Fence(t, mo)
        PROVE  UNCHANGED acq_rel_order \/ \E c : acq_rel_order' = [acq_rel_order EXCEPT ![t] = c]
    <2>1. PICK c \in Clock : acq_rel_order' = [acq_rel_order EXCEPT ![t] = c]
      BY <1>6, FenceClocks DEF Inv
    <2>. QED  BY <2>1
  <1>7. ASSUME \/ \E s \in SyncVar : Synchronize(t, s)
               \/ \E v \in Var : VarLoad(t, v) \/ VarStore(t, v)
        PROVE  \E c : acq_rel_order' = [acq_rel_order EXCEPT ![t] = c]
    BY <1>7 DEF Synchronize, sync_acquire, sync_release, sync_acq_rel, VarLoad, VarStore
  <1>8. ASSUME \/ \E x \in Atomic : ReadModifyWriteFails(x)
               \/ \E v \in Var : VarLoadFails(t, v) \/ VarStoreFails(t, v)
               \/ \E result \in TestResult : Fail(result)
               \/ Yield(t) \/ UNCHANGED vars
        PROVE  UNCHANGED acq_rel_order
    BY <1>8 DEF ReadModifyWriteFails, VarLoadFails, VarStoreFails, Fail, Yield, vars, threadVars
  <1>. QED
    BY <1>1, <1>2, <1>3, <1>4, <1>5, <1>6, <1>7, <1>8 DEF StepOf, AnyStep

\* Those of the instructions that neither create nor wait.
LEMMA ExecuteSteps ==
    ASSUME NEW t \in Thread, NEW ins, IsInstruction(ins), ins.op \notin Blocking, Execute(t, ins)
    PROVE  StepOf(t)
  <1>1. CASE ins.op \in {"load", "store", "rmw", "compare_exchange"}
    <2>1. ins.obj \in Atomic
      BY <1>1 DEF IsInstruction
    <2>2. CASE ins.op = "load"
      BY <2>1, <2>2 DEF Execute, StepOf, AnyStep
    <2>3. CASE ins.op = "store"
      BY <2>1, <2>3 DEF Execute, StepOf, AnyStep
    <2>4. CASE ins.op = "rmw"
      BY <2>1, <2>4 DEF Execute, StepOf, AnyStep
    <2>5. CASE ins.op = "compare_exchange"
      <3>1. CompareExchange(t, ins)
        BY <2>5 DEF Execute
      <3>. QED  BY <2>1, <3>1 DEF CompareExchange, StepOf, AnyStep
    <2>. QED  BY <1>1, <2>2, <2>3, <2>4, <2>5
  <1>2. CASE ins.op \in {"plain_load", "plain_store"}
    <2>1. ins.obj \in Var
      BY <1>2 DEF IsInstruction
    <2>2. CASE ins.op = "plain_load"
      BY <2>1, <2>2 DEF Execute, StepOf, AnyStep
    <2>3. CASE ins.op = "plain_store"
      BY <2>1, <2>3 DEF Execute, StepOf, AnyStep
    <2>. QED  BY <1>2, <2>2, <2>3
  <1>3. CASE ins.op = "fence"
    BY <1>3 DEF IsInstruction, Execute, StepOf, AnyStep
  <1>4. CASE ins.op = "yield"
    BY <1>4 DEF Execute, StepOf, AnyStep
  <1>5. CASE ins.op = "if"
    BY <1>5 DEF Execute, StepOf
  <1>6. CASE ins.op = "until"
    BY <1>6 DEF Execute, StepOf, TestResult
  <1>7. CASE ins.op = "assert"
    BY <1>7 DEF Execute, StepOf, TestResult
  <1>. QED  BY <1>1, <1>2, <1>3, <1>4, <1>5, <1>6, <1>7 DEF IsInstruction, Blocking

\* An acquire or a release of a sync_var, alone.
LEMMA SyncSteps ==
    ASSUME NEW t \in Thread, NEW s \in SyncVar, own(t) < MaxClock, UNCHANGED notClocks,
           sync_acquire(t, s) \/ sync_release(t, s)
    PROVE  StepOf(t)
  <1>1. Synchronize(t, s)
    BY DEF Synchronize, notClocks, threadVars, atomicVars, plainVars
  <1>. QED  BY <1>1 DEF StepOf, AnyStep

\* Nothing but what a sync_var is concerned with has changed, and not that.
LEMMA NothingSteps ==
    ASSUME NEW t \in Thread, UNCHANGED notClocks, UNCHANGED <<acq_rel_order, order>>
    PROVE  StepOf(t)
  BY DEF StepOf, notClocks, vars, threadVars, atomicVars, plainVars

\* A step of before() or after().
LEMMA InstructionSteps ==
    ASSUME Control, NEW t \in Thread, NEW p, NEW i \in Nat \ {0}, NEW next, IsProgram(p),
           Instruction(t, p, i, next), p[i].op \notin Blocking
    PROVE  StepOf(t)
  <1>1. IsInstruction(p[i]) /\ Execute(t, p[i])
    BY DEF IsProgram, Instruction
  <1>. QED  BY <1>1, ExecuteSteps

-----------------------------------------------------------------------------
(* The steps of the iteration *)

\* A program's length.
LEMMA ProgramLength ==
    ASSUME Control, NEW t \in Thread
    PROVE  Len(Program(t)) \in Nat
  <1>1. IsProgram(test.thread[t])
    BY TestAssumption DEF Control, ControlType
  <1>2. Len(<<>>) \in Nat
    OBVIOUS
  <1>. QED  BY <1>1, <1>2 DEF Program, IsProgram

\* The steps of before().
LEMMA BeforeSteps ==
    ASSUME Control, Before
    PROVE  Control' /\ [AnyNext]_vars
  <1>1. \A t \in Thread : pc'[t] = pc[t]
    BY DEF Before
  <1>2. IsProgram(test.before) /\ \A i \in 1 .. Len(test.before) : test.before[i].op \notin Blocking
    BY TestAssumption DEF Control, ControlType
  <1>3. CASE /\ \E next \in 1 .. Len(test.before) + 1 :
                    /\ Instruction(running, test.before, special_pc, next)
                    /\ special_pc' = next
             /\ UNCHANGED phase
    <2>1. PICK next \in 1 .. Len(test.before) + 1 :
                /\ Instruction(running, test.before, special_pc, next)
                /\ special_pc' = next
      BY <1>3
    <2>2. special_pc \in Nat \ {0} /\ running \in Thread /\ Len(test.before) \in Nat
      BY <1>2 DEF Control, ControlType, IsProgram
    <2>3. special_pc \in 1 .. Len(test.before)
      BY <2>1, <2>2 DEF Instruction
    <2>4. StepOf(running)
      BY <1>2, <2>1, <2>2, <2>3, InstructionSteps
    <2>5. ControlType'
      BY <1>3, <2>1, <2>2 DEF Before, Control, ControlType, blocking
    <2>6. Control'
      BY <1>1, <2>5, NobodyWaitsAnew DEF Before, blocking
    <2>7. [AnyNext]_vars
      BY <2>2, <2>4 DEF StepOf, AnyNext
    <2>. QED  BY <2>6, <2>7
  <1>4. CASE rl_global_fence /\ phase' = "threads" /\ special_pc' = 1
    <2>1. ControlType'
      BY <1>4 DEF Before, Control, ControlType, blocking, Phases
    <2>2. Control'
      BY <1>1, <2>1, NobodyWaitsAnew DEF Before, blocking
    <2>. QED  BY <1>4, <2>2 DEF AnyNext
  <1>. QED  BY <1>3, <1>4 DEF Before

\* The steps from the end of the last thread to the end of after().
LEMMA AfterSteps ==
    ASSUME Control, After
    PROVE  Control' /\ [AnyNext]_vars
  <1>1. \A t \in Thread : pc'[t] = pc[t]
    BY DEF After
  <1>2. IsProgram(test.after) /\ \A i \in 1 .. Len(test.after) : test.after[i].op \notin Blocking
    BY TestAssumption DEF Control, ControlType
  <1>3. CASE /\ \E next \in 1 .. Len(test.after) + 1 :
                    /\ Instruction(running, test.after, special_pc, next)
                    /\ special_pc' = next
             /\ UNCHANGED phase
    <2>1. PICK next \in 1 .. Len(test.after) + 1 :
                /\ Instruction(running, test.after, special_pc, next)
                /\ special_pc' = next
      BY <1>3
    <2>2. special_pc \in Nat \ {0} /\ running \in Thread /\ Len(test.after) \in Nat
      BY <1>2 DEF Control, ControlType, IsProgram
    <2>3. special_pc \in 1 .. Len(test.after)
      BY <2>1, <2>2 DEF Instruction
    <2>4. StepOf(running)
      BY <1>2, <2>1, <2>2, <2>3, InstructionSteps
    <2>5. ControlType'
      BY <1>3, <2>1, <2>2 DEF After, Control, ControlType, blocking
    <2>6. Control'
      BY <1>1, <2>5, NobodyWaitsAnew DEF After, blocking
    <2>7. [AnyNext]_vars
      BY <2>2, <2>4 DEF StepOf, AnyNext
    <2>. QED  BY <2>6, <2>7
  <1>4. CASE rl_global_fence /\ phase' = "after" /\ UNCHANGED special_pc
    <2>1. ControlType'
      BY <1>4 DEF After, Control, ControlType, blocking, Phases
    <2>2. Control'
      BY <1>1, <2>1, NobodyWaitsAnew DEF After, blocking
    <2>. QED  BY <1>4, <2>2 DEF AnyNext
  <1>5. CASE phase' = "end" /\ UNCHANGED <<vars, special_pc>>
    <2>1. ControlType'
      BY <1>5 DEF After, Control, ControlType, blocking, Phases
    <2>2. Control'
      BY <1>1, <2>1, NobodyWaitsAnew DEF After, blocking
    <2>. QED  BY <1>5, <2>2
  <1>. QED  BY <1>3, <1>4, <1>5 DEF After

\* A thread that starts.
LEMMA StartSteps ==
    ASSUME Control, NEW t \in Thread, on_start(t)
    PROVE  Control' /\ StepOf(t)
  <1>1. t \notin Parked \cup woken
    <2>1. pc[t] = 0
      BY DEF on_start
    <2>2. ~IsAtWait(t)
      BY <2>1 DEF IsAtWait
    <2>. QED  BY <2>2 DEF on_start, MayRun, Control, WaitsAreRight
  <1>2. \A u \in Thread : u \in Parked \cup woken => pc'[u] = pc[u]
    BY <1>1 DEF on_start, Control, ControlType
  <1>3. ControlType'
    BY DEF on_start, MayRun, Control, ControlType, blocking
  <1>4. Control'
    BY <1>2, <1>3, NobodyWaitsAnew DEF on_start, blocking
  <1>5. StepOf(t)
    BY SyncSteps, SyncAssumption DEF on_start
  <1>. QED  BY <1>4, <1>5

\* An instruction that neither creates nor waits.
LEMMA ThreadSteps ==
    ASSUME Control, NEW t \in Thread, ThreadStep(t)
    PROVE  Control' /\ StepOf(t)
  <1>1. pc[t] \in 1 .. Len(Program(t)) /\ Ahead(t).op \notin Blocking
    BY DEF ThreadStep
  <1>2. PICK next \in 1 .. Len(Program(t)) + 1 :
            /\ Instruction(t, Program(t), pc[t], next)
            /\ pc' = [pc EXCEPT ![t] = next]
    BY DEF ThreadStep
  <1>3. t \notin Parked \cup woken
    <2>1. ~IsAtWait(t)
      BY <1>1 DEF IsAtWait, Blocking
    <2>. QED  BY <2>1 DEF ThreadStep, MayRun, Control, WaitsAreRight
  <1>4. \A u \in Thread : u \in Parked \cup woken => pc'[u] = pc[u]
    BY <1>2, <1>3 DEF Control, ControlType
  <1>5. next \in Nat
    BY <1>2, ProgramLength
  <1>6. ControlType'
    BY <1>2, <1>5 DEF ThreadStep, MayRun, Control, ControlType, blocking
  <1>7. Control'
    BY <1>4, <1>6, NobodyWaitsAnew DEF ThreadStep, blocking
  <1>8. IsInstruction(Ahead(t)) /\ Execute(t, Ahead(t))
    BY <1>1, <1>2, AheadType DEF Instruction, Ahead
  <1>. QED  BY <1>1, <1>7, <1>8, ExecuteSteps

\* A thread that ends: those that wait for it are woken where they are.
LEMMA FinishSteps ==
    ASSUME Control, NEW t \in Thread, on_finish(t)
    PROVE  Control' /\ StepOf(t)
  <1>1. /\ UNCHANGED <<test, pc, created>>
        /\ waitset' = [waitset EXCEPT ![t] = {}] /\ woken' = woken \cup waitset[t]
    BY DEF on_finish
  <1>2. waitset[t] \subseteq Thread /\ t \in SyncVar
    BY SyncAssumption DEF Control, ControlType
  <1>3. ControlType'
    <2>1. /\ waitset' \in [SyncVar -> SUBSET Thread] /\ woken' \subseteq Thread
      BY <1>1, <1>2 DEF Control, ControlType
    <2>. QED  BY <1>1, <2>1 DEF on_finish, MayRun, Control, ControlType, Phases
  <1>4. ASSUME NEW s \in SyncVar, NEW u \in waitset'[s]
        PROVE  IsAtWait(u)' /\ s = WaitsFor(u)' /\ u \notin woken'
    <2>1. s # t /\ u \in waitset[s]
      BY <1>1, <1>2 DEF Control, ControlType
    <2>2. IsAtWait(u) /\ s = WaitsFor(u) /\ u \notin woken
      BY <2>1 DEF Control, WaitsAreRight
    <2>3. u \notin waitset[t]
      BY <1>2, <2>1, <2>2 DEF Control, WaitsAreRight
    <2>4. pc'[u] = pc[u] /\ created \subseteq created' /\ UNCHANGED test
      BY <1>1
    <2>. QED  BY <1>1, <2>2, <2>3, <2>4, WaitKept
  <1>5. ASSUME NEW u \in woken'
        PROVE  IsAtWait(u)'
    <2>1. IsAtWait(u)
      BY <1>1, <1>2 DEF Control, WaitsAreRight
    <2>2. pc'[u] = pc[u] /\ created \subseteq created' /\ UNCHANGED test
      BY <1>1
    <2>. QED  BY <2>1, <2>2, WaitKept
  <1>6. StepOf(t)
    BY SyncSteps, SyncAssumption DEF on_finish
  <1>. QED  BY <1>3, <1>4, <1>5, <1>6 DEF Control, WaitsAreRight

\* A thread that moves on, waiting for nobody.
LEMMA MovesOn ==
    ASSUME Control, ControlType', NEW t \in Thread, t \notin Parked, t \notin woken,
           UNCHANGED <<test, waitset, woken>>, created \subseteq created',
           \A u \in Thread \ {t} : pc'[u] = pc[u]
    PROVE  Control'
  <1>1. \A u \in Thread : u \in Parked \cup woken => pc'[u] = pc[u]
    OBVIOUS
  <1>. QED  BY <1>1, NobodyWaitsAnew

\* A thread that parks is where it waits.
LEMMA ParkSteps ==
    ASSUME Control, NEW t \in Thread, t \notin woken, pc[t] \in 1 .. Len(Program(t)),
           Ahead(t).op \in {"join", "futex_park"}, NEW s, s = WaitsFor(t), Park(t, s),
           UNCHANGED <<test, phase, special_pc, finished>>, running' \in Thread
    PROVE  Control' /\ StepOf(t)
  <1>1. IsAtWait(t)
    BY AheadType DEF IsAtWait
  <1>2. s \in SyncVar
    BY <1>1, WaitsForType
  <1>3. /\ UNCHANGED <<test, pc, created, woken>> /\ waitset' = [waitset EXCEPT ![s] = @ \cup {t}]
    BY DEF Park
  <1>4. ControlType'
    BY <1>2, <1>3 DEF Control, ControlType
  <1>5. \A u : IsAtWait(u) => IsAtWait(u)' /\ WaitsFor(u)' = WaitsFor(u)
    <2>1. \A u : pc'[u] = pc[u] /\ created \subseteq created' /\ UNCHANGED test
      BY <1>3
    <2>. QED  BY <2>1, WaitKept
  <1>6. ASSUME NEW r \in SyncVar, NEW u \in waitset'[r]
        PROVE  IsAtWait(u)' /\ r = WaitsFor(u)' /\ u \notin woken'
    <2>1. CASE u \in waitset[r]
      BY <1>3, <1>5, <2>1 DEF Control, WaitsAreRight
    <2>2. CASE u \notin waitset[r]
      <3>1. r = s /\ u = t
        BY <1>3, <1>6, <2>2 DEF Control, ControlType
      <3>. QED  BY <1>1, <1>3, <1>5, <3>1
    <2>. QED  BY <2>1, <2>2
  <1>7. \A u \in woken' : IsAtWait(u)'
    BY <1>3, <1>5 DEF Control, WaitsAreRight
  <1>8. StepOf(t)
    BY DEF Park, StepOf, AnyStep
  <1>. QED  BY <1>4, <1>6, <1>7, <1>8 DEF Control, WaitsAreRight

\* A new thread is made, and may start.
LEMMA CreateSteps ==
    ASSUME Control, NEW t \in Thread, create_thread(t)
    PROVE  Control' /\ StepOf(t)
  <1>1. /\ pc[t] \in 1 .. Len(Program(t)) /\ Ahead(t).op = "create"
        /\ t \notin Parked /\ t \notin woken
    BY DEF create_thread, Takes, MayRun
  <1>2. Ahead(t).obj \in Thread
    BY <1>1, AheadType DEF IsInstruction
  <1>3. /\ pc' = [pc EXCEPT ![t] = @ + 1] /\ created' = created \cup {Ahead(t).obj}
        /\ UNCHANGED <<test, phase, special_pc, finished, waitset, woken>> /\ running' = t
    BY DEF create_thread, Takes, Done, MayRun
  <1>4. ControlType'
    BY <1>2, <1>3 DEF Control, ControlType
  <1>5. \A u \in Thread \ {t} : pc'[u] = pc[u]
    BY <1>3 DEF Control, ControlType
  <1>6. Control'
    BY <1>1, <1>3, <1>4, <1>5, MovesOn
  <1>7. own(t) < MaxClock /\ sync_release(t, Ahead(t).obj) /\ UNCHANGED notClocks
    BY DEF create_thread, Takes
  <1>. QED  BY <1>2, <1>6, <1>7, SyncSteps, SyncAssumption

\* A join parks, or acquires what the thread that has ended has released.
LEMMA JoinSteps ==
    ASSUME Control, NEW t \in Thread, WaitForThread(t)
    PROVE  Control' /\ StepOf(t)
  <1>1. PICK u : u = Ahead(t).obj
    OBVIOUS
  <1>2. /\ pc[t] \in 1 .. Len(Program(t)) /\ Ahead(t).op = "join"
        /\ t \notin Parked /\ t \notin woken
        /\ UNCHANGED <<test, phase, special_pc, finished>> /\ running' = t /\ own(t) < MaxClock
    BY DEF WaitForThread, Takes, MayRun
  <1>3. u \in Thread /\ u = WaitsFor(t)
    BY <1>1, <1>2, AheadType DEF IsInstruction, WaitsFor
  <1>4. CASE Park(t, u)
    BY <1>2, <1>3, <1>4, ParkSteps
  <1>5. CASE /\ sync_acquire(t, u) /\ Done(t) /\ UNCHANGED <<notClocks, blocking>>
    <2>1. /\ pc' = [pc EXCEPT ![t] = @ + 1] /\ UNCHANGED <<created, waitset, woken>>
      BY <1>5 DEF Done, blocking
    <2>2. ControlType'
      BY <1>2, <2>1 DEF Control, ControlType
    <2>3. \A w \in Thread \ {t} : pc'[w] = pc[w]
      BY <2>1 DEF Control, ControlType
    <2>4. Control'
      BY <1>2, <2>1, <2>2, <2>3, MovesOn
    <2>. QED  BY <1>2, <1>3, <1>5, <2>4, SyncSteps, SyncAssumption
  <1>. QED  BY <1>1, <1>4, <1>5 DEF WaitForThread

\* The load and comparison of a futex wait.
LEMMA CompareSteps ==
    ASSUME Control, NEW t \in Thread, futex_compare(t)
    PROVE  Control' /\ StepOf(t)
  <1>1. /\ pc[t] \in 1 .. Len(Program(t)) /\ Ahead(t).op = "futex_compare"
        /\ t \notin Parked /\ t \notin woken
        /\ UNCHANGED <<test, phase, special_pc, finished, created, waitset, woken>> /\ running' = t
    BY DEF futex_compare, Takes, MayRun, blocking
  <1>2. Ahead(t).obj \in Atomic
    BY <1>1, AheadType DEF IsInstruction
  <1>3. \E n \in {0, 1, 2} : pc' = [pc EXCEPT ![t] = @ + n]
    <2>1. pc = [pc EXCEPT ![t] = @ + 0]
      BY DEF Control, ControlType
    <2>. QED  BY <2>1 DEF futex_compare, Done
  <1>4. ControlType'
    BY <1>1, <1>3 DEF Control, ControlType
  <1>5. \A w \in Thread \ {t} : pc'[w] = pc[w]
    BY <1>3 DEF Control, ControlType
  <1>6. Control'
    BY <1>1, <1>4, <1>5, MovesOn
  <1>. QED  BY <1>2, <1>6 DEF futex_compare, StepOf, AnyStep

\* The wait that follows it.
LEMMA WaitSteps ==
    ASSUME Control, NEW t \in Thread, atomic_wait(t)
    PROVE  Control' /\ StepOf(t)
  <1>1. /\ pc[t] \in 1 .. Len(Program(t)) /\ Ahead(t).op = "futex_park" /\ t \notin woken
        /\ UNCHANGED <<test, phase, special_pc, finished>> /\ running' = t
    BY DEF atomic_wait, Takes, MayRun
  <1>2. WaitsFor(t) = futex_sync[Ahead(t).obj]
    BY <1>1 DEF WaitsFor
  <1>. QED  BY <1>1, <1>2, ParkSteps DEF atomic_wait

\* A wake moves threads from the waitset to those that may go on.
LEMMA WakeSteps ==
    ASSUME Control, NEW t \in Thread, atomic_wake(t)
    PROVE  Control' /\ StepOf(t)
  <1>1. /\ pc[t] \in 1 .. Len(Program(t)) /\ Ahead(t).op = "futex_wake"
        /\ t \notin Parked /\ t \notin woken
        /\ UNCHANGED <<test, phase, special_pc, finished, created>> /\ UNCHANGED notClocks
        /\ running' = t /\ own(t) < MaxClock
        /\ pc' = [pc EXCEPT ![t] = @ + 1]
    BY DEF atomic_wake, Takes, MayRun, Done
  <1>2. PICK s : s = futex_sync[Ahead(t).obj]
    OBVIOUS
  <1>3. s \in SyncVar
    <2>1. Ahead(t).obj \in Atomic
      BY <1>1, AheadType DEF IsInstruction
    <2>2. futex_sync \in [Atomic -> SyncVar \ Thread]
      BY SyncAssumption DEF Injection
    <2>. QED  BY <1>2, <2>1, <2>2
  <1>4. PICK w \in SUBSET waitset[s] :
            /\ waitset' = [waitset EXCEPT ![s] = @ \ w]
            /\ woken' = woken \cup w
            /\ IF w = {} THEN UNCHANGED <<acq_rel_order, order>> ELSE sync_release(t, s)
    BY <1>2 DEF atomic_wake
  <1>5. w \subseteq Thread
    BY <1>3, <1>4 DEF Control, ControlType
  <1>6. ControlType'
    BY <1>1, <1>3, <1>4, <1>5 DEF Control, ControlType
  <1>7. \A u \in Thread \ {t} : IsAtWait(u) => IsAtWait(u)' /\ WaitsFor(u)' = WaitsFor(u)
    <2>1. \A u \in Thread \ {t} : pc'[u] = pc[u] /\ created \subseteq created' /\ UNCHANGED test
      BY <1>1 DEF Control, ControlType
    <2>. QED  BY <2>1, WaitKept
  <1>8. \A r \in SyncVar : \A u \in waitset[r] : u \in Thread \ {t}
    BY <1>1 DEF Control, ControlType, Parked
  <1>9. ASSUME NEW r \in SyncVar, NEW u \in waitset'[r]
        PROVE  IsAtWait(u)' /\ r = WaitsFor(u)' /\ u \notin woken'
    <2>1. u \in waitset[r]
      BY <1>4, <1>9 DEF Control, ControlType
    <2>2. IsAtWait(u) /\ r = WaitsFor(u) /\ u \notin woken
      BY <2>1 DEF Control, WaitsAreRight
    <2>3. u \notin w
      <3>. SUFFICES ASSUME u \in w PROVE FALSE
        OBVIOUS
      <3>1. s = WaitsFor(u)
        BY <1>3, <1>4 DEF Control, WaitsAreRight
      <3>. QED  BY <1>3, <1>4, <1>9, <2>2, <3>1 DEF Control, ControlType
    <2>. QED  BY <1>4, <1>7, <1>8, <2>1, <2>2, <2>3
  <1>10. ASSUME NEW u \in woken'
         PROVE  IsAtWait(u)'
    <2>1. IsAtWait(u)
      BY <1>3, <1>4 DEF Control, WaitsAreRight
    <2>2. u \in Thread \ {t}
      BY <1>1, <1>3, <1>4, <1>8 DEF Control, ControlType
    <2>. QED  BY <1>7, <2>1, <2>2
  <1>11. StepOf(t)
    BY <1>1, <1>3, <1>4, SyncSteps, NothingSteps
  <1>. QED  BY <1>6, <1>9, <1>10, <1>11 DEF Control, WaitsAreRight

\* A thread that was woken goes on, and acquires.
LEMMA ContinueSteps ==
    ASSUME Control, NEW t \in Thread, Continue(t)
    PROVE  Control' /\ StepOf(t)
  <1>1. /\ t \in woken /\ t \notin Parked /\ own(t) < MaxClock /\ sync_acquire(t, WaitsFor(t))
        /\ woken' = woken \ {t} /\ pc' = [pc EXCEPT ![t] = @ + 1] /\ running' = t
        /\ UNCHANGED <<test, phase, special_pc, finished, created, waitset>> /\ UNCHANGED notClocks
    BY DEF Continue, MayRun, Done
  <1>2. ControlType'
    BY <1>1 DEF Control, ControlType
  <1>3. \A u \in Thread \ {t} : IsAtWait(u) => IsAtWait(u)' /\ WaitsFor(u)' = WaitsFor(u)
    <2>1. \A u \in Thread \ {t} : pc'[u] = pc[u] /\ created \subseteq created' /\ UNCHANGED test
      BY <1>1 DEF Control, ControlType
    <2>. QED  BY <2>1, WaitKept
  <1>4. ASSUME NEW r \in SyncVar, NEW u \in waitset'[r]
        PROVE  IsAtWait(u)' /\ r = WaitsFor(u)' /\ u \notin woken'
    <2>1. u \in waitset[r] /\ u \in Thread \ {t}
      BY <1>1, <1>4 DEF Control, ControlType, Parked
    <2>. QED  BY <1>1, <1>3, <2>1 DEF Control, WaitsAreRight
  <1>5. ASSUME NEW u \in woken'
        PROVE  IsAtWait(u)'
    <2>1. u \in woken /\ u \in Thread \ {t}
      BY <1>1, <1>5 DEF Control, ControlType
    <2>. QED  BY <1>3, <2>1 DEF Control, WaitsAreRight
  <1>6. WaitsFor(t) \in SyncVar
    BY <1>1, WaitsForType DEF Control, WaitsAreRight
  <1>. QED  BY <1>1, <1>2, <1>4, <1>5, <1>6, SyncSteps DEF Control, WaitsAreRight

\* A wait that ends by itself.
LEMMA EndsSteps ==
    ASSUME Control, NEW t \in Thread, NEW result, WaitEnds(t, result)
    PROVE  Control' /\ StepOf(t)
  <1>1. /\ t \in Parked /\ own(t) < MaxClock
        /\ waitset' = [waitset EXCEPT ![WaitsFor(t)] = @ \ {t}]
        /\ pc' = [pc EXCEPT ![t] = @ + 1] /\ running' = t
        /\ UNCHANGED <<test, phase, special_pc, finished, created, woken>> /\ UNCHANGED notClocks
        /\ IF Ahead(t).op = "join" THEN sync_acquire(t, Ahead(t).obj)
                                   ELSE UNCHANGED <<acq_rel_order, order>>
    BY DEF WaitEnds, Done
  <1>2. PICK s \in SyncVar : t \in waitset[s]
    BY <1>1 DEF Parked
  <1>3. IsAtWait(t) /\ s = WaitsFor(t) /\ t \notin woken
    BY <1>2 DEF Control, WaitsAreRight
  <1>4. ControlType'
    BY <1>1, <1>3 DEF Control, ControlType
  <1>5. \A u \in Thread \ {t} : IsAtWait(u) => IsAtWait(u)' /\ WaitsFor(u)' = WaitsFor(u)
    <2>1. \A u \in Thread \ {t} : pc'[u] = pc[u] /\ created \subseteq created' /\ UNCHANGED test
      BY <1>1 DEF Control, ControlType
    <2>. QED  BY <2>1, WaitKept
  <1>6. ASSUME NEW r \in SyncVar, NEW u \in waitset'[r]
        PROVE  IsAtWait(u)' /\ r = WaitsFor(u)' /\ u \notin woken'
    <2>1. u \in waitset[r]
      BY <1>1, <1>3, <1>6 DEF Control, ControlType
    <2>2. IsAtWait(u) /\ r = WaitsFor(u) /\ u \notin woken
      BY <2>1 DEF Control, WaitsAreRight
    <2>3. u # t
      BY <1>1, <1>2, <1>3, <1>6, <2>2 DEF Control, ControlType
    <2>4. u \in Thread
      BY <2>1 DEF Control, ControlType
    <2>. QED  BY <1>1, <1>5, <2>2, <2>3, <2>4
  <1>7. ASSUME NEW u \in woken'
        PROVE  IsAtWait(u)'
    <2>1. u \in woken /\ u \in Thread \ {t}
      BY <1>1, <1>3, <1>7 DEF Control, ControlType
    <2>. QED  BY <1>5, <2>1 DEF Control, WaitsAreRight
  <1>8. StepOf(t)
    <2>1. CASE Ahead(t).op = "join"
      <3>1. Ahead(t).obj \in SyncVar
        BY <1>2, <1>3, <2>1 DEF WaitsFor
      <3>. QED  BY <1>1, <2>1, <3>1, SyncSteps
    <2>2. CASE Ahead(t).op # "join"
      BY <1>1, <2>2, NothingSteps
    <2>. QED  BY <2>1, <2>2
  <1>. QED  BY <1>4, <1>6, <1>7, <1>8 DEF Control, WaitsAreRight

\* Every step of the iteration is one of these.
LEMMA ItSteps ==
    ASSUME Control, [ItNext]_allVars
    PROVE  Control' /\ [AnyNext]_vars
  <1>1. CASE Before
    BY <1>1, BeforeSteps
  <1>2. CASE After
    BY <1>2, AfterSteps
  <1>3. ASSUME UNCHANGED control, (\E result \in TestResult : Fail(result)) \/ UNCHANGED vars
        PROVE  Control' /\ [AnyNext]_vars
    <2>1. ControlType'
      BY <1>3 DEF control, blocking, Control, ControlType
    <2>2. Control'
      BY <1>3, <2>1, NobodyWaitsAnew DEF control, blocking
    <2>. QED  BY <1>3, <2>2 DEF AnyNext
  <1>4. CASE Deadlock
    BY <1>3, <1>4 DEF Deadlock, TestResult
  <1>5. CASE UNCHANGED allVars
    BY <1>3, <1>5 DEF allVars
  <1>6. ASSUME NEW t \in Thread,
               \/ on_start(t) \/ ThreadStep(t) \/ on_finish(t)
               \/ create_thread(t) \/ WaitForThread(t)
               \/ futex_compare(t) \/ atomic_wait(t) \/ atomic_wake(t) \/ Continue(t)
               \/ \E result \in {TimedOut, Interrupted} : WaitEnds(t, result)
        PROVE  Control' /\ [AnyNext]_vars
    <2>1. Control' /\ StepOf(t)
      BY <1>6, StartSteps, ThreadSteps, FinishSteps, CreateSteps, JoinSteps, CompareSteps,
         WaitSteps, WakeSteps, ContinueSteps, EndsSteps
    <2>. QED  BY <2>1 DEF StepOf, AnyNext
  <1>. QED  BY <1>1, <1>2, <1>4, <1>5, <1>6 DEF ItNext

\* The threads of a test step and wait as their programs say.
THEOREM ControlRight == ItSpec => []Control
  <1>1. ItInit => Control
    <2>. SUFFICES ASSUME ItInit PROVE Control
      OBVIOUS
    <2>1. ControlType
      BY DEF ItInit, ControlType, Phases
    <2>. QED  BY <2>1 DEF ItInit, Control, WaitsAreRight
  <1>2. Control /\ [ItNext]_allVars => Control'
    BY ItSteps
  <1>. QED  BY <1>1, <1>2, PTL DEF ItSpec

\* Every test uses the memory as the threads of MemoryModel may.
THEOREM TestsUseMemory == ItSpec => AnySpec
  <1>1. ItInit => Init
    BY DEF ItInit
  <1>2. Control /\ [ItNext]_allVars => [AnyNext]_vars
    BY ItSteps
  <1>. QED  BY <1>1, <1>2, ControlRight, PTL DEF ItSpec, AnySpec

\* So its loads are those that the memory allows...
THEOREM TestLoads ==
    ItSpec => ReadsAreOfStores /\ NoStaleRead /\ OwnReadsAdvance /\ YieldMakesProgress
  BY TestsUseMemory, AnyLoadsReadStores, AnyLoadsAreFresh, AnyLoadsAdvance,
     AnyYieldingLoadsAdvance, PTL

\* ... and its release sequences are carried.
THEOREM TestReleases == ItSpec => []ReleaseSequencesAreCarried
  BY TestsUseMemory, AnyReleaseSequences, PTL

-----------------------------------------------------------------------------
(* after() sees everything *)

\* In after() the thread that runs knows the last step of every thread.
KnowsTheLast ==
    phase = "after" => \A u \in Thread : own(u) <= acq_rel_order[running][u]

\* The global fence before it tells it; no other thread steps any more.
LEMMA KnowsTheLastKept ==
    ASSUME Inv, Inv', Control, KnowsTheLast, [ItNext]_allVars
    PROVE  KnowsTheLast'
  <1>. SUFFICES ASSUME phase' = "after"
                PROVE  \A u \in Thread : own(u)' <= acq_rel_order'[running'][u]
    BY DEF KnowsTheLast
  <1>1. CASE phase = "fence" /\ rl_global_fence /\ UNCHANGED running
    <2>1. PICK max : acq_rel_order' = [t \in Thread |-> [u \in Thread |-> max]]
      BY <1>1 DEF rl_global_fence
    <2>2. running' \in Thread
      BY <1>1 DEF Control, ControlType
    <2>3. \A u \in Thread : own(u)' = max /\ acq_rel_order'[running'][u] = max
      BY <2>1, <2>2 DEF own
    <2>4. \A u \in Thread : own(u)' \in Int
      BY BoundAssumption DEF Inv, TypeOK, own, Clock
    <2>. QED  BY <2>3, <2>4
  <1>2. ASSUME phase = "after", UNCHANGED running, StepOf(running)
        PROVE  \A u \in Thread : own(u)' <= acq_rel_order'[running'][u]
    <2>1. PICK t \in Thread : t = running /\ t = running'
      BY <1>2 DEF Control, ControlType
    <2>2. [AnyNext]_vars /\ \A u \in Thread \ {t} : acq_rel_order'[u] = acq_rel_order[u]
      BY <1>2, <2>1, StepOfOne
    <2>3. ClocksGrow
      BY <2>2, StepGrows
    <2>4. \A u, w \in Thread : acq_rel_order[u][w] \in Int /\ acq_rel_order'[u][w] \in Int
      BY BoundAssumption DEF Inv, TypeOK, Clock
    <2>. SUFFICES ASSUME NEW u \in Thread PROVE acq_rel_order'[u][u] <= acq_rel_order'[t][u]
      BY <2>1 DEF own
    <2>5. CASE u = t
      BY <2>4, <2>5
    <2>6. CASE u # t
      <3>1. acq_rel_order'[u][u] = acq_rel_order[u][u]
        BY <2>2, <2>6
      <3>2. /\ acq_rel_order[u][u] <= acq_rel_order[t][u]
            /\ acq_rel_order[t][u] <= acq_rel_order'[t][u]
        BY <1>2, <2>1, <2>3 DEF KnowsTheLast, own, ClocksGrow, Grown
      <3>. QED  BY <2>4, <3>1, <3>2
    <2>. QED  BY <2>5, <2>6
  <1>3. CASE After
    <2>1. UNCHANGED running /\ running \in Thread
      BY <1>3 DEF After, Control, ControlType
    <2>2. CASE phase = "fence" /\ rl_global_fence
      BY <1>1, <2>1, <2>2
    <2>3. CASE /\ phase = "after"
               /\ \E next \in 1 .. Len(test.after) + 1 :
                    Instruction(running, test.after, special_pc, next)
      <3>1. /\ IsProgram(test.after)
            /\ \A i \in 1 .. Len(test.after) : test.after[i].op \notin Blocking
        BY TestAssumption DEF Control, ControlType
      <3>2. PICK next : Instruction(running, test.after, special_pc, next)
        BY <2>3
      <3>3. special_pc \in Nat \ {0} /\ Len(test.after) \in Nat
        BY <3>1 DEF Control, ControlType, IsProgram
      <3>4. special_pc \in 1 .. Len(test.after)
        BY <3>2, <3>3 DEF Instruction
      <3>5. StepOf(running)
        BY <2>1, <3>1, <3>2, <3>3, <3>4, InstructionSteps
      <3>. QED  BY <1>2, <2>1, <2>3, <3>5
    <2>. QED  BY <1>3, <2>2, <2>3 DEF After
  <1>4. CASE UNCHANGED allVars
    <2>1. phase = "after" /\ UNCHANGED running /\ UNCHANGED vars
      BY <1>4 DEF allVars, control
    <2>. QED  BY <1>2, <2>1 DEF StepOf
  <1>5. ~Before /\ ~Deadlock
    BY DEF Before, Deadlock, control
  <1>6. ASSUME NEW t \in Thread PROVE ~on_start(t) /\ ~ThreadStep(t) /\ ~on_finish(t)
    BY DEF on_start, ThreadStep, on_finish, MayRun
  <1>7. ASSUME NEW t \in Thread, NEW op PROVE ~Takes(t, op)
    BY DEF Takes, MayRun
  <1>8. ASSUME NEW t \in Thread, NEW result PROVE ~Continue(t) /\ ~WaitEnds(t, result)
    BY DEF Continue, MayRun, WaitEnds
  <1>. QED
    BY <1>3, <1>4, <1>5, <1>6, <1>7, <1>8
       DEF ItNext, create_thread, WaitForThread, futex_compare, atomic_wait, atomic_wake

\* The entries of clocks can be compared.
LEMMA ClockEntries == \A c \in Clock : \A u \in Thread : c[u] \in Int
  BY BoundAssumption DEF Clock

\* A thread that knows the last step of every thread reads the last stores, and
\* no access of it is a race.
LEMMA KnowsTheLastSees ==
    ASSUME Inv, Recorded, NEW t \in Thread, \A u \in Thread : own(u) <= acq_rel_order[t][u]
    PROVE  /\ \A x \in Atomic : \A mo : LoadIndices(t, x, mo) = {current_index[x]}
           /\ \A v \in Var : Knows(t, store_timestamp[v]) /\ Knows(t, load_timestamp[v])
  <1>0. \A c \in Clock : \A u \in Thread : c[u] \in Int
    BY ClockEntries
  <1>1. \A u \in Thread : own(u) \in Int /\ acq_rel_order[t][u] \in Int
    <2>1. \A u \in Thread : acq_rel_order[u] \in Clock
      BY DEF Inv, TypeOK
    <2>. QED  BY <1>0, <2>1 DEF own
  <1>2. ASSUME NEW x \in Atomic, NEW mo
        PROVE  LoadIndices(t, x, mo) = {current_index[x]}
    <2>1. PICK n \in Nat : n = current_index[x]
      BY DEF Inv, TypeOK
    <2>2. /\ HoldsTheLast(Stores(x), n, history[x])
          /\ UsedSlots(Stores(x), n, history[x])
      BY <2>1 DEF Recorded, RingHoldsTheLastStores
    <2>3. 0 \in 0 .. HistorySize - 1 /\ n - 0 = n
      BY DEF HistorySize
    <2>4. ~(Rec(x, n).busy /\ ~Stops(t, x, n, mo))
      <3>1. CASE n = 0
        BY <2>2, <2>3, <3>1 DEF UsedSlots, Rec
      <3>2. CASE n > 0
        <4>1. PICK b \in Stores(x) : b.pos = n
          BY <2>2, <2>3, <3>2 DEF UsedSlots
        <4>2. Rec(x, n).thread = b.thread /\ Rec(x, n).timestamp = b.stamp
          <5>1. n > n - HistorySize
            BY DEF HistorySize
          <5>. QED  BY <2>2, <4>1, <5>1 DEF HoldsTheLast, Rec
        <4>3. b.thread \in Thread /\ b.stamp \in Int /\ b.stamp <= own(b.thread)
          BY BoundAssumption DEF Stores, Inv, TypeOK, AccessRecord, NoKnowledgeOfTheFuture
        <4>4. acq_rel_order[t][b.thread] >= b.stamp
          BY <1>1, <4>3
        <4>. QED  BY <4>2, <4>4 DEF Stops
      <3>. QED  BY <3>1, <3>2
    <2>5. ASSUME NEW i \in LoadIndices(t, x, mo) PROVE i = n
      <3>1. Limit \in 0 .. 2
        BY DEF Limit, HistorySize
      <3>2. PICK k \in 0 .. Limit :
                /\ i = n - k
                /\ \A j \in 0 .. k - 1 : Rec(x, n - j).busy /\ ~Stops(t, x, n - j, mo)
        BY <2>1 DEF LoadIndices
      <3>3. k = 0
        <4>. SUFFICES ASSUME k # 0 PROVE FALSE
          OBVIOUS
        <4>1. 0 \in 0 .. k - 1
          BY <3>1
        <4>. QED  BY <2>3, <2>4, <3>2, <4>1
      <3>. QED  BY <3>2, <3>3
    <2>6. n \in LoadIndices(t, x, mo)
      <3>1. 0 \in 0 .. Limit /\ n = n - 0 /\ 0 .. 0 - 1 = {}
        BY DEF Limit, HistorySize
      <3>. QED  BY <2>1, <3>1 DEF LoadIndices
    <2>. QED  BY <2>1, <2>5, <2>6
  <1>3. ASSUME NEW c \in Clock, Past(c)
        PROVE  Knows(t, c)
    <2>. SUFFICES ASSUME NEW u \in Thread PROVE acq_rel_order[t][u] >= c[u]
      BY DEF Knows
    <2>1. c[u] \in Int /\ own(u) \in Int /\ acq_rel_order[t][u] \in Int
      BY <1>0, <1>1
    <2>2. c[u] <= own(u) /\ own(u) <= acq_rel_order[t][u]
      BY <1>3 DEF Past
    <2>. QED  BY <2>1, <2>2
  <1>4. \A v \in Var : /\ store_timestamp[v] \in Clock /\ Past(store_timestamp[v])
                       /\ load_timestamp[v] \in Clock /\ Past(load_timestamp[v])
    BY DEF Inv, TypeOK, NoKnowledgeOfTheFuture
  <1>. QED  BY <1>2, <1>3, <1>4

\* In every test, with whatever threads and schedule, after() reads the last
\* store of every atomic and may touch every plain variable.
THEOREM AfterSees == ItSpec => []AfterSeesEverything
  <1>1. ItInit => KnowsTheLast
    BY DEF ItInit, KnowsTheLast
  <1>2. Legible /\ Legible' /\ Control /\ KnowsTheLast /\ [ItNext]_allVars => KnowsTheLast'
    BY KnowsTheLastKept DEF Legible
  <1>3. Legible /\ Control /\ KnowsTheLast => AfterSeesEverything
    <2>. SUFFICES ASSUME Legible, Control, KnowsTheLast PROVE AfterSeesEverything
      OBVIOUS
    <2>1. Inv /\ Recorded /\ running \in Thread
      BY DEF Legible, Control, ControlType
    <2>. QED  BY <2>1, KnowsTheLastSees DEF AfterSeesEverything, KnowsTheLast
  <1>. QED  BY <1>1, <1>2, <1>3, TestsUseMemory, LegibleAlways, ControlRight, PTL DEF ItSpec

============================================================================
