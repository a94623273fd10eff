----------------------------- MODULE ApprovalProofs -----------------------------
(***************************************************************************)
(* Theorems about Approval, for any number of calls, nodes, candidates and *)
(* tasks and any strategies: the type invariant, that no node is entered   *)
(* without an agreement on the one before, that everybody was asked where  *)
(* the instance stands, and that an instance which is not running stays.   *)
(***************************************************************************)
EXTENDS Approval, FiniteSetTheorems, TLAPS

\* The steps that do nothing but end a call.
Ends(c) == NotHandleable(c) \/ ListOther(c) \/ Started(c) \/ Conflict(c) \/ Fail(c)

LEMMA NodeFacts ==
  /\ EndNode \in Nat /\ EndNode >= 2 /\ EndNode \notin Node
  /\ Node \subseteq 0..EndNode
  /\ \A n \in Node : n + 1 \in 2..EndNode /\ n + 1 \in 0..EndNode /\ Asked(n + 1) \in Nat
  /\ Asked(EndNode) = 0
  /\ 1 \in Node /\ Asked(1) = Seats[1] /\ Seats[1] \in Nat
BY ConstantsAssumption DEF Node, EndNode, Asked

LEMMA ResultType == \A a \in TaskAction : ResultOf(a) \in {"completed", "rejected", "transferred"}
BY DEF ResultOf, TaskAction

\* What save_with_lock stores is an instance.
LEMMA WrittenType ==
  ASSUME NEW i \in Instance, NEW s \in InstanceStatus
  PROVE  /\ [i EXCEPT !.status = s, !.version = @ + 1] \in Instance
         /\ [i EXCEPT !.status = s, !.version = @ + 1].node = i.node
         /\ [i EXCEPT !.status = s, !.version = @ + 1].status = s
         /\ [i EXCEPT !.status = s, !.version = @ + 1].version = i.version + 1
<1> HIDE DEF InstanceStatus
<1>1. i.version + 1 \in Nat
  BY DEF Instance
<1> QED
  BY <1>1 DEF Instance

\* The inductive invariant holds at the start.
LEMMA InitIInv == Init => IInv
<1> SUFFICES ASSUME Init PROVE IInv
  OBVIOUS
<1>1. TypeOK
  BY NodeFacts, ConstantsAssumption
  DEF Init, TypeOK, Instance, InstanceStatus, TaskStatus, TaskAction, StartNode, EndNode, Node
<1>2. TaskInv /\ CallInv /\ CopyInv
  BY DEF Init, TaskInv, CallInv, CopyInv
<1>3. \A n \in 0..EndNode : TasksOf(n) = {}
  BY DEF Init, TasksOf
<1>4. GoalInv
  <2>1. Cardinality(TasksOf(1)) = 0
    BY <1>3, NodeFacts, FS_EmptySet
  <2> QED
    BY <2>1, NodeFacts DEF Init, GoalInv
<1>5. InstInv
  BY <1>3, NodeFacts DEF Init, InstInv, EverybodyAsked, StartNode, Node
<1> QED
  BY <1>1, <1>2, <1>4, <1>5 DEF IInv

--------------------------------------------------------------------------------
LocalsOK ==
  /\ pc \in [Caller -> {"idle", "start", "load", "update", "list", "advance", "order",
                        "invalidate"}]
  /\ copy \in [Caller -> Instance]
  /\ mine \in [Caller -> TaskId \cup {NoTask}]
  /\ what \in [Caller -> TaskAction \cup Order]
  /\ goal \in [Caller -> 0..EndNode]
  /\ todo \in [Caller -> Nat]

\* The end of a call keeps the types of what belongs to calls.
LEMMA ReturnType ==
  ASSUME TypeOK, NEW c \in Caller, Return(c)
  PROVE  LocalsOK'
<1>1. 0 \in 0..EndNode /\ [status |-> "running", node |-> 0, version |-> 0] \in Instance
  BY NodeFacts DEF Instance, InstanceStatus
<1>2. "approve" \in TaskAction
  BY DEF TaskAction
<1> QED
  BY <1>1, <1>2 DEF TypeOK, LocalsOK, Return, Goto

\* Every step keeps the variables in their types.
LEMMA TypeOKStep == IInv /\ [Next]_vars => TypeOK'
<1> SUFFICES ASSUME IInv, [Next]_vars PROVE TypeOK'
  OBVIOUS
<1> USE DEF IInv, TypeOK, Instance, InstanceStatus, locals
<1>1. ASSUME NEW c \in Caller, Ends(c) PROVE TypeOK'
  BY <1>1, ReturnType DEF Ends, NotHandleable, ListOther, Started, Conflict, Fail, LocalsOK
<1>2. ASSUME NEW c \in Caller, NEW t \in TaskId, NEW a \in Actions, Take(c, t, a) PROVE TypeOK'
  BY <1>2, ConstantsAssumption DEF Take, Goto
<1>3. ASSUME NEW c \in Caller, Load(c) PROVE TypeOK'
  BY <1>3 DEF Load, Goto
<1>4. ASSUME NEW c \in Caller, Update(c) PROVE TypeOK'
  <2>1. mine[c] \in TaskId /\ what[c] \in TaskAction
    BY <1>4 DEF Update, CallInv
  <2>2. ResultOf(what[c]) \in TaskStatus
    BY <2>1, ResultType DEF TaskStatus
  <2> QED
    BY <1>4, <2>1, <2>2 DEF Update, Goto
<1>5. ASSUME NEW c \in Caller, ListComplete(c) PROVE TypeOK'
  <2>1. tasks[mine[c]].node \in Node
    <3>1. mine[c] \in TaskId /\ tasks[mine[c]].status # "none"
      BY <1>5 DEF ListComplete, CallInv
    <3> QED
      BY <3>1 DEF TaskInv
  <2>2. tasks[mine[c]].node + 1 \in 0..EndNode /\ Asked(tasks[mine[c]].node + 1) \in Nat
    BY <2>1, NodeFacts
  <2> QED
    BY <1>5, <2>2 DEF ListComplete, Goto
<1>6. ASSUME NEW c \in Caller, NEW t \in TaskId, Create(c, t) PROVE TypeOK'
  <2>1. todo[c] - 1 \in Nat
    BY <1>6 DEF Create, SeatLeft
  <2> QED
    BY <1>6, <2>1 DEF Create, TaskStatus
<1>7. ASSUME NEW c \in Caller, Save(c) PROVE TypeOK'
  <2>1. inst' \in Instance
    BY <1>7 DEF Save, StatusAt
  <2> QED
    BY <1>7, <2>1, ReturnType DEF Save, LocalsOK
<1>8. ASSUME NEW c \in Caller, NEW o \in Order, GiveOrder(c, o) PROVE TypeOK'
  BY <1>8 DEF GiveOrder, Goto
<1>9. ASSUME NEW c \in Caller, SaveOrder(c) PROVE TypeOK'
  <2>1. what[c] \in Order
    BY <1>9 DEF SaveOrder, CallInv
  <2>2. StatusAfter(what[c]) \in InstanceStatus
    BY <2>1 DEF StatusAfter, Order
  <2>3. inst' = [copy[c] EXCEPT !.status = StatusAfter(what[c]), !.version = @ + 1]
    BY <1>9 DEF SaveOrder
  <2>4. inst' \in Instance
    BY <2>2, <2>3, WrittenType
  <2> QED
    BY <1>9, <2>4, ReturnType DEF SaveOrder, LocalsOK, Goto
<1>10. ASSUME NEW c \in Caller, Invalidate(c) PROVE TypeOK'
  BY <1>10, ReturnType DEF Invalidate, LocalsOK, TaskStatus
<1>11. CASE UNCHANGED vars
  BY <1>11 DEF vars
<1> QED
  BY <1>1, <1>2, <1>3, <1>4, <1>5, <1>6, <1>7, <1>8, <1>9, <1>10, <1>11
  DEF Next, Handle, Manage, Ends

--------------------------------------------------------------------------------
Step(c) == Handle(c) \/ Manage(c) \/ Fail(c)

\* A step of one call leaves the other calls alone.
LEMMA OthersStay ==
  ASSUME TypeOK, NEW c \in Caller, NEW d \in Caller, d # c, Step(c)
  PROVE  /\ pc'[d] = pc[d] /\ copy'[d] = copy[d] /\ mine'[d] = mine[d]
         /\ what'[d] = what[d] /\ goal'[d] = goal[d] /\ todo'[d] = todo[d]
<1> USE DEF TypeOK, Return, Goto, locals
<1>1. CASE Ends(c)
  BY <1>1 DEF Ends, NotHandleable, ListOther, Started, Conflict, Fail
<1>2. ASSUME NEW t \in TaskId, NEW a \in Actions, Take(c, t, a)
      PROVE  /\ pc'[d] = pc[d] /\ copy'[d] = copy[d] /\ mine'[d] = mine[d]
             /\ what'[d] = what[d] /\ goal'[d] = goal[d] /\ todo'[d] = todo[d]
  BY <1>2 DEF Take
<1>3. ASSUME NEW t \in TaskId, Create(c, t)
      PROVE  /\ pc'[d] = pc[d] /\ copy'[d] = copy[d] /\ mine'[d] = mine[d]
             /\ what'[d] = what[d] /\ goal'[d] = goal[d] /\ todo'[d] = todo[d]
  BY <1>3 DEF Create
<1>4. CASE Load(c) \/ Update(c) \/ ListComplete(c) \/ Save(c)
  BY <1>4 DEF Load, Update, ListComplete, Save
<1>5. ASSUME NEW o \in Order, GiveOrder(c, o)
      PROVE  /\ pc'[d] = pc[d] /\ copy'[d] = copy[d] /\ mine'[d] = mine[d]
             /\ what'[d] = what[d] /\ goal'[d] = goal[d] /\ todo'[d] = todo[d]
  BY <1>5 DEF GiveOrder
<1>6. CASE SaveOrder(c) \/ Invalidate(c)
  BY <1>6 DEF SaveOrder, Invalidate
<1> QED
  BY <1>1, <1>2, <1>3, <1>4, <1>5, <1>6 DEF Step, Handle, Manage, Ends

\* A step that writes the instance raises its version.
LEMMA VersionRises ==
  ASSUME IInv, NEW c \in Caller, Step(c)
  PROVE  inst' = inst \/ inst'.version = inst.version + 1
<1>1. CASE Save(c)
  BY <1>1 DEF Save, Current
<1>2. CASE SaveOrder(c)
  <2>1. StatusAfter(what[c]) \in InstanceStatus /\ copy[c] \in Instance
    BY <1>2 DEF SaveOrder, IInv, TypeOK, CallInv, StatusAfter, Order, InstanceStatus
  <2>2. /\ inst' = [copy[c] EXCEPT !.status = StatusAfter(what[c]), !.version = @ + 1]
        /\ inst.version = copy[c].version
    BY <1>2 DEF SaveOrder, Current
  <2>3. inst'.version = copy[c].version + 1
    BY <2>1, <2>2, WrittenType
  <2> QED
    BY <2>2, <2>3
<1> QED
  BY <1>1, <1>2
  DEF Step, Handle, Manage, Take, Load, NotHandleable, Update, ListComplete, ListOther, Create,
      Started, GiveOrder, Conflict, Invalidate, Fail

\* What was agreed to stays so, and a task stays at its node.
LEMMA TasksStay ==
  ASSUME IInv, NEW c \in Caller, Step(c)
  PROVE  /\ agreed \subseteq agreed'
         /\ \A t \in TaskId : tasks[t].status # "none" =>
              tasks'[t].node = tasks[t].node /\ tasks'[t].status # "none"
<1> USE DEF IInv, TypeOK
<1>1. CASE Update(c)
  <2>1. what[c] \in TaskAction
    BY <1>1 DEF Update, CallInv
  <2>2. ResultOf(what[c]) # "none" /\ ResultOf(what[c]) \in TaskStatus
    BY <2>1, ResultType DEF TaskStatus
  <2>3. /\ tasks' = [tasks EXCEPT ![mine[c]] = [tasks[mine[c]] EXCEPT !.status = ResultOf(what[c])]]
        /\ agreed \subseteq agreed'
    BY <1>1 DEF Update
  <2> QED
    BY <2>2, <2>3
<1>2. ASSUME NEW t \in TaskId, Create(c, t)
      PROVE  /\ agreed \subseteq agreed'
             /\ \A u \in TaskId : tasks[u].status # "none" =>
                  tasks'[u].node = tasks[u].node /\ tasks'[u].status # "none"
  BY <1>2 DEF Create
<1>3. CASE Invalidate(c)
  BY <1>3 DEF Invalidate
<1> QED
  BY <1>1, <1>2, <1>3
  DEF Step, Handle, Manage, Take, Load, NotHandleable, ListComplete, ListOther, Started, Save,
      GiveOrder, SaveOrder, Conflict, Fail

\* The tasks of node n if f is what is stored.
TasksIn(f, n) == {t \in TaskId : f[t].node = n /\ f[t].status # "none"}

\* So the tasks of a node become no fewer.
LEMMA TasksGrow ==
  ASSUME IInv, NEW c \in Caller, Step(c)
  PROVE  \A n \in 0..EndNode :
           /\ Cardinality(TasksIn(tasks, n)) \in Nat /\ Cardinality(TasksIn(tasks', n)) \in Nat
           /\ Cardinality(TasksIn(tasks, n)) <= Cardinality(TasksIn(tasks', n))
<1> SUFFICES ASSUME NEW n \in 0..EndNode
             PROVE  /\ Cardinality(TasksIn(tasks, n)) \in Nat
                    /\ Cardinality(TasksIn(tasks', n)) \in Nat
                    /\ Cardinality(TasksIn(tasks, n)) <= Cardinality(TasksIn(tasks', n))
  OBVIOUS
<1>1. TasksIn(tasks, n) \subseteq TasksIn(tasks', n)
  BY TasksStay DEF TasksIn
<1>2. IsFiniteSet(TasksIn(tasks, n)) /\ IsFiniteSet(TasksIn(tasks', n))
  BY ConstantsAssumption, FS_Subset DEF TasksIn
<1> QED
  BY <1>1, <1>2, FS_Subset, FS_CardinalityType

--------------------------------------------------------------------------------
\* Tasks are for approval nodes that were agreed to.
LEMMA TaskStep == IInv /\ [Next]_vars => TaskInv'
<1> SUFFICES ASSUME IInv, [Next]_vars PROVE TaskInv'
  OBVIOUS
<1> USE DEF IInv, TaskInv
<1>1. ASSUME NEW c \in Caller, Update(c) PROVE TaskInv'
  <2>1. mine[c] \in TaskId /\ tasks[mine[c]].status # "none" /\ what[c] \in TaskAction
    BY <1>1 DEF Update, CallInv
  <2>2. /\ tasks' = [tasks EXCEPT ![mine[c]] = [tasks[mine[c]] EXCEPT !.status = ResultOf(what[c])]]
        /\ ResultOf(what[c]) = "completed" => agreed' = agreed \cup {tasks[mine[c]].node}
        /\ agreed \subseteq agreed'
    BY <1>1 DEF Update
  <2>3. tasks'[mine[c]].node = tasks[mine[c]].node /\ tasks'[mine[c]].status = ResultOf(what[c])
    BY <2>1, <2>2 DEF TypeOK
  <2>4. \A t \in TaskId : t # mine[c] => tasks'[t] = tasks[t]
    BY <2>2 DEF TypeOK
  <2> QED
    BY <2>1, <2>2, <2>3, <2>4
<1>2. ASSUME NEW c \in Caller, NEW t \in TaskId, Create(c, t) PROVE TaskInv'
  <2>1. /\ goal[c] \in 1..EndNode /\ goal[c] # EndNode
        /\ goal[c] >= 2 => goal[c] - 1 \in agreed
    BY <1>2 DEF Create, SeatLeft, GoalInv, TypeOK
  <2>2. goal[c] \in Node
    BY <2>1, NodeFacts, ConstantsAssumption DEF Node, EndNode
  <2>3. /\ tasks'[t] = [node |-> goal[c], status |-> "pending"] /\ agreed' = agreed
        /\ \A u \in TaskId : u # t => tasks'[u] = tasks[u]
    BY <1>2 DEF Create, TypeOK
  <2> QED
    BY <2>1, <2>2, <2>3
<1>3. ASSUME NEW c \in Caller, Invalidate(c) PROVE TaskInv'
  BY <1>3 DEF Invalidate, TypeOK
<1>4. CASE UNCHANGED <<tasks, agreed>>
  BY <1>4
<1> QED
  BY <1>1, <1>2, <1>3, <1>4
  DEF Next, vars, Handle, Manage, Take, Load, NotHandleable, ListComplete, ListOther, Started,
      Save, GiveOrder, SaveOrder, Conflict, Fail

\* What a call is about stays so.
LEMMA CallStep == IInv /\ [Next]_vars => CallInv'
<1> SUFFICES ASSUME IInv, [Next]_vars PROVE CallInv'
  OBVIOUS
<1> USE DEF IInv, CallInv
<1>1. CASE UNCHANGED vars
  BY <1>1 DEF vars, locals
<1>2. ASSUME NEW c \in Caller, Step(c) PROVE CallInv'
  <2> DEFINE Good(d) == /\ pc'[d] \in {"load", "update", "list"} =>
                             /\ mine'[d] \in TaskId /\ tasks'[mine'[d]].status # "none"
                             /\ what'[d] \in TaskAction
                        /\ pc'[d] \in {"order", "invalidate"} => what'[d] \in Order
  <2>1. ASSUME NEW d \in Caller, d # c PROVE Good(d)
    BY <1>2, <2>1, OthersStay, TasksStay
  <2>2. Good(c)
    <3>1. CASE pc'[c] \notin {"load", "update", "list", "order", "invalidate"}
      BY <3>1
    <3>2. ASSUME NEW t \in TaskId, NEW a \in Actions, Take(c, t, a) PROVE Good(c)
      BY <3>2, ConstantsAssumption DEF Take, Goto, TypeOK
    <3>3. CASE Load(c) \/ Update(c)
      <4>1. mine'[c] = mine[c] /\ what'[c] = what[c] /\ pc[c] \in {"load", "update"}
        BY <3>3 DEF Load, Update, locals
      <4>2. pc'[c] \in {"update", "list"}
        BY <3>3 DEF Load, Update, Goto, TypeOK
      <4> QED
        BY <1>2, <4>1, <4>2, TasksStay
    <3>4. ASSUME NEW o \in Order, GiveOrder(c, o) PROVE Good(c)
      BY <3>4 DEF GiveOrder, Goto, TypeOK
    <3>5. CASE SaveOrder(c)
      BY <3>5 DEF SaveOrder, Goto, Return, locals, TypeOK
    <3>6. CASE Ends(c) \/ Save(c) \/ Invalidate(c) \/ ListComplete(c)
      BY <3>1, <3>6
      DEF Ends, NotHandleable, ListOther, Started, Conflict, Fail, Save, Invalidate, ListComplete,
          Return, Goto, TypeOK
    <3>7. ASSUME NEW t \in TaskId, Create(c, t) PROVE Good(c)
      BY <3>1, <3>7 DEF Create, TypeOK
    <3> QED
      BY <1>2, <3>2, <3>3, <3>4, <3>5, <3>6, <3>7 DEF Step, Handle, Manage, Ends
  <2> QED
    BY <2>1, <2>2
<1> QED
  BY <1>1, <1>2 DEF Next, Step

\* There is one task more at the node a task is created for.
LEMMA CreateCounts ==
  ASSUME IInv, NEW c \in Caller, NEW t \in TaskId, Create(c, t)
  PROVE  Cardinality(TasksIn(tasks', goal[c])) = Cardinality(TasksIn(tasks, goal[c])) + 1
<1> USE DEF IInv, TypeOK
<1>1. /\ TasksIn(tasks', goal[c]) = TasksIn(tasks, goal[c]) \cup {t}
      /\ t \notin TasksIn(tasks, goal[c])
  BY DEF Create, TasksIn
<1>2. IsFiniteSet(TasksIn(tasks, goal[c]))
  BY ConstantsAssumption, FS_Subset DEF TasksIn
<1> QED
  BY <1>1, <1>2, FS_AddElement

\* What is there and what is still to be created make a task for everybody.
LEMMA GoalStep == IInv /\ [Next]_vars => GoalInv'
<1> SUFFICES ASSUME IInv, [Next]_vars PROVE GoalInv'
  OBVIOUS
<1> DEFINE Good(d, n, k) == /\ n \in 1..EndNode
                            /\ n >= 2 => n - 1 \in agreed'
                            /\ Cardinality(TasksIn(tasks', n)) + k >= Asked(n)
                            /\ n = EndNode => k = 0
<1>1. CASE UNCHANGED vars
  BY <1>1 DEF vars, locals, IInv, GoalInv, TasksOf
<1>2. ASSUME NEW c \in Caller, Step(c) PROVE GoalInv'
  <2>1. ASSUME NEW d \in Caller, pc[d] \in {"start", "advance"}
        PROVE  Good(d, goal[d], todo[d])
    <3>1. /\ goal[d] \in 1..EndNode /\ goal[d] \in 0..EndNode /\ todo[d] \in Nat
          /\ goal[d] >= 2 => goal[d] - 1 \in agreed
          /\ Cardinality(TasksIn(tasks, goal[d])) + todo[d] >= Asked(goal[d])
          /\ goal[d] = EndNode => todo[d] = 0
      BY <2>1 DEF IInv, GoalInv, TypeOK, TasksOf, TasksIn
    <3>2. Asked(goal[d]) \in Nat
      BY <3>1, ConstantsAssumption DEF Asked
    <3>3. agreed \subseteq agreed'
      BY <1>2, TasksStay
    <3>4. /\ Cardinality(TasksIn(tasks, goal[d])) \in Nat /\ Cardinality(TasksIn(tasks', goal[d])) \in Nat
          /\ Cardinality(TasksIn(tasks, goal[d])) <= Cardinality(TasksIn(tasks', goal[d]))
      BY <1>2, <3>1, TasksGrow
    <3> QED
      BY <3>1, <3>2, <3>3, <3>4
  <2>2. ASSUME NEW d \in Caller, d # c, pc'[d] \in {"start", "advance"}
        PROVE  Good(d, goal'[d], todo'[d])
    <3>1. pc[d] = pc'[d] /\ goal'[d] = goal[d] /\ todo'[d] = todo[d]
      BY <1>2, <2>2, OthersStay DEF IInv
    <3> QED
      BY <2>1, <2>2, <3>1
  <2>3. ASSUME pc'[c] \in {"start", "advance"} PROVE Good(c, goal'[c], todo'[c])
    <3>1. ASSUME ListComplete(c) PROVE Good(c, goal'[c], todo'[c])
      <4> DEFINE n == tasks[mine[c]].node
      <4>1. mine[c] \in TaskId /\ tasks[mine[c]].status # "none"
        BY <3>1 DEF ListComplete, IInv, CallInv
      <4>2. n \in Node
        BY <4>1 DEF IInv, TaskInv
      <4>3. "completed" \in StatusesOf(n)
        BY <3>1, <4>2, ConstantsAssumption DEF ListComplete, Complete
      <4>4. n \in agreed
        BY <4>3 DEF StatusesOf, TasksOf, IInv, TaskInv
      <4>5. goal'[c] = n + 1 /\ todo'[c] = Asked(n + 1) /\ agreed' = agreed
        BY <3>1 DEF ListComplete, IInv, TypeOK
      <4>6. n + 1 \in 2..EndNode /\ n + 1 \in 0..EndNode /\ Asked(n + 1) \in Nat /\ n \in Nat
        BY <4>2, NodeFacts DEF Node
      <4>7. n + 1 = EndNode => Asked(n + 1) = 0
        BY NodeFacts
      <4>8. Cardinality(TasksIn(tasks', n + 1)) \in Nat
        BY <1>2, <4>6, TasksGrow
      <4>9. n + 1 \in 1..EndNode /\ n + 1 - 1 = n /\ n + 1 >= 2
        BY <4>6, NodeFacts
      <4> HIDE DEF n
      <4>10. Good(c, n + 1, Asked(n + 1))
        BY <4>4, <4>5, <4>6, <4>7, <4>8, <4>9
      <4> QED
        BY <4>5, <4>10
    <3>2. ASSUME NEW t \in TaskId, Create(c, t) PROVE Good(c, goal'[c], todo'[c])
      <4>1. /\ pc[c] \in {"start", "advance"} /\ goal'[c] = goal[c]
            /\ todo[c] > 0 /\ todo[c] \in Nat /\ todo'[c] = todo[c] - 1 /\ agreed' = agreed
        BY <3>2 DEF Create, SeatLeft, IInv, TypeOK
      <4>2. /\ goal[c] \in 1..EndNode /\ goal[c] \in 0..EndNode
            /\ goal[c] >= 2 => goal[c] - 1 \in agreed
            /\ Cardinality(TasksIn(tasks, goal[c])) + todo[c] >= Asked(goal[c])
            /\ goal[c] # EndNode
        BY <4>1 DEF IInv, GoalInv, TypeOK, TasksOf, TasksIn
      <4>3. Cardinality(TasksIn(tasks', goal[c])) = Cardinality(TasksIn(tasks, goal[c])) + 1
        BY <3>2, CreateCounts
      <4>4. Cardinality(TasksIn(tasks, goal[c])) \in Nat
        BY <1>2, <4>2, TasksGrow
      <4>5. Asked(goal[c]) \in Nat
        BY <4>2, ConstantsAssumption DEF Asked
      <4> QED
        BY <4>1, <4>2, <4>3, <4>4, <4>5
    <3>3. ASSUME NEW t \in TaskId, NEW a \in Actions, Take(c, t, a)
          PROVE  FALSE
      BY <2>3, <3>3 DEF Take, Goto, IInv, TypeOK
    <3>4. ASSUME NEW o \in Order, GiveOrder(c, o) PROVE FALSE
      BY <2>3, <3>4 DEF GiveOrder, Goto, IInv, TypeOK
    <3>5. CASE Ends(c) \/ Load(c) \/ Update(c) \/ Save(c) \/ SaveOrder(c) \/ Invalidate(c)
      BY <2>3, <3>5
      DEF Ends, NotHandleable, ListOther, Started, Conflict, Fail, Load, Update, Save, SaveOrder,
          Invalidate, Return, Goto, IInv, TypeOK
    <3> QED
      BY <1>2, <3>1, <3>2, <3>3, <3>4, <3>5 DEF Step, Handle, Manage, Ends
  <2> QED
    BY <2>2, <2>3 DEF GoalInv, TasksOf, TasksIn
<1> QED
  BY <1>1, <1>2 DEF Next, Step

--------------------------------------------------------------------------------
\* A copy with the stored version is the stored instance.
LEMMA CopyStep == IInv /\ [Next]_vars => CopyInv'
<1> SUFFICES ASSUME IInv, [Next]_vars PROVE CopyInv'
  OBVIOUS
<1> DEFINE Good(d) == pc'[d] \in {"update", "list", "advance", "order"} =>
             /\ copy'[d].version <= inst'.version
             /\ copy'[d].version = inst'.version => copy'[d] = inst'
             /\ pc'[d] # "order" => copy'[d].status = "running"
             /\ pc'[d] = "order" => \/ what'[d] = "suspend" /\ copy'[d].status = "running"
                                    \/ what'[d] = "resume" /\ copy'[d].status = "suspended"
                                    \/ what'[d] = "terminate"
<1>1. CASE UNCHANGED vars
  BY <1>1 DEF vars, locals, IInv, CopyInv
<1>2. ASSUME NEW c \in Caller, Step(c) PROVE CopyInv'
  <2>1. ASSUME NEW d \in Caller, d # c PROVE Good(d)
    <3>1. /\ pc'[d] = pc[d] /\ copy'[d] = copy[d] /\ what'[d] = what[d]
      BY <1>2, <2>1, OthersStay DEF IInv
    <3>2. inst' = inst \/ inst'.version = inst.version + 1
      BY <1>2, VersionRises
    <3>3. copy[d].version \in Nat /\ inst.version \in Nat
      BY DEF IInv, TypeOK, Instance
    <3> QED
      BY <3>1, <3>2, <3>3 DEF IInv, CopyInv
  <2>2. Good(c)
    <3> USE DEF Goto, IInv, TypeOK, locals
    <3>1. CASE Load(c)
      BY <3>1 DEF Load, Instance
    <3>2. ASSUME NEW o \in Order, GiveOrder(c, o) PROVE Good(c)
      BY <3>2 DEF GiveOrder, Allowed, Instance
    <3>3. CASE Update(c) \/ ListComplete(c)
      BY <3>3 DEF Update, ListComplete, CopyInv
    <3>4. ASSUME NEW t \in TaskId, Create(c, t) PROVE Good(c)
      BY <3>4 DEF Create, CopyInv
    <3>5. ASSUME NEW t \in TaskId, NEW a \in Actions, Take(c, t, a) PROVE Good(c)
      BY <3>5 DEF Take
    <3>6. CASE SaveOrder(c)
      BY <3>6 DEF SaveOrder, Return
    <3>7. CASE Ends(c) \/ Save(c) \/ Invalidate(c)
      BY <3>7
      DEF Ends, NotHandleable, ListOther, Started, Conflict, Fail, Save, Invalidate, Return
    <3> QED
      BY <1>2, <3>1, <3>2, <3>3, <3>4, <3>5, <3>6, <3>7 DEF Step, Handle, Manage, Ends
  <2> QED
    BY <2>1, <2>2 DEF CopyInv
<1> QED
  BY <1>1, <1>2 DEF Next, Step

\* What save_with_lock does: the status alone, of the stored instance.
LEMMA OrderMoves ==
  ASSUME IInv, NEW c \in Caller, SaveOrder(c)
  PROVE  /\ inst'.node = inst.node
         /\ inst.status = "completed" => inst'.status = "terminated"
         /\ inst.status = "terminated" => inst'.status = "terminated"
<1>1. copy[c] = inst /\ what[c] \in Order
  BY DEF SaveOrder, Current, IInv, CopyInv, CallInv
<1>2. /\ inst \in Instance
      /\ inst' = [inst EXCEPT !.status = StatusAfter(what[c]), !.version = @ + 1]
  BY <1>1 DEF SaveOrder, IInv, TypeOK
<1>3. StatusAfter(what[c]) \in InstanceStatus
  BY <1>1 DEF StatusAfter, Order, InstanceStatus
<1>4. inst'.node = inst.node /\ inst'.status = StatusAfter(what[c])
  BY <1>2, <1>3, WrittenType
<1>5. inst.status \in {"completed", "terminated"} => what[c] = "terminate"
  BY <1>1 DEF SaveOrder, IInv, CopyInv
<1> QED
  BY <1>4, <1>5 DEF StatusAfter

\* What advance_node writes: it moves a running instance to where everybody was
\* asked, or does nothing.
LEMMA SaveMoves ==
  ASSUME IInv, NEW c \in Caller, Save(c)
  PROVE  \/ inst' = inst
         \/ /\ inst.status = "running" /\ inst'.node = goal[c] /\ goal[c] \in 1..EndNode
            /\ goal[c] >= 2 => goal[c] - 1 \in agreed
            /\ Cardinality(TasksOf(goal[c])) >= Asked(goal[c])
<1>1. CASE Current(c)
  <2>1. copy[c] = inst /\ inst.status = "running"
    BY <1>1 DEF Save, Current, IInv, CopyInv
  <2>2. inst'.node = goal[c]
    BY <1>1 DEF Save
  <2>3. todo[c] = 0
    BY DEF Save, TasksCreated
  <2>4. /\ goal[c] \in 1..EndNode /\ goal[c] \in 0..EndNode
        /\ goal[c] >= 2 => goal[c] - 1 \in agreed
        /\ Cardinality(TasksOf(goal[c])) + 0 >= Asked(goal[c])
    BY <2>3 DEF Save, IInv, GoalInv, TypeOK
  <2>5. Cardinality(TasksOf(goal[c])) \in Nat
    BY ConstantsAssumption, FS_Subset, FS_CardinalityType DEF TasksOf
  <2>6. Asked(goal[c]) \in Nat
    BY <2>4, ConstantsAssumption DEF Asked
  <2> QED
    BY <2>1, <2>2, <2>4, <2>5, <2>6
<1>2. CASE ~Current(c)
  BY <1>2 DEF Save
<1> QED
  BY <1>1, <1>2

\* No other step moves the instance.
LEMMA OnlySavesMove ==
  ASSUME [Next]_vars, \A c \in Caller : ~Save(c) /\ ~SaveOrder(c)
  PROVE  inst' = inst
BY DEF Next, vars, Handle, Manage, Take, Load, NotHandleable, Update, ListComplete, ListOther,
       Create, Started, GiveOrder, Conflict, Invalidate, Fail

\* Everybody was asked where the instance stands.
LEMMA InstStep == IInv /\ [Next]_vars => InstInv'
<1> SUFFICES ASSUME IInv, [Next]_vars PROVE InstInv'
  OBVIOUS
<1>1. /\ inst.node \in 0..EndNode
      /\ inst.node >= 2 => inst.node - 1 \in agreed
      /\ inst.node \in Node => Cardinality(TasksIn(tasks, inst.node)) >= Seats[inst.node]
  BY DEF IInv, InstInv, EverybodyAsked, TypeOK, Instance, TasksIn, TasksOf
<1>2. ASSUME agreed \subseteq agreed', inst'.node = inst.node,
             \A n \in 0..EndNode :
               /\ Cardinality(TasksIn(tasks, n)) \in Nat /\ Cardinality(TasksIn(tasks', n)) \in Nat
               /\ Cardinality(TasksIn(tasks, n)) <= Cardinality(TasksIn(tasks', n))
      PROVE  InstInv'
  <2>1. inst.node \in Node => Seats[inst.node] \in Nat
    BY ConstantsAssumption
  <2>2. inst.node \in Node => Cardinality(TasksIn(tasks', inst.node)) >= Seats[inst.node]
    BY <1>1, <1>2, <2>1
  <2> QED
    BY <1>1, <1>2, <2>2 DEF InstInv, EverybodyAsked, TasksIn, TasksOf
<1>3. CASE UNCHANGED vars
  BY <1>3 DEF vars, IInv, InstInv, EverybodyAsked, TasksOf
<1>4. ASSUME NEW c \in Caller, Step(c) PROVE InstInv'
  <2>1. /\ agreed \subseteq agreed'
        /\ \A n \in 0..EndNode :
             /\ Cardinality(TasksIn(tasks, n)) \in Nat /\ Cardinality(TasksIn(tasks', n)) \in Nat
             /\ Cardinality(TasksIn(tasks, n)) <= Cardinality(TasksIn(tasks', n))
    BY <1>4, TasksStay, TasksGrow
  <2>2. CASE inst'.node = inst.node
    BY <1>2, <2>1, <2>2
  <2>3. ASSUME NEW d \in Caller, Save(d), inst' # inst PROVE InstInv'
    <3>1. /\ inst'.node = goal[d]
          /\ goal[d] >= 2 => goal[d] - 1 \in agreed
          /\ Cardinality(TasksIn(tasks, goal[d])) >= Asked(goal[d])
      BY <2>3, SaveMoves DEF TasksIn, TasksOf
    <3>2. tasks' = tasks /\ agreed' = agreed
      BY <2>3 DEF Save
    <3> QED
      BY <3>1, <3>2 DEF InstInv, EverybodyAsked, TasksIn, TasksOf, Asked
  <2> QED
    BY <2>2, <2>3, OrderMoves, OnlySavesMove
<1> QED
  BY <1>3, <1>4 DEF Next, Step

LEMMA Inductive == IInv /\ [Next]_vars => IInv'
BY TypeOKStep, TaskStep, CallStep, GoalStep, CopyStep, InstStep DEF IInv

LEMMA Always == Spec => []IInv
BY InitIInv, Inductive, PTL DEF Spec

--------------------------------------------------------------------------------
\* The types, so in particular no call creates more tasks than there are candidates
\* and no instance is moved past the end.
THEOREM TypeCorrect == Spec => []TypeOK
<1>1. IInv => TypeOK
  BY DEF IInv
<1> QED
  BY <1>1, Always, PTL

\* Nobody is asked at a node before somebody has agreed to the one before.
THEOREM NoNodeIsSkipped == Spec => []NoNodeSkipped
<1>1. IInv => NoNodeSkipped
  BY DEF IInv, TaskInv, InstInv, NoNodeSkipped, TasksOf
<1> QED
  BY <1>1, Always, PTL

\* Everybody was asked where the instance stands.
THEOREM EverybodyIsAsked == Spec => []EverybodyAsked
<1>1. IInv => EverybodyAsked
  BY DEF IInv, InstInv
<1> QED
  BY <1>1, Always, PTL

\* An instance that is not running stays where it is.
THEOREM HaltedStays == Spec => HaltedStaysPut
<1> DEFINE Stay == /\ inst.status # "running" => inst'.node = inst.node
                   /\ inst.status = "completed" => inst'.status \in {"completed", "terminated"}
                   /\ inst.status = "terminated" => inst'.status = "terminated"
<1>1. IInv /\ [Next]_vars => [Stay]_vars
  <2> SUFFICES ASSUME IInv, [Next]_vars PROVE Stay
    OBVIOUS
  <2>1. CASE inst' = inst
    BY <2>1
  <2>2. ASSUME NEW c \in Caller, Save(c), inst' # inst PROVE Stay
    BY <2>2, SaveMoves
  <2>3. ASSUME NEW c \in Caller, SaveOrder(c) PROVE Stay
    BY <2>3, OrderMoves
  <2> QED
    BY <2>1, <2>2, <2>3, OnlySavesMove
<1> QED
  BY <1>1, Always, PTL DEF Spec, HaltedStaysPut
================================================================================
