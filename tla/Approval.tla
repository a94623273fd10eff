-------------------------------- MODULE Approval --------------------------------
(***************************************************************************)
(* One instance of an approval flow (sz-rust-workflow): the approval nodes *)
(* 1, 2, ... in a row between a start and an end, worked on by concurrent  *)
(* calls of ApprovalFlowEngine::handle and of InstanceManager's start,     *)
(* suspend, resume and terminate.                                          *)
(*                                                                         *)
(* Every await of a repository is a step of its own.  A call keeps a copy  *)
(* of the instance from its beginning, and the versioned write at its end  *)
(* is all that protects the instance; a task is written without any.       *)
(* A task has one candidate; a call by anybody else changes nothing and is *)
(* left out, as are payloads, events and the history.                      *)
(***************************************************************************)
EXTENDS Integers, FiniteSets

CONSTANTS
  Caller,      \* requests being served at the same time
  TaskId,      \* the ids create_tasks draws from: bounds the tasks of a behaviour
  NoTask,      \* what a call that handles no task has
  NApprovals,  \* the number of approval nodes of the definition
  Strategy,    \* approval_strategy of each node
  Seats,       \* how many candidates the resolver finds for each node
  Actions,     \* the TaskActions that are used
  MaxVersion   \* bound on version_lock: suspend, resume, terminate stop there

Node == 1..NApprovals
StartNode == 0
EndNode == NApprovals + 1

TaskAction == {"approve", "reject", "transfer", "add_sign", "withdraw"}

ASSUME ConstantsAssumption ==
  /\ IsFiniteSet(TaskId)
  /\ NoTask \notin TaskId
  /\ NApprovals \in Nat \ {0}
  /\ Strategy \in [Node -> {"and_sign", "or_sign"}]
  /\ Seats \in [Node -> Nat]
  /\ Actions \subseteq TaskAction
  /\ MaxVersion \in Nat

VARIABLES
  inst,     \* the stored FlowInstance: status, current node, version_lock
  tasks,    \* the stored tasks; "none" is an id not drawn yet
  agreed,   \* history: the nodes with a task that was ever written as completed
  pc,       \* where each call is
  copy,     \* the instance each call has read
  mine,     \* the task each call handles
  what,     \* its action, or what it does to the instance
  goal,     \* the node it moves the instance to
  todo      \* the tasks it still has to create there

locals == <<copy, mine, what, goal, todo>>
vars == <<inst, tasks, agreed, pc, locals>>

InstanceStatus == {"running", "suspended", "terminated", "completed"}
TaskStatus == {"none", "pending", "completed", "rejected", "transferred", "invalidated"}
Order == {"suspend", "resume", "terminate"}

Instance == [status : InstanceStatus, node : 0..EndNode, version : Nat]

\* The stored instance and tasks have the statuses the code writes, and create_tasks
\* never has less than nothing left to create.
TypeOK ==
  /\ inst \in Instance
  /\ tasks \in [TaskId -> [node : 0..EndNode, status : TaskStatus]]
  /\ agreed \subseteq 0..EndNode
  /\ pc \in [Caller -> {"idle", "start", "load", "update", "list", "advance", "order",
                        "invalidate"}]
  /\ copy \in [Caller -> Instance]
  /\ mine \in [Caller -> TaskId \cup {NoTask}]
  /\ what \in [Caller -> TaskAction \cup Order]
  /\ goal \in [Caller -> 0..EndNode]
  /\ todo \in [Caller -> Nat]

\* start has created the instance and is about to create the tasks of node 1;
\* it leaves the instance at the start node.
Init ==
  /\ inst = [status |-> "running", node |-> StartNode, version |-> 0]
  /\ tasks = [t \in TaskId |-> [node |-> 0, status |-> "none"]]
  /\ agreed = {}
  /\ \E starter \in Caller :
       /\ pc = [c \in Caller |-> IF c = starter THEN "start" ELSE "idle"]
       /\ todo = [c \in Caller |-> IF c = starter THEN Seats[1] ELSE 0]
       /\ goal = [c \in Caller |-> IF c = starter THEN 1 ELSE 0]
  /\ copy = [c \in Caller |-> inst]
  /\ mine = [c \in Caller |-> NoTask]
  /\ what = [c \in Caller |-> "approve"]

Goto(c, label) == pc' = [pc EXCEPT ![c] = label]

\* A call that is over keeps nothing.
Return(c) ==
  /\ Goto(c, "idle")
  /\ copy' = [copy EXCEPT ![c] = [status |-> "running", node |-> 0, version |-> 0]]
  /\ mine' = [mine EXCEPT ![c] = NoTask]
  /\ what' = [what EXCEPT ![c] = "approve"]
  /\ goal' = [goal EXCEPT ![c] = 0]
  /\ todo' = [todo EXCEPT ![c] = 0]

--------------------------------------------------------------------------------
(* ApprovalFlowEngine::handle *)

\* handle reads its task, which must be pending.
Take(c, t, a) ==
  /\ pc[c] = "idle"
  /\ tasks[t].status = "pending"
  /\ mine' = [mine EXCEPT ![c] = t]
  /\ what' = [what EXCEPT ![c] = a]
  /\ Goto(c, "load")
  /\ UNCHANGED <<inst, tasks, agreed, copy, goal, todo>>

\* It reads the instance, which must be running.
Load(c) ==
  /\ pc[c] = "load"
  /\ inst.status = "running"
  /\ copy' = [copy EXCEPT ![c] = inst]
  /\ Goto(c, "update")
  /\ UNCHANGED <<inst, tasks, agreed, mine, what, goal, todo>>

NotHandleable(c) ==
  /\ pc[c] = "load"
  /\ inst.status # "running"
  /\ Return(c)
  /\ UNCHANGED <<inst, tasks, agreed>>

\* The status an action gives its task: whatever has no case of its own counts
\* as an approval.
ResultOf(a) ==
  CASE a = "reject"   -> "rejected"
    [] a = "transfer" -> "transferred"
    [] OTHER          -> "completed"

\* The task is written over, whatever has become of it in the meantime.
Update(c) ==
  LET t == mine[c] IN
    /\ pc[c] = "update"
    /\ tasks' = [tasks EXCEPT ![t].status = ResultOf(what[c])]
    /\ agreed' = IF ResultOf(what[c]) = "completed" THEN agreed \cup {tasks[t].node} ELSE agreed
    /\ Goto(c, "list")
    /\ UNCHANGED <<inst, locals>>

TasksOf(n) == {t \in TaskId : tasks[t].node = n /\ tasks[t].status # "none"}
StatusesOf(n) == {tasks[t].status : t \in TasksOf(n)}

\* Mutant: a node all of whose tasks were transferred counts as approved.
Complete_NoneLeft(n) ==
  CASE Strategy[n] = "or_sign"  -> "completed" \in StatusesOf(n)
    [] Strategy[n] = "and_sign" -> StatusesOf(n) \subseteq {"completed", "transferred", "invalidated"}

\* check_completion answers Completed.  AndSign looks past the tasks that were
\* transferred or invalidated, but not if there are no others.
Complete(n) ==
  CASE Strategy[n] = "or_sign"  -> "completed" \in StatusesOf(n)
    [] Strategy[n] = "and_sign" -> /\ StatusesOf(n) \subseteq {"completed", "transferred", "invalidated"}
                                   /\ "completed" \in StatusesOf(n)

\* The candidates of a node; the end has none.
Asked(n) == IF n \in Node THEN Seats[n] ELSE 0

\* handle lists the tasks of the node, those of other calls included, and the
\* node is done: it goes on to the next one.
ListComplete(c) ==
  LET n == tasks[mine[c]].node IN
    /\ pc[c] = "list"
    /\ Complete(n)
    /\ goal' = [goal EXCEPT ![c] = n + 1]
    /\ todo' = [todo EXCEPT ![c] = Asked(n + 1)]
    /\ Goto(c, "advance")
    /\ UNCHANGED <<inst, tasks, agreed, copy, mine, what>>

\* The node is in progress, or rejected: advance_node does nothing about the
\* start node, where a rejection leads.
ListOther(c) ==
  /\ pc[c] = "list"
  /\ ~Complete(tasks[mine[c]].node)
  /\ Return(c)
  /\ UNCHANGED <<inst, tasks, agreed>>

\* Mutant: create_tasks makes one task too many.
SeatLeft_OneMore(c) == todo[c] >= 0

SeatLeft(c) == todo[c] > 0

\* create_tasks: one task after the other, each seen by everybody at once.
Create(c, t) ==
  /\ pc[c] \in {"start", "advance"}
  /\ SeatLeft(c)
  /\ tasks[t].status = "none"
  /\ tasks' = [tasks EXCEPT ![t] = [node |-> goal[c], status |-> "pending"]]
  /\ todo' = [todo EXCEPT ![c] = @ - 1]
  /\ UNCHANGED <<inst, agreed, pc, copy, mine, what, goal>>

Started(c) ==
  /\ pc[c] = "start"
  /\ todo[c] = 0
  /\ Return(c)
  /\ UNCHANGED <<inst, tasks, agreed>>

--------------------------------------------------------------------------------
(* The versioned write of the instance *)

\* Mutant: the write does not compare the version.
Current_Any(c) == copy[c] = copy[c]

\* update_with_version finds the version the call has read.
Current(c) == inst.version = copy[c].version

\* Mutant: the instance is moved before its tasks are created.
TasksCreated_Later(c) == todo[c] >= 0

TasksCreated(c) == todo[c] = 0

StatusAt(n) == IF n = EndNode THEN "completed" ELSE "running"

\* advance_node saves the instance last and drops the answer: if somebody else
\* has written it, it stays where it is and the tasks are there all the same.
Save(c) ==
  /\ pc[c] = "advance"
  /\ TasksCreated(c)
  /\ inst' = IF Current(c)
             THEN [status |-> StatusAt(goal[c]), node |-> goal[c], version |-> copy[c].version + 1]
             ELSE inst
  /\ Return(c)
  /\ UNCHANGED <<tasks, agreed>>

\* suspend, resume and terminate read the instance; terminate takes any status.
Allowed(o) ==
  \/ o = "suspend" /\ inst.status = "running"
  \/ o = "resume" /\ inst.status = "suspended"
  \/ o = "terminate"

GiveOrder(c, o) ==
  /\ pc[c] = "idle"
  /\ inst.version < MaxVersion
  /\ Allowed(o)
  /\ copy' = [copy EXCEPT ![c] = inst]
  /\ what' = [what EXCEPT ![c] = o]
  /\ Goto(c, "order")
  /\ UNCHANGED <<inst, tasks, agreed, mine, goal, todo>>

StatusAfter(o) ==
  CASE o = "suspend"   -> "suspended"
    [] o = "resume"    -> "running"
    [] o = "terminate" -> "terminated"

\* save_with_lock; terminate then goes on to the tasks.
SaveOrder(c) ==
  /\ pc[c] = "order"
  /\ Current(c)
  /\ inst' = [copy[c] EXCEPT !.status = StatusAfter(what[c]), !.version = @ + 1]
  /\ IF what[c] = "terminate" THEN Goto(c, "invalidate") /\ UNCHANGED locals ELSE Return(c)
  /\ UNCHANGED <<tasks, agreed>>

\* Somebody else has written the instance: the call fails.
Conflict(c) ==
  /\ pc[c] = "order"
  /\ ~Current(c)
  /\ Return(c)
  /\ UNCHANGED <<inst, tasks, agreed>>

\* invalidate_by_instance: what was decided stays.
Invalidate(c) ==
  /\ pc[c] = "invalidate"
  /\ tasks' = [t \in TaskId |-> IF tasks[t].status = "pending"
                                THEN [tasks[t] EXCEPT !.status = "invalidated"]
                                ELSE tasks[t]]
  /\ Return(c)
  /\ UNCHANGED <<inst, agreed>>

\* A repository or the candidate resolver answers Err, or the request is dropped at
\* an await: the call is over with what it has done so far.
Fail(c) ==
  /\ pc[c] # "idle"
  /\ Return(c)
  /\ UNCHANGED <<inst, tasks, agreed>>

--------------------------------------------------------------------------------
Handle(c) ==
  \/ \E t \in TaskId, a \in Actions : Take(c, t, a)
  \/ Load(c) \/ NotHandleable(c)
  \/ Update(c)
  \/ ListComplete(c) \/ ListOther(c)
  \/ \E t \in TaskId : Create(c, t)
  \/ Started(c)
  \/ Save(c)

Manage(c) ==
  \/ \E o \in Order : GiveOrder(c, o)
  \/ SaveOrder(c) \/ Conflict(c)
  \/ Invalidate(c)

Next == \E c \in Caller : Handle(c) \/ Manage(c) \/ Fail(c)

Spec == Init /\ [][Next]_vars

--------------------------------------------------------------------------------
\* Nobody is asked at a node, and the instance does not stand there or at the
\* end, unless somebody has agreed to the node before: whatever is transferred,
\* invalidated, decided twice at once or overwritten.
NoNodeSkipped ==
  \A n \in 2..EndNode : inst.node = n \/ TasksOf(n) # {} => n - 1 \in agreed

\* Where the instance stands everybody was asked, although creating the tasks may
\* fail half way and other calls move the instance in between.
EverybodyAsked ==
  inst.node \in Node => Cardinality(TasksOf(inst.node)) >= Seats[inst.node]

\* An instance that is not running stays where it is, whatever copy of it the calls
\* under way have, and one that has ended does not run again.
HaltedStaysPut ==
  [][/\ inst.status # "running" => inst'.node = inst.node
     /\ inst.status = "completed" => inst'.status \in {"completed", "terminated"}
     /\ inst.status = "terminated" => inst'.status = "terminated"]_vars

\* What a counter-sign promises (strategy.rs line 31 and approval_strategy.rs line 20:
\* all candidates must agree): beyond such a node, every one of its candidates has
\* agreed.  It does not hold: check_completion looks at the tasks there are, so an
\* approval that comes while create_tasks is still making the others completes the
\* node alone, and so does one beside tasks that were transferred.
AllCandidatesAgree ==
  \A n \in Node : Strategy[n] = "and_sign" /\ inst.node > n
    => Cardinality({t \in TasksOf(n) : tasks[t].status = "completed"}) >= Seats[n]

--------------------------------------------------------------------------------
(* The inductive invariant behind the three *)

\* Tasks are for approval nodes, that of a node follow an agreement on the one
\* before, and a completed one is an agreement.
TaskInv ==
  \A t \in TaskId : tasks[t].status # "none" =>
    /\ tasks[t].node \in Node
    /\ tasks[t].node >= 2 => tasks[t].node - 1 \in agreed
    /\ tasks[t].status = "completed" => tasks[t].node \in agreed

\* What the calls are about.
CallInv ==
  \A c \in Caller :
    /\ pc[c] \in {"load", "update", "list"} =>
         /\ mine[c] \in TaskId /\ tasks[mine[c]].status # "none"
         /\ what[c] \in TaskAction
    /\ pc[c] \in {"order", "invalidate"} => what[c] \in Order

\* Where they go was agreed to, and what is there and what they still have to
\* create there makes a task for everybody.
GoalInv ==
  \A c \in Caller : pc[c] \in {"start", "advance"} =>
    /\ goal[c] \in 1..EndNode
    /\ goal[c] >= 2 => goal[c] - 1 \in agreed
    /\ Cardinality(TasksOf(goal[c])) + todo[c] >= Asked(goal[c])
    /\ goal[c] = EndNode => todo[c] = 0

\* A copy with the stored version is the stored instance, and it had the status
\* the call needs.
CopyInv ==
  \A c \in Caller : pc[c] \in {"update", "list", "advance", "order"} =>
    /\ copy[c].version <= inst.version
    /\ copy[c].version = inst.version => copy[c] = inst
    /\ pc[c] # "order" => copy[c].status = "running"
    /\ pc[c] = "order" => \/ what[c] = "suspend" /\ copy[c].status = "running"
                          \/ what[c] = "resume" /\ copy[c].status = "suspended"
                          \/ what[c] = "terminate"

InstInv ==
  /\ inst.node >= 2 => inst.node - 1 \in agreed
  /\ EverybodyAsked

IInv == TypeOK /\ TaskInv /\ CallInv /\ GoalInv /\ CopyInv /\ InstInv
================================================================================
