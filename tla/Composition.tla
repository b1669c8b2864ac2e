---------------------------- MODULE Composition ----------------------------
(***************************************************************************)
(* Nested definitions: workflows, sequences, routers and loops around      *)
(* agents and transforms (workflows/node.py, workflows/workflow.py), with  *)
(* the checkpoints workflows take, failures, crashes, resume and one fork. *)
(* A call of execute is a frame on a stack; it holds its ExecutionContext. *)
(* What a leaf computes from its input is the input with the leaf's name   *)
(* appended, so an output tells every step it went through; a transform    *)
(* may also return None.  An agent answers the input its conversation      *)
(* began with.  Parallel nodes are in Fanout, the record's status machine, *)
(* the lock and the deadline in Runtime.                                   *)
(*                                                                         *)
(* An operator marked "Mutant" is the form a likely bug would give to the  *)
(* definition that follows it; nothing uses it.                            *)
(***************************************************************************)
EXTENDS Naturals, FiniteSets, SequencesExt, Compiler

CONSTANTS
    Definitions,      \* the workflows to run, as trees
    Input,            \* of run
    Overrides,        \* what a fork may be given: an input, a model, responses
    Decide(_),        \* the condition of routers
    Until(_),         \* the condition of loops
    Revised(_),       \* the definitions a resume may be given instead
    Registries,       \* the models there may be, and what may become of them
    Iterations(_),    \* of an agent: the model calls it may make before it answers
    MaxDisturb,       \* bound: failing leaves and crashes
    MaxResumes        \* bound

ASSUME CompositionAssumption ==
    /\ \A d \in Definitions : d.kind = "workflow"
    /\ \A r \in Registries : r.models # <<>> => r.default # None
    /\ None # "model"                  \* no failure is not the lack of a model
    /\ MaxDisturb \in Nat /\ MaxResumes \in Nat

VARIABLES
    registry, changed,\* the models; history: whether they have changed
    def, input,       \* the executable and the record's input
    original,         \* history: the executable it was started with
    status,           \* running, completed, failed; "down" is running without a driver
    output,
    why,              \* history: what the last failure was about
    stack,            \* of frames, the innermost last
    state,            \* context.state, which all contexts share
    checkpoints,      \* of this execution, in the order they were saved
    forkedAt,         \* None, or the step it was forked from
    rebound,          \* history: None, or the model the fork was given
    spent, lost,      \* history: model calls this execution has made, and those
                      \* of agents that were under way in a crash
    completions,      \* history: how often each workflow node was recorded as done
    failures, crashes, resumes

execution == <<registry, changed, def, original, input, forkedAt, rebound>>
disturbances == <<lost, failures, crashes, resumes>>
vars == <<execution, status, output, why, stack, state, checkpoints, spent, completions, disturbances>>

Put(f, k, v) == [x \in DOMAIN f \cup {k} |-> IF x = k THEN v ELSE f[x]]

-----------------------------------------------------------------------------
(* contexts *)

\* Sequences, routers and loops name the contexts of their children.
StepId(step) == <<step.name, 1>>
RouteId(router, key) == <<router.name, key, 0>>
RoundId(loop, round) == <<loop.name, "#", round>>

\* ExecutionContext.child: an input of None is taken for none given.
Child(frame, node, id, value) ==
    LET given == IF value = None THEN frame.input ELSE value
    IN [node |-> node, id |-> id, input |-> given, current |-> given, at |-> 0,
        step |-> frame.step, calls |-> frame.calls]

Merged(frame, child) ==
    [frame EXCEPT !.step = Max({@, child.step}), !.calls = Max({@, child.calls})]

\* Mutant: a workflow lets the exception pass.
RaiseThroughUnmerged(child, frame) == frame

\* A raised exception: a workflow merges what its node used and raises on, the
\* other nodes just let it pass.
RaiseThrough(child, frame) == IF frame.node.kind = "workflow" THEN Merged(frame, child) ELSE frame

Unwound(frames) ==
    LET raised[i \in DOMAIN frames] ==
            IF i = Len(frames) THEN frames[i] ELSE RaiseThrough(raised[i + 1], frames[i])
    IN raised[1]

Top == Last(stack)
Below == Front(stack)

-----------------------------------------------------------------------------
(* checkpoints *)

Snapshot(frame, memory) == [step |-> frame.step, calls |-> frame.calls, state |-> memory]
Save(frame, memory) == checkpoints' = Append(checkpoints, Snapshot(frame, memory))

\* Mutant: the list is read from the wrong end.
LatestCheckpointFirst(list) == Head(list)

LatestCheckpoint(list) == Last(list)

\* Mutant: the step is not looked at.
AtStepLatest(list, step) == DOMAIN list

\* checkpoint_at_step takes the last of these.
AtStep(list, step) == {i \in DOMAIN list : list[i].step <= step}

-----------------------------------------------------------------------------
(* returning and raising *)

Fresh == [completed |-> <<>>, conversation |-> <<>>, hash |-> <<>>, recorded |-> <<>>]
Root(node, value, from) ==
    [node |-> node, id |-> <<None, 0>>, input |-> value, current |-> value, at |-> 0,
     step |-> from.step, calls |-> from.calls]

\* The frame child returns value; a workflow records it as its node's output
\* and takes the after_node checkpoint, the runtime completes the execution.
Return(child, value, memory) ==
    /\ IF Below = <<>>
       THEN /\ stack' = <<>> /\ status' = "completed" /\ output' = value
            /\ state' = memory
            /\ Save(child, memory)
            /\ UNCHANGED completions
       ELSE LET frame == [Merged(Last(Below), child) EXCEPT !.current = value, !.at = @ + 1]
                done == <<frame.node.name, child.id>>
                told == [memory EXCEPT !.completed = Put(@, done, value)]
            IN /\ stack' = Append(Front(Below), frame)
               /\ IF frame.node.kind = "workflow"
                  THEN /\ state' = told
                       /\ Save(frame, told)
                       /\ completions' = completions (+) SetToBag({done})
                  ELSE /\ state' = memory
                       /\ UNCHANGED <<checkpoints, completions>>
               /\ UNCHANGED <<status, output>>
    /\ UNCHANGED why

\* The innermost call raises: _fail takes a checkpoint with the root context.
Raise(child, memory, reason) ==
    /\ why' = reason
    /\ Save(Unwound(Append(Below, child)), memory)
    /\ stack' = <<>> /\ status' = "failed" /\ state' = memory
    /\ UNCHANGED <<output, completions>>

-----------------------------------------------------------------------------
(* one step of the innermost call *)

Driven == status = "running"
MayFail == failures + crashes < MaxDisturb
Failing == MayFail /\ failures' = failures + 1 /\ UNCHANGED <<lost, crashes, resumes>>

\* TransformNode.execute; func is the caller's and may raise.
Transform ==
    /\ Driven /\ Top.node.kind \in {"transform", "mute"}
    /\ \/ /\ LET value == IF Top.node.kind = "mute" THEN None ELSE Append(Top.input, Top.node.name)
             IN Return(Top, value, state)
          /\ UNCHANGED disturbances
       \/ Failing /\ Raise(Top, state, "leaf")
    /\ UNCHANGED <<execution, spent>>

\* Agent._state_key: the node's id, whichever workflow the node is in.
ConversationKey(frame) == frame.id

\* A fork may have told what the model answers to its n-th call.
IsRecorded(frame) == frame.calls + 1 \in DOMAIN state.recorded
Answer(frame, asked) ==
    IF IsRecorded(frame) THEN state.recorded[frame.calls + 1] ELSE Append(asked, frame.node.name)

\* An iteration of Agent.execute: one model call, which fails before or after
\* the answer has been saved in the conversation, is the agent's answer, or asks
\* for tools or a repair and so for another.  Whether the agent returns, raises or
\* has had its iterations, it merges what all of them used into its context.
CallAgent ==
    /\ Driven /\ Top.node.kind = "agent"
    /\ LET key   == ConversationKey(Top)
           asked == IF key \in DOMAIN state.conversation THEN state.conversation[key] ELSE Top.input
           saved == [state EXCEPT !.conversation = Put(@, key, asked)]
           used  == [Top EXCEPT !.step = @ + 1, !.calls = @ + 1, !.at = @ + 1]
           answered == IsRecorded(Top) \/ Resolve(registry, Top.node) # None
       IN \/ /\ ~answered
             /\ Raise([Top EXCEPT !.step = @ + 1], state, "model")
             /\ UNCHANGED <<spent, disturbances>>
          \/ /\ answered
             /\ \/ Return(used, Answer(Top, asked), saved)
                \/ /\ used.at < Iterations(Top.node)
                   /\ stack' = Append(Below, used) /\ state' = saved
                   /\ UNCHANGED <<status, output, why, checkpoints, completions>>
             /\ spent' = spent + 1
             /\ UNCHANGED disturbances
          \/ /\ Failing
             /\ \/ Raise([Top EXCEPT !.step = @ + 1], state, "leaf") /\ UNCHANGED spent
                \/ /\ answered
                   /\ Raise(used, saved, "leaf") /\ spent' = spent + 1
    /\ UNCHANGED execution

Enter(child) ==
    /\ stack' = Append(stack, child)
    /\ UNCHANGED <<execution, status, output, why, spent, completions, disturbances>>

SequenceStep ==
    /\ Driven /\ Top.node.kind = "sequence" /\ Top.at < Len(Top.node.steps)
    /\ LET step == Top.node.steps[Top.at + 1]
       IN Enter(Child(Top, step, StepId(step), Top.current))
    /\ UNCHANGED <<state, checkpoints>>

\* RouterNode.execute: an answer that names no route goes to the default, or raises.
Route ==
    /\ Driven /\ Top.node.kind = "router" /\ Top.at = 0
    /\ LET key    == Decide(Top.input)
           known  == key \in DOMAIN Top.node.routes
           target == IF known THEN Top.node.routes[key] ELSE Top.node.default
       IN IF target = None
          THEN Raise(Top, state, "route") /\ UNCHANGED <<execution, spent, disturbances>>
          ELSE /\ Enter(Child(Top, target, RouteId(Top.node, key), None))
               /\ UNCHANGED <<state, checkpoints>>

RoundsLeft(frame) == frame.at < frame.node.rounds

Repeats(frame) == RoundsLeft(frame) /\ (frame.at = 0 \/ ~Until(frame.current))

LoopRound ==
    /\ Driven /\ Top.node.kind = "loop" /\ Repeats(Top)
    /\ Enter(Child(Top, Top.node.body, RoundId(Top.node, Top.at + 1), Top.current))
    /\ UNCHANGED <<state, checkpoints>>

-----------------------------------------------------------------------------
(* Workflow.execute *)

Working == Driven /\ Top.node.kind = "workflow" /\ Top.at < Len(Top.node.nodes)
Hashed == [state EXCEPT !.hash = Put(@, Top.node.name, Signature(Top.node))]
Key(frame) == <<frame.node.name, NodeId(frame.node, frame.at + 1)>>

\* _verify_resume_compatibility looks at what a workflow of this name recorded.
Compatible == Top.node.name \in DOMAIN state.hash => state.hash[Top.node.name] = Signature(Top.node)

\* A call of execute begins with compiling and comparing.
Admitted == Top.at = 0 => Compiles(Top.node, registry) /\ Compatible

Refuse ==
    /\ Working /\ ~Admitted
    /\ Raise(Top, state, "definition")
    /\ UNCHANGED <<execution, spent, disturbances>>

\* Mutant: the output of a skipped node is not taken over.
SkippedOutputKept(frame) == frame.current

SkippedOutput(frame) == state.completed[Key(frame)]

SkipNode ==
    /\ Working /\ Admitted /\ Key(Top) \in DOMAIN state.completed
    /\ stack' = Append(Below, [Top EXCEPT !.current = SkippedOutput(Top), !.at = @ + 1])
    /\ state' = Hashed
    /\ UNCHANGED <<execution, status, output, why, checkpoints, spent, completions, disturbances>>

StartNode ==
    /\ Working /\ Admitted /\ Key(Top) \notin DOMAIN state.completed
    /\ Enter(Child(Top, Top.node.nodes[Top.at + 1], NodeId(Top.node, Top.at + 1), Top.current))
    /\ state' = Hashed
    /\ Save(Top, Hashed)

Exhausted(frame) ==
    CASE frame.node.kind = "workflow" -> frame.at = Len(frame.node.nodes)
      [] frame.node.kind = "sequence" -> frame.at = Len(frame.node.steps)
      [] frame.node.kind = "router" -> frame.at = 1
      [] frame.node.kind = "loop" -> ~Repeats(frame)
      [] OTHER -> FALSE

ReturnCurrent ==
    /\ Driven /\ Exhausted(Top)
    /\ Return(Top, Top.current, state)
    /\ UNCHANGED <<execution, spent, disturbances>>

-----------------------------------------------------------------------------
(* the runtime *)

Start == [step |-> 0, calls |-> 0]

Init ==
    /\ def \in Definitions /\ original = def /\ input = Input /\ forkedAt = None /\ rebound = None
    /\ registry \in Registries /\ changed = FALSE
    /\ status = "running" /\ output = None /\ why = None
    /\ stack = <<Root(def, input, Start)>>
    /\ state = Fresh /\ checkpoints = <<>>
    /\ spent = 0 /\ lost = 0 /\ completions = EmptyBag
    /\ failures = 0 /\ crashes = 0 /\ resumes = 0

\* An agent under way has merged nothing yet; one more call may have been made.
Unmerged == IF Top.node.kind = "agent" THEN Top.calls - Last(Below).calls ELSE 0

Crash ==
    /\ Driven /\ MayFail
    /\ status' = "down" /\ stack' = <<>> /\ crashes' = crashes + 1
    /\ spent' \in {spent} \cup IF Top.node.kind = "agent" THEN {spent + 1} ELSE {}
    /\ lost' = lost + Unmerged + (spent' - spent)
    /\ UNCHANGED <<execution, output, why, state, checkpoints, completions, failures, resumes>>

\* Runtime.resume, without a checkpoint refused.  The executable may be given
\* anew, by a program that has another definition by now.
Resume ==
    /\ status \in {"failed", "down"} /\ checkpoints # <<>> /\ resumes < MaxResumes
    /\ def' \in {def} \cup Revised(def)
    /\ LET checkpoint == LatestCheckpoint(checkpoints)
       IN stack' = <<Root(def', input, checkpoint)>> /\ state' = checkpoint.state
    /\ status' = "running" /\ resumes' = resumes + 1
    /\ UNCHANGED <<registry, changed, original, input, forkedAt, rebound, output, why,
                   checkpoints, spent, lost, completions, failures, crashes>>

\* _rebind_model: a copy with another model, made of agents and workflows only.
RebindModel(node, model) ==
    LET copy[x \in Within(node)] ==
            CASE x.kind = "agent" -> [x EXCEPT !.model = model]
              [] x.kind = "workflow" -> [x EXCEPT !.nodes = [i \in DOMAIN @ |-> copy[@[i]]]]
              [] OTHER -> x
    IN copy[node]

\* Runtime.fork: a new execution with the state of a checkpoint, its hashes
\* dropped, and counters of its own.  Step 0 without a checkpoint is allowed.
Fork(step, given) ==
    /\ status # "running" /\ forkedAt = None
    /\ LET candidates == AtStep(checkpoints, step)
           kept == IF candidates = {} THEN Fresh ELSE checkpoints[Max(candidates)].state
           target == IF given.model = None THEN def ELSE RebindModel(def, given.model)
           value == IF given.input = None THEN input ELSE given.input
       IN /\ candidates # {} \/ step = 0
          /\ state' = [kept EXCEPT !.hash = <<>>, !.recorded = given.responses]
          /\ def' = target /\ input' = value
          /\ stack' = <<Root(target, value, Start)>>
    /\ forkedAt' = step /\ rebound' = given.model
    /\ status' = "running" /\ output' = None
    /\ checkpoints' = <<>> /\ spent' = 0 /\ lost' = 0 /\ completions' = EmptyBag
    /\ UNCHANGED <<registry, changed, original, why, failures, crashes, resumes>>

\* Somebody registers or unregisters models; the code does not stop them.
ChangeRegistry ==
    /\ Driven /\ ~changed
    /\ registry' \in {Unregister(registry, name) : name \in Registered(registry)}
                    \cup {Register(registry, m, TRUE) : m \in UNION {Range(r.models) : r \in Registries}}
    /\ registry' # registry /\ changed' = TRUE
    /\ UNCHANGED <<def, original, input, forkedAt, rebound, status, output, why, stack, state, checkpoints,
                   spent, completions, disturbances>>

Steps == {checkpoints[i].step : i \in DOMAIN checkpoints} \cup {0}

Drive ==
    \/ Transform \/ CallAgent \/ SequenceStep \/ Route \/ LoopRound
    \/ Refuse \/ SkipNode \/ StartNode \/ ReturnCurrent

Next ==
    \/ Drive \/ Crash \/ Resume \/ ChangeRegistry
    \/ \E step \in Steps, given \in Overrides : Fork(step, given)

Spec == Init /\ [][Next]_vars

-----------------------------------------------------------------------------
(* definitions *)

\* Only workflows and leaves: nothing lets an exception pass without merging.
OnlyWorkflows(d) == \A x \in Within(d) : x.kind \in {"agent", "transform", "mute", "workflow"}

\* No workflow lies within one of its own name.
NamesApart(d) ==
    \A x \in Within(d) : x.kind = "workflow" =>
        \A y \in UNION {Within(child) : child \in Children(x)} :
            y.kind = "workflow" => y.name # x.name

\* A tree that is no deeper than MaxDepth.
IsTree(d) ==
    /\ \A x \in Within(d) : /\ x.kind = "workflow" => x.nodes \in Seq(Range(x.nodes))
                            /\ x.kind = "sequence" => x.steps \in Seq(Range(x.steps))
    /\ \A x \in Levels(d)[MaxDepth] : Children(x) = {}

\* What a resume or a fork may make of a definition.
Variants(d) ==
    Revised(d) \cup {RebindModel(d, given.model) : given \in {o \in Overrides : o.model # None}}

\* All the workflows that may come to run are among these.
Programs(D) ==
    /\ Definitions \subseteq D
    /\ \A d \in D : d.kind = "workflow" /\ IsTree(d) /\ Variants(d) \subseteq D

-----------------------------------------------------------------------------
(* properties *)

\* workflow.py:202: the completion of a workflow node is checkpointed once.
\* Neither a resume nor an enclosing node that runs again repeats it.
CompletedOnce == \A done \in BagToSet(completions) : completions[done] = 1

\* workflow.py:213 and agent.py:212 merge what a failing node used before they
\* raise on: the last checkpoint counts every model call the execution has made,
\* in every iteration of its agents and however deep in nested workflows, so that
\* a resume cannot spend its budget twice.  What a crash forgets are the calls of
\* the agent that was under way, all of them and no others.
UsageKept ==
    OnlyWorkflows(def) /\ status \in {"failed", "completed"} =>
        Last(checkpoints).calls = spent - lost

\* compiler.py:3: what compile lets pass has a model for every agent, however
\* deep in the definition, also when a resume comes to it, unless the models
\* have changed since, or there never was one (an agent that asks for nothing
\* takes the default and is not checked).
CompiledFindsModel == why = "model" => changed \/ registry.models = <<>>

=============================================================================
