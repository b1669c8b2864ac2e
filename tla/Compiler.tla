----------------------------- MODULE Compiler -----------------------------
(***************************************************************************)
(* What Workflow.execute checks before it starts a node                    *)
(* (workflows/compiler.py), and how the model registry answers a request   *)
(* for a model (models/registry.py).  Definitions are trees; a leaf that   *)
(* is an agent says which model it names (or None), which capabilities it  *)
(* needs and which permissions its tools require.  The edges of a graph    *)
(* built by Workflow join each node to the next, so that reachability and  *)
(* acyclicity hold of it by construction and are left out.                 *)
(*                                                                         *)
(* An operator marked "Mutant" is the form a likely bug would give to the  *)
(* definition that follows it; nothing uses it.                            *)
(***************************************************************************)
EXTENDS Naturals, FiniteSets, SequencesExt, Permissions

CONSTANTS
    None,
    MaxDepth          \* bound: how deep definitions nest

ASSUME CompilerAssumption == MaxDepth \in Nat

\* Workflow._unique_id: the first node of a name has it as its id, the next
\* gets a number.
NodeId(workflow, i) ==
    LET same == {j \in 1 .. i : workflow.nodes[j].name = workflow.nodes[i].name}
    IN <<workflow.nodes[i].name, Cardinality(same)>>

-----------------------------------------------------------------------------
(* trees *)

Children(node) ==
    CASE node.kind = "sequence" -> Range(node.steps)
      [] node.kind = "workflow" -> Range(node.nodes)
      [] node.kind = "router" ->
            {node.routes[key] : key \in DOMAIN node.routes} \cup ({node.default} \ {None})
      [] node.kind = "loop" -> {node.body}
      [] OTHER -> {}

\* The nodes so many levels below a node, and all of its tree.
Levels(node) ==
    LET level[n \in 0 .. MaxDepth] ==
            IF n = 0 THEN {node} ELSE UNION {Children(x) : x \in level[n - 1]}
    IN level

Within(node) == UNION {Levels(node)[n] : n \in 0 .. MaxDepth}

Leaves(node) == {x \in Within(node) : Children(x) = {}}

\* Mutant: only the workflow's own nodes are looked at.
AgentsOfNodes(node) == {leaf \in Children(node) : leaf.kind = "agent"}

Agents(node) == {leaf \in Leaves(node) : leaf.kind = "agent"}

\* required_permissions of composites is the union over their children.
RequiredPermissions(node) == UNION {agent.tools : agent \in Agents(node)}

\* What the hash of a definition is computed from: of a router only the keys of
\* its routes, of an agent not the capabilities it asks for.
Signature(node) ==
    LET signature[x \in Within(node)] ==
            CASE x.kind = "agent" -> <<"agent", x.name, x.model, x.tools>>
              [] x.kind = "sequence" ->
                    <<"sequence", x.name, [i \in DOMAIN x.steps |-> signature[x.steps[i]]]>>
              [] x.kind = "workflow" ->
                    <<"workflow", x.name,
                      [i \in DOMAIN x.nodes |-> <<NodeId(x, i), signature[x.nodes[i]]>>]>>
              [] x.kind = "loop" -> <<"loop", x.name, signature[x.body], x.rounds>>
              [] x.kind = "router" -> <<"router", x.name, DOMAIN x.routes>>
              [] OTHER -> <<x.kind, x.name>>
    IN signature[node]

-----------------------------------------------------------------------------
(* the registry: models in the order they were registered, and a default *)

Registered(registry) == {registry.models[i].name : i \in DOMAIN registry.models}
Model(registry, name) == CHOOSE m \in Range(registry.models) : m.name = name

\* A name that is registered again keeps its place.
Register(registry, model, asDefault) ==
    [models |-> IF model.name \in Registered(registry)
                THEN [i \in DOMAIN registry.models |->
                        IF registry.models[i].name = model.name THEN model ELSE registry.models[i]]
                ELSE Append(registry.models, model),
     default |-> IF asDefault \/ registry.default = None THEN model.name ELSE registry.default]

Unregister(registry, name) ==
    LET left == SelectSeq(registry.models, LAMBDA m : m.name # name)
    IN [models |-> left,
        default |-> IF registry.default # name THEN registry.default
                    ELSE IF left = <<>> THEN None ELSE left[1].name]

\* Capability routing: of the models that will do, the first of those with the
\* lowest priority number.  None stands for the ConfigurationError.
Select(registry, needs) ==
    LET will  == SelectSeq(registry.models, LAMBDA m : needs \subseteq m.capabilities)
        best  == SelectSeq(will, LAMBDA m : \A i \in DOMAIN will : m.priority <= will[i].priority)
    IN IF will = <<>> THEN None ELSE Head(best).name

Resolve(registry, agent) ==
    IF agent.model # None
    THEN IF /\ agent.model \in Registered(registry)
            /\ agent.needs \subseteq Model(registry, agent.model).capabilities
         THEN agent.model ELSE None
    ELSE IF agent.needs # {} THEN Select(registry, agent.needs)
    ELSE registry.default

-----------------------------------------------------------------------------
(* compile *)

ValidNodes(workflow) ==
    /\ workflow.nodes # <<>>
    /\ \A i, j \in DOMAIN workflow.nodes : i # j => NodeId(workflow, i) # NodeId(workflow, j)

ValidPermissions(workflow) ==
    workflow.permissions # None =>
        Missing(workflow.permissions, RequiredPermissions(workflow)) = {}

\* _validate_one: a model that is named must be there and have what is needed;
\* of an agent that only needs capabilities some model must have them.
ValidModel(registry, agent) ==
    /\ agent.model # None =>
           /\ agent.model \in Registered(registry)
           /\ agent.needs \subseteq Model(registry, agent.model).capabilities
    /\ agent.model = None /\ agent.needs # {} => Select(registry, agent.needs) # None

Compiles(workflow, registry) ==
    /\ ValidNodes(workflow) /\ ValidPermissions(workflow)
    /\ \A agent \in Agents(workflow) : ValidModel(registry, agent)
=============================================================================
