------------------------------ MODULE McpCatalog ------------------------------
(***************************************************************************)
(* What an McpService offers (mcp/McpService.cpp, McpService.h): the       *)
(* descriptions of tools, prompts and resources, which are validated when  *)
(* they are added, and the methods bound to tool names.                    *)
(*                                                                         *)
(* A JSON description is a record of its fields.  A text field is missing, *)
(* of another type, empty, or a text; a schema node has a type, and items  *)
(* and properties that may be missing.                                     *)
(***************************************************************************)
EXTENDS Integers, Sequences

CONSTANTS
    Tools, Prompts, Resources,  \* the descriptions an application may add
    Nodes,      \* depth -> the typed schema nodes with at most so many levels below
    MaxDepth,   \* bound: levels of schema nodes
    ToolNames, Methods,
    Missing,    \* a field that is not there
    NotObject, NotArray, NotString,  \* values of a wrong type
    NoMethod,   \* an empty std::function
    MaxListed   \* bound: descriptions that are listed

VARIABLES
    m_tool_descriptions, m_prompt_descriptions, m_resource_descriptions,
    m_tools,    \* name -> method
    call        \* the last call: its descriptions, their container, whether it threw

lists == <<m_tool_descriptions, m_prompt_descriptions, m_resource_descriptions>>
catalogVars == <<lists, m_tools, call>>

NoCall == [kind |-> "none", args |-> <<>>, container |-> "vector", thrown |-> FALSE]

CatalogInit ==
    /\ m_tool_descriptions = <<>>
    /\ m_prompt_descriptions = <<>>
    /\ m_resource_descriptions = <<>>
    /\ m_tools = [n \in ToolNames |-> NoMethod]
    /\ call = NoCall

-----------------------------------------------------------------------------
(* The validators: FALSE where the code throws *)

IsText(field) == field = "text"
TextIfPresent(field) == field # "other"
IsObject(x) == x # Missing /\ x # NotObject
HasType(node) == IsObject(node) /\ node.type \notin {"missing", "other"}

ValidTypes == {"string", "number", "integer", "boolean", "array", "object", "null"}

validate_required_fields(tool) ==
    /\ IsText(tool.name)
    /\ IsText(tool.description)
    /\ IsObject(tool.inputSchema)

(* Below the top level, every node that is reached must have a type.  The  *)
(* validators call each other one level deeper; deeper is the set of nodes *)
(* that those calls accept.                                                *)

(* Fault: the elements of an array are not looked into. *)
validate_array_property_Flat(node, deeper) == HasType(node.items)

validate_array_property(node, deeper) == HasType(node.items) /\ node.items \in deeper

validate_nested_object_property(node, deeper) ==
    node.properties # Missing =>
        /\ IsObject(node.properties)
        /\ \A p \in DOMAIN node.properties :
              HasType(node.properties[p]) /\ node.properties[p] \in deeper

ValidBelow(node, deeper) ==
    /\ node.type = "array" => validate_array_property(node, deeper)
    /\ node.type = "object" => validate_nested_object_property(node, deeper)

ValidNodes[depth \in 0..MaxDepth] ==
    {node \in Nodes[depth] :
        ValidBelow(node, IF depth = 0 THEN {} ELSE ValidNodes[depth - 1])}
AcceptedNodes == ValidNodes[MaxDepth]

ValidProperty(node) ==
    /\ HasType(node)
    /\ node.type \in ValidTypes
    /\ node \in AcceptedNodes
    /\ TextIfPresent(node.description)

RequiredDefined(schema) ==
    schema.required # Missing =>
        schema.required # NotArray /\ schema.required \subseteq DOMAIN schema.properties

(* Without properties nothing else is looked at. *)
validate_input_schema(schema) ==
    /\ schema.type = "object"
    /\ IsObject(schema.properties)
    /\ DOMAIN schema.properties # {} =>
          /\ \A p \in DOMAIN schema.properties : ValidProperty(schema.properties[p])
          /\ RequiredDefined(schema)
          /\ schema.additionalProperties # "other"

ValidTool(tool) == validate_required_fields(tool) /\ validate_input_schema(tool.inputSchema)

validate_prompt_description_fields(prompt) ==
    IsText(prompt.name) /\ IsText(prompt.description) /\ prompt.arguments # NotArray

validate_prompt_arguments(arguments) ==
    \A i \in DOMAIN arguments :
        /\ IsObject(arguments[i])
        /\ IsText(arguments[i].name)
        /\ TextIfPresent(arguments[i].description)
        /\ arguments[i].required # "other"

ValidPrompt(prompt) ==
    /\ validate_prompt_description_fields(prompt)
    /\ prompt.arguments # Missing => validate_prompt_arguments(prompt.arguments)

ValidResource(resource) ==
    /\ IsText(resource.uri) /\ IsText(resource.name)
    /\ TextIfPresent(resource.description) /\ TextIfPresent(resource.mimeType)

-----------------------------------------------------------------------------
(* Adding.  A call that adds several descriptions stops at the first one   *)
(* that throws, and keeps those before it.                                 *)

Kept(ds, valid) ==
    LET n == CHOOSE k \in 0..Len(ds) : 1..k \subseteq valid /\ k + 1 \notin valid
    IN  SubSeq(ds, 1, n)

Room(n) ==
    Len(m_tool_descriptions) + Len(m_prompt_descriptions) + Len(m_resource_descriptions) + n
        <= MaxListed

Added(kind, ds, container, thrown) ==
    call' = [kind |-> kind, args |-> ds, container |-> container, thrown |-> thrown]

addToolDescriptions(ds) ==
    LET kept == Kept(ds, {i \in DOMAIN ds : ValidTool(ds[i])}) IN
    /\ Room(Len(ds))
    /\ m_tool_descriptions' = m_tool_descriptions \o kept
    /\ Added("tool", ds, "vector", kept # ds)
    /\ UNCHANGED <<m_prompt_descriptions, m_resource_descriptions, m_tools>>

addPrompts(ds) ==
    LET kept == Kept(ds, {i \in DOMAIN ds : ValidPrompt(ds[i])}) IN
    /\ Room(Len(ds))
    /\ m_prompt_descriptions' = m_prompt_descriptions \o kept
    /\ Added("prompt", ds, "vector", kept # ds)
    /\ UNCHANGED <<m_tool_descriptions, m_resource_descriptions, m_tools>>

addResources(ds) ==
    LET kept == Kept(ds, {i \in DOMAIN ds : ValidResource(ds[i])}) IN
    /\ Room(Len(ds))
    /\ m_resource_descriptions' = m_resource_descriptions \o kept
    /\ Added("resource", ds, "vector", kept # ds)
    /\ UNCHANGED <<m_tool_descriptions, m_prompt_descriptions, m_tools>>

addToolDescription(d) == addToolDescriptions(<<d>>)
addPrompt(d) == addPrompts(<<d>>)
addResource(d) == addResources(<<d>>)

(* The overloads for one JSON value check its type the wrong way round: an *)
(* array throws, and the values of an object are taken one by one.         *)
addToolDescriptionsJson(ds, container) ==
    LET kept == IF container = "array" THEN <<>> ELSE Kept(ds, {i \in DOMAIN ds : ValidTool(ds[i])}) IN
    /\ Room(Len(ds))
    /\ m_tool_descriptions' = m_tool_descriptions \o kept
    /\ Added("tool", ds, container, container = "array" \/ kept # ds)
    /\ UNCHANGED <<m_prompt_descriptions, m_resource_descriptions, m_tools>>

addPromptsJson(ds, container) ==
    LET kept == IF container = "array" THEN <<>> ELSE Kept(ds, {i \in DOMAIN ds : ValidPrompt(ds[i])}) IN
    /\ Room(Len(ds))
    /\ m_prompt_descriptions' = m_prompt_descriptions \o kept
    /\ Added("prompt", ds, container, container = "array" \/ kept # ds)
    /\ UNCHANGED <<m_tool_descriptions, m_resource_descriptions, m_tools>>

(* One resource object throws; anything else is added as it is. *)
addResourcesJson(d, container) ==
    LET kept == IF container = "object" THEN <<>> ELSE <<NotObject>> IN
    /\ Room(1)
    /\ m_resource_descriptions' = m_resource_descriptions \o kept
    /\ Added("resource", <<d>>, container, container = "object")
    /\ UNCHANGED <<m_tool_descriptions, m_prompt_descriptions, m_tools>>

(* emplace: the first method bound to a name stays. *)
addTool(name, method) ==
    /\ m_tools' = IF method # NoMethod /\ m_tools[name] = NoMethod
                  THEN [m_tools EXCEPT ![name] = method] ELSE m_tools
    /\ call' = [NoCall EXCEPT !.kind = "bind", !.thrown = method = NoMethod]
    /\ UNCHANGED lists

-----------------------------------------------------------------------------
Pairs(S) == {<<a, b>> : a \in S, b \in S}

CatalogNext ==
    \/ \E d \in Tools : addToolDescription(d)
    \/ \E d \in Prompts : addPrompt(d)
    \/ \E d \in Resources : addResource(d) \/ \E c \in {"array", "object"} : addResourcesJson(d, c)
    \/ \E n \in ToolNames, m \in Methods \cup {NoMethod} : addTool(n, m)

(* Calls with several descriptions, from a smaller set *)
BatchNext(tools, prompts, resources) ==
    \/ \E ds \in Pairs(tools) :
          addToolDescriptions(ds) \/ \E c \in {"array", "object"} : addToolDescriptionsJson(ds, c)
    \/ \E ds \in Pairs(prompts) :
          addPrompts(ds) \/ \E c \in {"array", "object"} : addPromptsJson(ds, c)
    \/ \E ds \in Pairs(resources) : addResources(ds)

CatalogSpec ==
    CatalogInit /\ [][CatalogNext \/ BatchNext(Tools, Prompts, Resources)]_catalogVars

-----------------------------------------------------------------------------
(* Properties *)

(* A description that means something to a client, by its nodes: each node *)
(* that an array or an object leads to, however deep, is there, is an      *)
(* object and has a type.                                                  *)
Children(node) ==
    IF node.type = "array" THEN {node.items}
    ELSE IF node.type # "object" \/ node.properties = Missing THEN {}
    ELSE IF node.properties = NotObject THEN {NotObject}
    ELSE {node.properties[p] : p \in DOMAIN node.properties}

Below(node) ==
    LET level[k \in 0..MaxDepth] ==
            IF k = 0 THEN Children(node)
            ELSE UNION {Children(n) : n \in {x \in level[k - 1] : IsObject(x)}}
    IN  UNION {level[k] : k \in 0..MaxDepth}

(* A JSON value is finite: following its nodes ends. *)
ASSUME NodesAssumption ==
    /\ MaxDepth \in Nat
    /\ \A k \in 0..MaxDepth : \A node \in Nodes[k] : \A c \in Children(node) :
          HasType(c) => k > 0 /\ c \in Nodes[k - 1]
    /\ \A tool \in Tools :
          IsObject(tool.inputSchema) /\ IsObject(tool.inputSchema.properties) =>
              \A p \in DOMAIN tool.inputSchema.properties :
                  LET node == tool.inputSchema.properties[p]
                  IN  HasType(node) => node \in Nodes[MaxDepth]

SoundTool(tool) ==
    /\ {tool.name, tool.description} = {"text"}
    /\ IsObject(tool.inputSchema)
    /\ LET schema == tool.inputSchema IN
       /\ schema.type = "object" /\ IsObject(schema.properties)
       /\ \A p \in DOMAIN schema.properties :
             LET node == schema.properties[p] IN
             /\ IsObject(node)
             /\ node.type \in ValidTypes /\ node.description # "other"
             /\ \A n \in Below(node) : HasType(n)
       /\ DOMAIN schema.properties # {} =>
             RequiredDefined(schema) /\ schema.additionalProperties # "other"

SoundPrompt(prompt) ==
    /\ {prompt.name, prompt.description} = {"text"}
    /\ prompt.arguments # NotArray
    /\ prompt.arguments # Missing =>
          ~\E i \in DOMAIN prompt.arguments :
              LET a == prompt.arguments[i] IN
              ~IsObject(a) \/ a.name # "text" \/ "other" \in {a.description, a.required}

SoundResource(r) == {r.uri, r.name} = {"text"} /\ "other" \notin {r.description, r.mimeType}

(* The overloads for a JSON value that throw whatever they are given: an   *)
(* array of descriptions, although McpService.h:60, 78 and 98 ask for      *)
(* that, and one resource object; and the one that looks at nothing.       *)
Refused ==
    IF call.kind = "resource" THEN call.container = "object" ELSE call.container = "array"
Unchecked == call.kind = "resource" /\ call.container = "array"

(* What a client can list is sound in all its nodes, except the resources  *)
(* that addResources(json) takes unseen, which are not even objects.       *)
ListsAreSound ==
    /\ \A i \in DOMAIN m_tool_descriptions : SoundTool(m_tool_descriptions[i])
    /\ \A i \in DOMAIN m_prompt_descriptions : SoundPrompt(m_prompt_descriptions[i])
    /\ \A i \in DOMAIN m_resource_descriptions :
          m_resource_descriptions[i] = NotObject \/ SoundResource(m_resource_descriptions[i])

(* Every other call adds the descriptions before its first unsound one,    *)
(* those and no others, and throws exactly if there is an unsound one; or  *)
(* it is one that throws and adds nothing.                                 *)
SoundAreAdded ==
    LET Sound(d) == CASE call.kind = "tool" -> SoundTool(d)
                      [] call.kind = "prompt" -> SoundPrompt(d)
                      [] call.kind = "resource" -> SoundResource(d)
        list == CASE call.kind = "tool" -> m_tool_descriptions
                  [] call.kind = "prompt" -> m_prompt_descriptions
                  [] call.kind = "resource" -> m_resource_descriptions
        n == Len(call.args)
    IN  call.kind \in {"tool", "prompt", "resource"} /\ ~Unchecked =>
            \E k \in 0..n :
                /\ \A i \in 1..k : Sound(call.args[i])
                /\ IF Refused THEN k = 0 /\ call.thrown
                   ELSE IF call.thrown THEN k < n /\ ~Sound(call.args[k + 1]) ELSE k = n
                /\ k <= Len(list)
                /\ SubSeq(list, Len(list) - k + 1, Len(list)) = SubSeq(call.args, 1, k)

(* Whatever calls registered it, what a client can list is sound, and the  *)
(* last call has added what it should.                                     *)
SoundAreListed == ListsAreSound /\ SoundAreAdded
=============================================================================
