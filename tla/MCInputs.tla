------------------------------- MODULE MCInputs -------------------------------
(***************************************************************************)
(* The parts of the server that decide about an input on its own, side by  *)
(* side: every behaviour exercises one of them, its subject, and leaves    *)
(* the others in their initial state.                                      *)
(***************************************************************************)
EXTENDS Router, AccessControl, RequestData, TextMessages, McpCatalog

CONSTANT Subjects   \* the parts that are exercised

VARIABLE subject

(* Schemas up to three levels deep, with a mistake in any one place *)
Leaf(type) == [type |-> type, items |-> Missing, properties |-> Missing, description |-> "missing"]
ArrayOf(node) == [Leaf("array") EXCEPT !.items = node]
ObjectOf(properties) == [Leaf("object") EXCEPT !.properties = properties]
Deeper(nodes) ==
    nodes \cup {ArrayOf(n) : n \in nodes} \cup {ObjectOf(("p" :> n)) : n \in nodes}
          \cup {ObjectOf(NotObject)}
McValues[k \in 0..MaxDepth] ==
    IF k = 0 THEN {NotObject} \cup
                  {Leaf(t) : t \in {"string", "date", "missing", "other", "array", "object"}}
    ELSE Deeper(McValues[k - 1])
McDescribedLeaves == {[Leaf("string") EXCEPT !.description = d] : d \in {"text", "other"}}
McNodes == [k \in 0..MaxDepth |-> (McValues[k] \ {NotObject}) \cup McDescribedLeaves]

Schema(node) == [type |-> "object", properties |-> ("a" :> node), required |-> Missing,
                 additionalProperties |-> "missing"]
SomeSchema == Schema(Leaf("string"))
McSchemas ==
    {Schema(n) : n \in McNodes[MaxDepth] \cup {NotObject}} \cup {NotObject, Missing}
    \cup {[SomeSchema EXCEPT !.type = "string"], [SomeSchema EXCEPT !.properties = NotObject],
          [SomeSchema EXCEPT !.properties = Missing], [SomeSchema EXCEPT !.properties = <<>>]}
    \cup {[SomeSchema EXCEPT !.required = r] : r \in {NotArray, {"a"}, {"a", "b"}, {NotString}}}
    \cup {[SomeSchema EXCEPT !.additionalProperties = a] : a \in {"boolean", "other"}}

SomeTool == [name |-> "text", description |-> "text", inputSchema |-> SomeSchema]
McTools ==
    {[SomeTool EXCEPT !.inputSchema = s] : s \in McSchemas}
    \cup {[SomeTool EXCEPT !.name = x] : x \in {"missing", "other", "empty"}}
    \cup {[SomeTool EXCEPT !.description = x] : x \in {"missing", "other", "empty"}}
McSomeTools == {SomeTool, [SomeTool EXCEPT !.inputSchema = Schema(ArrayOf(ArrayOf(Leaf("string"))))],
                [SomeTool EXCEPT !.name = "empty"]}

McArguments ==
    {NotObject} \cup [name : {"text", "missing"}, description : {"text", "missing", "other"},
                     required : {"boolean", "other"}]
SomePrompt == [name |-> "text", description |-> "text", arguments |-> Missing]
McPrompts ==
    {[SomePrompt EXCEPT !.arguments = a] :
        a \in {Missing, NotArray, <<>>} \cup {<<x>> : x \in McArguments}}
    \cup {[SomePrompt EXCEPT !.arguments = <<x, NotObject>>] : x \in McArguments}
    \cup {[SomePrompt EXCEPT !.name = "other"], [SomePrompt EXCEPT !.description = "empty"]}
McSomePrompts == {SomePrompt, [SomePrompt EXCEPT !.arguments = NotArray]}

McResources == [uri : {"text", "empty"}, name : {"text", "missing"},
                description : {"text", "missing", "other"}, mimeType : {"missing", "other"}]
McSomeResources == {r \in McResources : r.mimeType = "missing" /\ r.description = "text"}

vars == <<routerVars, m_access_control, dataVars, messageVars, catalogVars, subject>>

Init ==
    /\ RouterInit /\ AccessInit /\ DataInit /\ MessageInit /\ CatalogInit
    /\ subject \in Subjects

RouterStep == subject = "router" /\ RouterNext
              /\ UNCHANGED <<m_access_control, dataVars, messageVars, catalogVars, subject>>
AccessStep == subject = "access" /\ AccessNext
              /\ UNCHANGED <<routerVars, dataVars, messageVars, catalogVars, subject>>
DataStep == subject = "data" /\ DataNext
            /\ UNCHANGED <<routerVars, m_access_control, messageVars, catalogVars, subject>>
TextStep == subject = "text" /\ MessageNext
            /\ UNCHANGED <<routerVars, m_access_control, dataVars, catalogVars, subject>>
CatalogStep == subject = "catalog" /\ (CatalogNext \/ BatchNext(McSomeTools, McSomePrompts, McSomeResources))
               /\ UNCHANGED <<routerVars, m_access_control, dataVars, messageVars, subject>>

Next == RouterStep \/ AccessStep \/ DataStep \/ TextStep \/ CatalogStep

Spec == Init /\ [][Next]_vars

-----------------------------------------------------------------------------
(* Paths of up to two characters, with and without a star or a query *)
McCharacters == {"a", "b", "*", "?"}
McStrings(n) == UNION {[1..k -> {"a", "b"}] : k \in 0..n}
McRoutePaths ==
    (McStrings(2) \ {<<"b", "b">>, <<"b", "a">>})
    \cup {Append(p, "*") : p \in {<<>>, <<"a">>, <<"a", "b">>}} \cup {<<"a", "?">>}
McTargets ==
    McStrings(2) \cup {<<"a", "b", "b">>, <<"a", "*">>, <<"?">>}
    \cup {<<"a", "?", "b">>, <<"a", "b", "?", "?">>}

(* Subnets of four-bit addresses in both notations, invalid ones among     *)
(* them, and configurations with both and with single addresses            *)
Six == {1, 2}
Eight == {3}
Eleven == {0, 1, 3}
McCidrs == [network : {{}, Six, Eleven} \cup Texts, prefix : -1..(Width + 1)]
McDotted == {[cidr |-> NoConfig, network |-> n, mask |-> m] :
                n \in {{}, Six, Eight}, m \in {{}, {3}, {2, 3}, {1, 2, 3}}}
McConfigs ==
    {[enabled |-> TRUE, strict_mode |-> strict, allowed_ips |-> {ip},
      allowed_subnets |-> {d, Cidr([network |-> Eleven, prefix |-> p])}] :
        strict \in BOOLEAN, ip \in {{1}} \cup Texts, d \in McDotted, p \in {2, 5}}

(* All queries of up to four characters and those of up to four parts of   *)
(* the following kinds, of a client without a body; and all ways of        *)
(* describing a body.                                                      *)
McParts == {<<>>, <<"a">>, <<"a", "=">>, <<"=", "a">>, <<"a", "=", "b">>, <<"%61", "=", "%3D">>,
            <<"b", "=", "a", "a">>, <<"a", "=", "a", "=", "b">>}
Joined(parts) ==
    FlattenSeq([i \in 1..(2 * Len(parts) - 1) |->
                   IF i % 2 = 1 THEN parts[(i + 1) \div 2] ELSE <<"&">>])
McQueries ==
    UNION {[1..n -> {"&", "=", "a", "%61", "%3D"}] : n \in 0..4}
    \cup {Joined(parts) : parts \in UNION {[1..n -> McParts] : n \in 1..4}}
McBare == [headers : {<<>>}, body : {NoBody},
           target : {<<"?">> \o q : q \in McQueries} \cup {<<"a", "?", "a", "=", "?">>, <<"a">>}]

MediaTypes == {"application/json", "application/msgpack", "application/cbor"}
McHeaderSets ==
    {h \in [type : {{}, {"text/html"}} \cup {{t} : t \in MediaTypes},
            accept : SUBSET MediaTypes, zip : BOOLEAN, unzips : BOOLEAN, spelled : BOOLEAN] :
        Cardinality(h.accept) <= 2}

(* A header that has no value is not sent.  A client may spell the names   *)
(* in small letters.                                                       *)
McHeaders(h) ==
    LET sent == {n \in {"Content-Type", "Content-Encoding", "Accept", "Accept-Encoding"} :
                    CASE n = "Content-Type" -> h.type # {}
                      [] n = "Content-Encoding" -> h.zip
                      [] n = "Accept" -> h.accept # {}
                      [] n = "Accept-Encoding" -> h.unzips}
        Value(n) == CASE n = "Content-Type" -> h.type
                      [] n = "Accept" -> h.accept
                      [] OTHER -> {"gzip"}
        Small(n) == CASE n = "Content-Type" -> "content-type"
                      [] n = "Content-Encoding" -> "content-encoding"
                      [] n = "Accept" -> "accept"
                      [] n = "Accept-Encoding" -> "accept-encoding"
    IN  IF h.spelled THEN [n \in sent |-> Value(n)]
        ELSE [s \in {Small(n) : n \in sent} |-> Value(CHOOSE n \in sent : Small(n) = s)]

McBodies == {NoBody} \cup
            [doc : {"document"}, format : {"json", "msgpack", "cbor"}, compressed : BOOLEAN]
McDescribed == {[target |-> <<"a">>, headers |-> McHeaders(h), body |-> b] :
                   h \in McHeaderSets, b \in McBodies}

McRequests == McBare \cup McDescribed

(* The bytes at the bounds in the code *)
McBytes == {7, 10, 65, 127, 128, 141, 144, 160, 193, 194, 224, 237, 240, 244, 245}
=============================================================================
