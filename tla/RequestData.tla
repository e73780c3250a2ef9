----------------------------- MODULE RequestData -----------------------------
(***************************************************************************)
(* What a REST handler reads from its request and writes to its response:  *)
(* the query parameters and headers (httpd/HttpHandle.cpp), the document   *)
(* in the body and the document that is returned (httpd/RestHandle.cpp,    *)
(* where RestHandle and BizHandle do the same).                            *)
(*                                                                         *)
(* A target is a sequence of characters; "%61" and "%3D" stand for the     *)
(* escape sequences of a letter and of '='.  A header's value is the set   *)
(* of the names the code looks for in it.  A body is a document, the       *)
(* format it is written in and whether it is compressed.                   *)
(***************************************************************************)
EXTENDS Integers, FiniteSets, SequencesExt

CONSTANTS
    Requests,           \* what clients send: target, headers, body
    MAX_URL_LENGTH, MAX_QUERY_PARAMS,   \* 8192 and 100 in the code
    NoBody              \* an empty body

Formats == {"json", "msgpack", "cbor"}
Bodies == [doc : STRING, format : Formats \cup {"none"}, compressed : BOOLEAN]

ASSUME LimitsAssumption == MAX_URL_LENGTH \in Nat /\ MAX_QUERY_PARAMS \in Nat
ASSUME NoBodyAssumption == NoBody \notin Bodies

(* A body is a document in one of the formats, and Accept names media      *)
(* types.                                                                  *)
ASSUME RequestsAssumption ==
    \A r \in Requests :
        /\ r.target \in Seq(STRING)
        /\ r.body # NoBody => r.body \in Bodies /\ r.body.doc # "invalid" /\ r.body.format \in Formats
        /\ "Accept" \in DOMAIN r.headers =>
              r.headers["Accept"] \subseteq
                  {"application/json", "application/msgpack", "application/cbor", "text/html"}

VARIABLES
    request,    \* the request in hand
    params,     \* what getQueryParams returns of it
    req,        \* the document that before_run has found in it
    response,   \* the headers and the body that have been written
    stage

dataVars == <<request, params, req, response, stage>>

NoResponse == [headers |-> <<>>, body |-> NoBody]

DataInit ==
    /\ request = [target |-> <<>>, headers |-> <<>>, body |-> NoBody]
    /\ params = [status |-> "ok", found |-> <<>>]
    /\ req = "null"
    /\ response = NoResponse
    /\ stage = "idle"

-----------------------------------------------------------------------------
(* The query: one pass over its characters *)

url_unescape(text) ==
    [i \in DOMAIN text |-> CASE text[i] = "%61" -> "a" [] text[i] = "%3D" -> "="
                             [] OTHER -> text[i]]

(* len characters from a position on, which may reach past the end *)
Text(query, from, len) ==
    [i \in 1..len |-> IF from + i - 1 <= Len(query) THEN query[from + i - 1] ELSE "beyond"]

ScanStart == [state |-> "key", key |-> 1, key_len |-> 0, value |-> 1, value_len |-> 0,
              count |-> 0, found |-> <<>>, status |-> "ok"]

(* Fault: the number of parameters is not limited. *)
EndParam_Unlimited(query, s) ==
    LET key == url_unescape(Text(query, s.key, s.key_len))
        value == url_unescape(Text(query, s.value, s.value_len))
    IN  IF s.key_len = 0 THEN s
        ELSE IF s.value_len = 0 THEN [s EXCEPT !.status = "BIZ_BASE_INVALID_URL"]
        ELSE [s EXCEPT !.found = [k \in DOMAIN s.found \cup {key} |->
                                     IF k = key THEN value ELSE s.found[k]]]

(* At '&' and at the end: a parameter needs a key and a value; one without *)
(* a key is skipped, one without a value refused.                          *)
EndParam(query, s) ==
    LET key == url_unescape(Text(query, s.key, s.key_len))
        value == url_unescape(Text(query, s.value, s.value_len))
    IN  IF s.key_len = 0 THEN s
        ELSE IF s.value_len = 0 THEN [s EXCEPT !.status = "BIZ_BASE_INVALID_URL"]
        ELSE IF s.count = MAX_QUERY_PARAMS
             THEN [s EXCEPT !.status = "BIZ_BASE_TOO_MANY_QUERY_PARAMS"]
        ELSE [s EXCEPT !.count = @ + 1,
                       !.found = [k \in DOMAIN s.found \cup {key} |->
                                     IF k = key THEN value ELSE s.found[k]]]

ScanChar(query, s, i) ==
    IF s.status # "ok" THEN s
    ELSE CASE query[i] = "&" -> [EndParam(query, s) EXCEPT !.state = "key", !.key = i + 1,
                                                           !.key_len = 0, !.value_len = 0]
           [] query[i] = "=" -> [s EXCEPT !.state = "value", !.value = i + 1]
           [] OTHER -> IF s.state = "key" THEN [s EXCEPT !.key_len = @ + 1]
                       ELSE [s EXCEPT !.value_len = @ + 1]

Scan(query) ==
    LET s[i \in 0..Len(query)] ==
            IF i = 0 THEN ScanStart ELSE ScanChar(query, s[i - 1], i)
        end == s[Len(query)]
    IN  IF end.status = "ok" THEN EndParam(query, end) ELSE end

(* The query of a target, from its first '?' on *)
Query(target) ==
    LET i == SelectInSeq(target, LAMBDA c : c = "?") IN
    IF i = 0 THEN <<>> ELSE SubSeq(target, i + 1, Len(target))

getQueryParams(target) ==
    IF Len(target) > MAX_URL_LENGTH THEN [status |-> "BIZ_BASE_TOO_LONG_URL", found |-> <<>>]
    ELSE LET s == Scan(Query(target)) IN
         [status |-> s.status, found |-> IF s.status = "ok" THEN s.found ELSE <<>>]

-----------------------------------------------------------------------------
(* Headers and bodies *)

(* Names are compared as they are spelled. *)
getReqHeader(name) == IF name \in DOMAIN request.headers THEN request.headers[name] ELSE {}

(* The bytes that before_run gets.  What decompressing other bytes leaves  *)
(* behind when it fails is not known.                                      *)
getReqData ==
    IF getReqHeader("Content-Encoding") # {"gzip"} THEN {request.body}
    ELSE IF request.body # NoBody /\ request.body.compressed
         THEN {[request.body EXCEPT !.compressed = FALSE]}
    ELSE {NoBody, [doc |-> "other", format |-> "none", compressed |-> FALSE]}

(* Reading bytes in another format fails, or finds another document. *)
Parse(format, data) ==
    IF data.format = format /\ ~data.compressed THEN {data.doc} ELSE {"invalid", "other"}

ContentFormat ==
    LET type == getReqHeader("Content-Type") IN
    CASE "application/json" \in type -> "json"
      [] "application/json" \notin type /\ "application/msgpack" \in type -> "msgpack"
      [] type \cap {"application/json", "application/msgpack"} = {}
         /\ "application/cbor" \in type -> "cbor"
      [] OTHER -> "json"

ReplyFormat ==
    LET accept == getReqHeader("Accept") IN
    CASE "application/msgpack" \in accept -> "msgpack"
      [] "application/msgpack" \notin accept /\ "application/cbor" \in accept -> "cbor"
      [] OTHER -> "json"

-----------------------------------------------------------------------------
Receive(r) ==
    /\ stage = "idle"
    /\ request' = r
    /\ stage' = "before_run"
    /\ UNCHANGED <<params, req, response>>

before_run ==
    /\ stage = "before_run"
    /\ \E data \in getReqData :
          req' \in IF data = NoBody THEN {"null"} ELSE Parse(ContentFormat, data)
    /\ stage' = IF req' = "invalid" THEN "refused" ELSE "run"
    /\ UNCHANGED <<request, params, response>>

(* The handler, of an application: it reads the parameters and returns the *)
(* document that it was sent.                                              *)
run ==
    /\ stage = "run"
    /\ params' = getQueryParams(request.target)
    /\ stage' = "after_run"
    /\ UNCHANGED <<request, req, response>>

(* Only JSON texts of 10240 characters and more are compressed.  Encoding  *)
(* and compressing may throw, compressing after its header has been set.   *)
after_run ==
    LET zipped(long) == ReplyFormat = "json" /\ long /\ "gzip" \in getReqHeader("Accept-Encoding")
    IN
    /\ stage = "after_run"
    /\ \/ /\ \E long \in BOOLEAN :
                response' =
                    [headers |-> [name \in {"Content-Type"} \cup (IF zipped(long) THEN {"Content-Encoding"} ELSE {}) |->
                                     IF name = "Content-Type" THEN ReplyFormat ELSE "gzip"],
                     body |-> [doc |-> req, format |-> ReplyFormat, compressed |-> zipped(long)]]
          /\ stage' = "done"
       \/ /\ \E long \in BOOLEAN :
                response' = [headers |-> [name \in IF zipped(long) THEN {"Content-Encoding"} ELSE {} |-> "gzip"],
                             body |-> NoBody]
          /\ stage' = "failed"
    /\ UNCHANGED <<request, params, req>>

(* The answer to a request that was refused or could not be served; the    *)
(* headers set before stay.                                                *)
processError ==
    /\ stage \in {"refused", "failed"}
    /\ response' = [headers |-> [name \in {"Content-Type"} \cup DOMAIN response.headers |->
                                    IF name = "Content-Type" THEN "json" ELSE response.headers[name]],
                    body |-> [doc |-> "error", format |-> "json", compressed |-> FALSE]]
    /\ stage' = "error"
    /\ UNCHANGED <<request, params, req>>

DataNext == (\E r \in Requests : Receive(r)) \/ before_run \/ run \/ after_run \/ processError

DataSpec == DataInit /\ [][DataNext]_dataVars

-----------------------------------------------------------------------------
(* Properties *)

(* The parts of a query, by the position each starts at *)
Starts(query) == {1} \cup {i + 1 : i \in {j \in DOMAIN query : query[j] = "&"}}
Part(query, start) ==
    LET ends == {i \in start..Len(query) : query[i] = "&"} IN
    SubSeq(query, start, IF ends = {} THEN Len(query) ELSE Min(ends) - 1)
Signs(part) == {i \in DOMAIN part : part[i] = "="}
Name(part) == IF Signs(part) = {} THEN part ELSE SubSeq(part, 1, Min(Signs(part)) - 1)
ValueOf(part) == IF Signs(part) = {} THEN <<>> ELSE SubSeq(part, Min(Signs(part)) + 1, Len(part))

(* The parameters of a query are its parts that have a name and a value,   *)
(* the later one where two have the same name; a part with a name and no   *)
(* value, or one parameter too many, makes the first of them the error.    *)
ParamsOf(query) ==
    LET N(s) == Name(Part(query, s))
        V(s) == ValueOf(Part(query, s))
        named == {s \in Starts(query) : N(s) # <<>>}
        bare == {s \in named : V(s) = <<>>}
        excess == {s \in named \ bare :
                      Cardinality({t \in named \ bare : t <= s}) > MAX_QUERY_PARAMS}
        keys == {url_unescape(N(s)) : s \in named}
        last(k) == CHOOSE s \in named : url_unescape(N(s)) = k
                      /\ \A t \in named : url_unescape(N(t)) = k => t <= s
    IN  IF bare \cup excess = {}
        THEN [status |-> "ok", found |-> [k \in keys |-> url_unescape(V(last(k)))]]
        ELSE [status |-> IF Min(bare \cup excess) \in bare THEN "BIZ_BASE_INVALID_URL"
                         ELSE "BIZ_BASE_TOO_MANY_QUERY_PARAMS",
              found |-> <<>>]

(* A handler reads the query's parameters when no value holds a '='. *)
ParamsFound ==
    stage \in {"after_run", "done"}
        => LET query == Query(request.target) IN
           IF Len(request.target) > MAX_URL_LENGTH
           THEN params = [status |-> "BIZ_BASE_TOO_LONG_URL", found |-> <<>>]
           ELSE (\A s \in Starts(query) : Cardinality(Signs(Part(query, s))) <= 1)
                   => params = ParamsOf(query)

MediaType(format) ==
    CASE format = "json" -> "application/json"
      [] format = "msgpack" -> "application/msgpack"
      [] format = "cbor" -> "application/cbor"

(* A client that describes its body truly, in header names of the usual    *)
(* spelling.                                                               *)
Describes(r) ==
    LET value(name) == IF name \in DOMAIN r.headers THEN r.headers[name] ELSE {}
    IN  /\ DOMAIN r.headers \subseteq {"Content-Type", "Content-Encoding", "Accept", "Accept-Encoding"}
        /\ r.body # NoBody =>
              \/ value("Content-Type") = {MediaType(r.body.format)}
              \/ r.body.format = "json" /\ value("Content-Type") = {}
        /\ value("Content-Encoding") = {"gzip"} <=> r.body # NoBody /\ r.body.compressed

(* Such a client's document reaches the handler, and the response that     *)
(* carries the handler's document back is one that it accepts and that the *)
(* headers describe.  Nothing is said of an answer that could not be       *)
(* encoded: when compressing throws, the error text that processError      *)
(* sends plain is still announced as gzip.                                 *)
DocumentsExchanged ==
    Describes(request) =>
        LET doc == IF request.body = NoBody THEN "null" ELSE request.body.doc
            accepted(name) == IF name \in DOMAIN request.headers THEN request.headers[name] ELSE {}
        IN  /\ stage # "refused"
            /\ stage \in {"run", "after_run", "done"} => req = doc
            /\ stage = "done" =>
                  /\ response.body.doc = doc
                  /\ response.headers["Content-Type"] = response.body.format
                  /\ \/ MediaType(response.body.format) \in accepted("Accept")
                     \/ /\ response.body.format = "json"
                        /\ accepted("Accept") \subseteq {"application/json", "text/html"}
                  /\ response.body.compressed = ("Content-Encoding" \in DOMAIN response.headers)
                  /\ response.body.compressed => "gzip" \in accepted("Accept-Encoding")

(* A request is understood: its parameters, and its document both ways. *)
RequestUnderstood == ParamsFound /\ DocumentsExchanged
=============================================================================
