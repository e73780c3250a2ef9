-------------------------------- MODULE Router --------------------------------
(***************************************************************************)
(* Router and WebSocketRouter (httpd/Router.cpp): the routes of an         *)
(* HttpServer, in the order they were registered, and the route that       *)
(* answers a request.                                                      *)
(*                                                                         *)
(* A path is a sequence of characters, of which the code looks at two: the *)
(* '?' that ends the path of a request's target and the '*' that ends a    *)
(* wildcard route.  A handler is the position of its route.                *)
(***************************************************************************)
EXTENDS Naturals, Sequences

CONSTANTS
    Verbs,          \* the request methods
    RoutePaths,     \* the paths that may be registered
    Targets,        \* the targets that may be requested
    Characters,     \* of which paths are made
    QueryMark, Star,    \* the characters '?' and '*'
    MaxRoutes       \* bound: registrations

ASSUME RouterAssumption ==
    /\ RoutePaths \cup Targets \subseteq Seq(Characters)
    /\ MaxRoutes \in Nat

VARIABLES
    routes,     \* Router's m_routes
    ws_routes   \* WebSocketRouter's m_routes

routerVars == <<routes, ws_routes>>

RouterInit == routes = <<>> /\ ws_routes = <<>>

-----------------------------------------------------------------------------
(* The path of a target, without its query *)
PathOnly(target) ==
    LET marks == {i \in DOMAIN target : target[i] = QueryMark} IN
    IF marks = {} THEN target
    ELSE SubSeq(target, 1, (CHOOSE i \in marks : \A j \in marks : i <= j) - 1)

Exact(rs, method, path) ==
    {i \in DOMAIN rs : rs[i].method = method /\ rs[i].path = path}

(* The routes whose path ends in a star, with a prefix of the request's    *)
(* path before it.                                                         *)
Wildcard(rs, method, path) ==
    {i \in DOMAIN rs :
        LET n == Len(rs[i].path) IN
        /\ rs[i].method = method
        /\ n > 0 /\ rs[i].path[n] = Star
        /\ Len(path) >= n - 1
        /\ \A k \in 1..(n - 1) : path[k] = rs[i].path[k]}

(* Fault: the last match answers. *)
FirstOf_Last(S) == IF S = {} THEN 0 ELSE CHOOSE i \in S : \A j \in S : i >= j

(* A loop over the routes returns the first that matches; 0 is nullptr. *)
FirstOf(S) == IF S = {} THEN 0 ELSE CHOOSE i \in S : \A j \in S : i <= j

findHandler(rs, method, target) ==
    LET path == PathOnly(target)
        exact == Exact(rs, method, path)
    IN  IF exact # {} THEN FirstOf(exact) ELSE FirstOf(Wildcard(rs, method, path))

(* The connection has taken the query from the target already. *)
findWsHandler(rs, path) == FirstOf({i \in DOMAIN rs : rs[i] = path})

-----------------------------------------------------------------------------
registerHttpHandle(method, path) ==
    /\ Len(routes) + Len(ws_routes) < MaxRoutes
    /\ routes' = Append(routes, [method |-> method, path |-> path])
    /\ UNCHANGED ws_routes

registerWsHandle(path) ==
    /\ Len(routes) + Len(ws_routes) < MaxRoutes
    /\ ws_routes' = Append(ws_routes, path)
    /\ UNCHANGED routes

RouterNext ==
    \/ \E method \in Verbs, path \in RoutePaths : registerHttpHandle(method, path)
    \/ \E path \in RoutePaths : registerWsHandle(path)

RouterSpec == RouterInit /\ [][RouterNext]_routerVars

-----------------------------------------------------------------------------
(* Properties *)

IsWildcard(path) == path # <<>> /\ path[Len(path)] = Star

(* The answer to a request after a registration is the answer before it,   *)
(* or the new route: when the request had no answer, or when an exact      *)
(* route takes it from a wildcard of another path.                         *)
HttpAnswerKept(method, target) ==
    LET old == findHandler(routes, method, target)
        new == findHandler(routes', method, target)
    IN  \/ new = old
        \/ /\ new = Len(routes') /\ new \notin DOMAIN routes
           /\ \/ old = 0
              \/ /\ routes'[new].path = PathOnly(target)
                 /\ old \in DOMAIN routes /\ IsWildcard(routes[old].path)
                 /\ routes[old].path # PathOnly(target)

WsAnswerKept(path) ==
    LET old == findWsHandler(ws_routes, path)
        new == findWsHandler(ws_routes', path)
    IN  new = old \/ (old = 0 /\ new = Len(ws_routes'))

(* A registration never takes a request from the handler that answers it,  *)
(* except an exact route from a wildcard.                                  *)
AnswersKept ==
    [][/\ \A method \in Verbs, target \in Targets : HttpAnswerKept(method, target)
       /\ \A target \in Targets : WsAnswerKept(PathOnly(target))]_routerVars
=============================================================================
