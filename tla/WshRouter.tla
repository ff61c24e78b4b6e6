------------------------------ MODULE WshRouter ------------------------------
(***************************************************************************)
(* A router of RPC messages (pkg/wshutil/wshrouter.go): links to clients   *)
(* and to other routers, the table of routes, the way of a request to the  *)
(* link of its route and of its answers back, the backlog of a link that   *)
(* takes no more, and the routes announced to the router upstream.  The    *)
(* peers at the far ends of the links are WshRpc clients and servers.      *)
(* One of the links is the router's own control RPC, to which a link       *)
(* authenticates itself before anything else it sends is passed on.        *)
(***************************************************************************)
EXTENDS Integers, Sequences, SequencesExt

CONSTANTS
    Links, NoLink, Control, Upstream,
    Routes, ControlRoute,
    Requests,           \* the commands the peers send, each once
    From, To,           \* the link a request is sent on and the route it names
    Binds,              \* the route a request to ControlRoute authenticates its link for
    OutSize,            \* capacity of a client's channel: 32 in the code
    InputSize,          \* RouterInputChQueueSize: 100 in the code
    Streams,            \* the requests that may have one answer more before the last
    MaxCloses           \* bound: how many links are unregistered

ToControl == {q \in Requests : To[q] = ControlRoute}

ASSUME RouterAssumption ==
    /\ NoLink \notin Links /\ {Control, Upstream} \subseteq Links /\ Control # Upstream
    /\ ControlRoute \in Routes
    /\ From \in [Requests -> Links \ {Control}] /\ To \in [Requests -> Routes]
    /\ Binds \in [ToControl -> Routes \ {ControlRoute}]
    /\ OutSize \in Nat \ {0} /\ InputSize \in Nat \ {0}
    /\ Streams \subseteq Requests \ ToControl /\ MaxCloses \in Nat

VARIABLES
    link,         \* linkMap: trusted or not; "gone" when unregistered
    routeMap,
    rpcMap,       \* the link to send the answers of a request to
    inputCh,
    serving,      \* runServer: a command that has been sent on, not yet registered
    wire,         \* sent by the peer, not yet received (FromRemoteCh)
    out,          \* the client's channel to the peer (ToRemoteCh)
    backlog,      \* linkMsgBacklog
    upstreamBuf,  \* queued for the router upstream
    auth,         \* the control RPC's handler of a request to authenticate
    unbinding,    \* UnregisterLink: the routes still to be unbound
    reports,      \* handlers about to announce or unannounce a route
    received,     \* history: what each peer was given
    routed,       \* history: what the router has decided to send on each link
    asked, begun, finished, closes    \* the peers

tableVars == <<link, routeMap, unbinding, reports>>
queueVars == <<wire, inputCh, serving, rpcMap>>
sendVars  == <<out, backlog, routed>>
peerVars  == <<received, asked, begun, finished, closes>>
vars == <<tableVars, queueVars, sendVars, upstreamBuf, auth, peerVars>>

Init ==
    /\ link = [l \in Links |-> IF l \in {Control, Upstream} THEN "trusted" ELSE "untrusted"]
    /\ routeMap = [r \in Routes |-> IF r = ControlRoute THEN Control ELSE NoLink]
    /\ rpcMap = [q \in Requests |-> NoLink]
    /\ inputCh = <<>> /\ serving = <<>> /\ upstreamBuf = <<>>
    /\ wire = [l \in Links |-> <<>>] /\ out = [l \in Links |-> <<>>]
    /\ backlog = [l \in Links |-> <<>>]
    /\ auth = [q \in ToControl |-> "none"]
    /\ unbinding = [l \in Links |-> [on |-> FALSE, routes |-> {}]] /\ reports = {}
    /\ received = [l \in Links |-> <<>>] /\ routed = [l \in Links |-> <<>>]
    /\ asked = {} /\ begun = {} /\ finished = {} /\ closes = 0

Open(l) == link[l] # "gone"
Request(q) == [kind |-> "request", id |-> q]
Answer(q, last) == [kind |-> "answer", id |-> q, last |-> last]
Error(q) == [kind |-> "error", id |-> q]

\* getLinkForRoute, and the router upstream for a route that is not known here.
Destination(r) ==
    IF r # ControlRoute /\ (routeMap[r] = NoLink \/ ~Open(routeMap[r]))
    THEN IF Open(Upstream) THEN Upstream ELSE NoLink
    ELSE routeMap[r]

-----------------------------------------------------------------------------
(* Sending on a link never blocks.                                         *)

\* Mutant: the channel is tried although earlier messages wait in the backlog.
SendPastBacklog(l, m) ==
    /\ routed' = [routed EXCEPT ![l] = Append(@, m)]
    /\ IF Len(out[l]) < OutSize
       THEN out' = [out EXCEPT ![l] = Append(@, m)] /\ UNCHANGED backlog
       ELSE backlog' = [backlog EXCEPT ![l] = Append(@, m)] /\ UNCHANGED out

\* sendRpcMessageToLink
SendTo(l, m) ==
    /\ routed' = [routed EXCEPT ![l] = Append(@, m)]
    /\ IF backlog[l] = <<>> /\ Len(out[l]) < OutSize
       THEN out' = [out EXCEPT ![l] = Append(@, m)] /\ UNCHANGED backlog
       ELSE backlog' = [backlog EXCEPT ![l] = Append(@, m)] /\ UNCHANGED out

\* Mutant: a backlog is sent when all of it fits.
FittingWhole(l) == IF Len(backlog[l]) <= OutSize - Len(out[l]) THEN Len(backlog[l]) ELSE 0

\* drainLinkBacklog_withLock: as many as the channel takes; nothing is left of a link that is gone.
Fitting(l) ==
    LET room == OutSize - Len(out[l]) IN IF Len(backlog[l]) < room THEN Len(backlog[l]) ELSE room
Drained(l) == IF Open(l) THEN SubSeq(backlog[l], Fitting(l) + 1, Len(backlog[l])) ELSE <<>>

ProcessOneBacklogRound ==
    /\ \E l \in Links : backlog[l] # <<>> /\ (Fitting(l) > 0 \/ ~Open(l))
    /\ backlog' = [l \in Links |-> Drained(l)]
    /\ out' = [l \in Links |-> IF Open(l) THEN out[l] \o SubSeq(backlog[l], 1, Fitting(l)) ELSE out[l]]
    /\ UNCHANGED <<tableVars, queueVars, routed, upstreamBuf, auth, peerVars>>

-----------------------------------------------------------------------------
(* runLinkClientRecvLoop, one for each link.  A message that waits for     *)
(* room on inputCh counts as not yet received: its link stays trusted, and *)
(* the request it answers stays known until its last answer, meanwhile.    *)

\* What the loop passes on: everything on a trusted link, requests to the control route and
\* answers to requests that the router knows on any other.
Passes(l, m) ==
    \/ link[l] = "trusted"
    \/ m.kind = "request" /\ To[m.id] = ControlRoute
    \/ m.kind = "answer" /\ rpcMap[m.id] # NoLink

RecvRpcMessage(l) ==
    /\ Open(l) /\ wire[l] # <<>> /\ Len(inputCh) < InputSize
    /\ wire' = [wire EXCEPT ![l] = Tail(@)]
    /\ IF Passes(l, Head(wire[l]))
       THEN inputCh' = Append(inputCh, [msg |-> Head(wire[l]), from |-> l]) /\ UNCHANGED sendVars
       ELSE /\ inputCh' = inputCh
            /\ IF Head(wire[l]).kind = "request"
               THEN SendTo(l, Error(Head(wire[l]).id))    \* sendControlUnauthenticatedErrorResponse
               ELSE UNCHANGED sendVars
    /\ UNCHANGED <<tableVars, serving, rpcMap, upstreamBuf, auth, peerVars>>

-----------------------------------------------------------------------------
(* runServer                                                               *)

\* handleNoRoute answers to the source of the command, by route.
SourceOf(l) ==
    LET own == {r \in Routes : routeMap[r] = l} IN
        IF own # {} /\ Open(l) THEN l ELSE IF Open(Upstream) THEN Upstream ELSE NoLink

\* A command goes to the link of its route; the way back is registered in a step of its own.
ServeCommand ==
    /\ serving = <<>> /\ inputCh # <<>> /\ Head(inputCh).msg.kind = "request"
    /\ inputCh' = Tail(inputCh)
    /\ LET q == Head(inputCh).msg.id
           from == Head(inputCh).from IN
           IF Destination(To[q]) # NoLink
           THEN SendTo(Destination(To[q]), Request(q)) /\ serving' = <<q, from>>
           ELSE /\ serving' = serving
                /\ IF SourceOf(from) = NoLink THEN UNCHANGED sendVars ELSE SendTo(SourceOf(from), Error(q))
    /\ UNCHANGED <<tableVars, wire, rpcMap, upstreamBuf, auth, peerVars>>

\* Mutant: the destination is stored in the place of the link.
RegisterDestination ==
    /\ serving # <<>>
    /\ rpcMap' = [rpcMap EXCEPT ![serving[1]] = To[serving[1]]]
    /\ serving' = <<>>
    /\ UNCHANGED <<tableVars, wire, inputCh, sendVars, upstreamBuf, auth, peerVars>>

RegisterRouteInfo ==
    /\ serving # <<>>
    /\ rpcMap' = [rpcMap EXCEPT ![serving[1]] = serving[2]]
    /\ serving' = <<>>
    /\ UNCHANGED <<tableVars, wire, inputCh, sendVars, upstreamBuf, auth, peerVars>>

\* Mutant: an answer is routed to the source of the request.
WayBackByRoute(q) == IF rpcMap[q] = NoLink THEN NoLink ELSE SourceOf(rpcMap[q])

\* An answer goes back on the link the request came in on.
WayBack(q) == rpcMap[q]

ServeAnswer ==
    /\ serving = <<>> /\ inputCh # <<>> /\ Head(inputCh).msg.kind = "answer"
    /\ inputCh' = Tail(inputCh)
    /\ LET m == Head(inputCh).msg
           l == WayBack(m.id) IN
           /\ IF l # NoLink /\ Open(l) THEN SendTo(l, m) ELSE UNCHANGED sendVars
           /\ rpcMap' = IF m.last THEN [rpcMap EXCEPT ![m.id] = NoLink] ELSE rpcMap
    /\ UNCHANGED <<tableVars, wire, serving, upstreamBuf, auth, peerVars>>

-----------------------------------------------------------------------------
(* Routes.  Binding and announcing are two steps, and so are unbinding and *)
(* unannouncing; both only queue for the router upstream.                  *)

\* Authenticate...Command, handled by the control RPC: trustLink,
ControlTrusts(q) ==
    /\ q \in ToControl /\ auth[q] = "none" /\ Contains(received[Control], Request(q))
    /\ link' = [link EXCEPT ![From[q]] = IF Open(From[q]) THEN "trusted" ELSE @]
    /\ auth' = [auth EXCEPT ![q] = "trusted"]
    /\ UNCHANGED <<routeMap, unbinding, reports, queueVars, sendVars, upstreamBuf, peerVars>>

\* and bindRoute, which fails when the link is gone by now.
ControlBinds(q) ==
    LET l == From[q]  r == Binds[q] IN
        /\ q \in ToControl /\ auth[q] = "trusted"
        /\ auth' = [auth EXCEPT ![q] = "bound"]
        /\ IF Open(l)
           THEN /\ routeMap' = [routeMap EXCEPT ![r] = l]
                /\ reports' = reports \cup {[kind |-> "announce", id |-> r, by |-> l]}
           ELSE UNCHANGED <<routeMap, reports>>
        /\ UNCHANGED <<link, unbinding, queueVars, sendVars, upstreamBuf, peerVars>>

\* UnregisterLink, when the connection behind the link has ended: collect the routes,
UnregisterLink(l) ==
    /\ Open(l) /\ ~unbinding[l].on /\ l # Control /\ closes < MaxCloses
    /\ closes' = closes + 1
    /\ unbinding' = [unbinding EXCEPT ![l] = [on |-> TRUE, routes |-> {r \in Routes : routeMap[r] = l}]]
    /\ UNCHANGED <<link, routeMap, reports, queueVars, sendVars, upstreamBuf, auth, received, asked,
                   begun, finished>>

\* unbindRouteLocally
Unbound(l, r) == [routeMap EXCEPT ![r] = IF @ = l THEN NoLink ELSE @]

\* unbindRoute goes on to unannounce the route, whether it was this link's or not.
Unannounced(l, r) == reports \cup {[kind |-> "unannounce", id |-> r, by |-> l]}

\* unbind each,
UnbindRoute(l, r) ==
    /\ unbinding[l].on /\ r \in unbinding[l].routes
    /\ unbinding' = [unbinding EXCEPT ![l].routes = @ \ {r}]
    /\ routeMap' = Unbound(l, r)
    /\ reports' = Unannounced(l, r)
    /\ UNCHANGED <<link, queueVars, sendVars, upstreamBuf, auth, peerVars>>

\* and forget the link.
DeleteLink(l) ==
    /\ unbinding[l].on /\ unbinding[l].routes = {} /\ Open(l)
    /\ \A rep \in reports : rep.by = l => rep.kind # "unannounce"
    /\ link' = [link EXCEPT ![l] = "gone"]
    /\ UNCHANGED <<routeMap, unbinding, reports, queueVars, sendVars, upstreamBuf, auth, peerVars>>

\* announceUpstream and unannounceUpstream: queueUpstreamMessage
QueueUpstream(rep) ==
    /\ rep \in reports
    /\ reports' = reports \ {rep}
    /\ upstreamBuf' = IF Open(Upstream) THEN Append(upstreamBuf, [kind |-> rep.kind, id |-> rep.id])
                      ELSE upstreamBuf
    /\ UNCHANGED <<link, routeMap, unbinding, queueVars, sendVars, auth, peerVars>>

\* runUpstreamBufferLoop
SendUpstream ==
    /\ upstreamBuf # <<>>
    /\ upstreamBuf' = Tail(upstreamBuf)
    /\ IF Open(Upstream) THEN SendTo(Upstream, Head(upstreamBuf)) ELSE UNCHANGED sendVars
    /\ UNCHANGED <<tableVars, queueVars, auth, peerVars>>

-----------------------------------------------------------------------------
(* The peers: WshRpc (wshrpc.go).                                          *)

Got(l, m) == Contains(received[l], m)
Settled(q) == Got(From[q], Answer(q, TRUE)) \/ Got(From[q], Error(q))

\* SendComplexRequest.  The router upstream passes on requests for routes it was told of; one
\* that comes back, because the route has gone meanwhile, it answers itself (with an error).
PeerAsks(q) ==
    /\ q \notin asked /\ Open(From[q])
    /\ From[q] = Upstream => Got(Upstream, [kind |-> "announce", id |-> To[q]])
    /\ asked' = asked \cup {q}
    /\ wire' = [wire EXCEPT ![From[q]] = Append(@, Request(q))]
    /\ UNCHANGED <<tableVars, inputCh, serving, rpcMap, sendVars, upstreamBuf, auth, received,
                   begun, finished, closes>>

PeerReceives(l) ==
    /\ Open(l) /\ out[l] # <<>>
    /\ out' = [out EXCEPT ![l] = Tail(@)]
    /\ received' = [received EXCEPT ![l] = Append(@, Head(out[l]))]
    /\ UNCHANGED <<tableVars, queueVars, backlog, routed, upstreamBuf, auth, asked, begun, finished, closes>>

\* RpcResponseHandler.SendResponse; the control RPC answers when its handler has returned.
PeerAnswers(l, q) ==
    /\ Open(l) /\ Got(l, Request(q)) /\ q \notin finished
    /\ q \in ToControl => /\ auth[q] = "bound"
                          /\ \A rep \in reports : rep.kind = "announce" => rep.by # From[q]
    /\ \E last \in BOOLEAN :
          /\ last \/ q \in Streams \ begun
          /\ begun' = begun \cup {q}
          /\ finished' = IF last THEN finished \cup {q} ELSE finished
          /\ wire' = [wire EXCEPT ![l] = Append(@, Answer(q, last))]
    /\ UNCHANGED <<tableVars, inputCh, serving, rpcMap, sendVars, upstreamBuf, auth, received,
                   asked, closes>>

-----------------------------------------------------------------------------
RouterStep ==
    \/ ServeCommand \/ RegisterRouteInfo \/ ServeAnswer \/ ProcessOneBacklogRound \/ SendUpstream
    \/ \E l \in Links : \/ RecvRpcMessage(l) \/ DeleteLink(l)
                        \/ \E r \in Routes : UnbindRoute(l, r)
    \/ \E q \in ToControl : ControlTrusts(q) \/ ControlBinds(q)
    \/ \E rep \in reports : QueueUpstream(rep)

PeerStep == \E l \in Links : PeerReceives(l) \/ \E q \in Requests : PeerAnswers(l, q)

Next == RouterStep \/ PeerStep \/ (\E q \in Requests : PeerAsks(q)) \/ (\E l \in Links : UnregisterLink(l))

\* Fairness: the router's goroutines go on, the peers read what they are sent and answer what
\* they are asked.  Nobody has to ask anything, and no link has to close.
Spec == Init /\ [][Next]_vars /\ WF_vars(RouterStep) /\ WF_vars(PeerStep)

-----------------------------------------------------------------------------
Messages ==
    [kind : {"request", "error"}, id : Requests] \cup [kind : {"answer"}, id : Requests, last : BOOLEAN]
        \cup [kind : {"announce", "unannounce"}, id : Routes]

\* Type invariant of the router (type WshRouter).
WrTypeOK ==
    /\ link \in [Links -> {"untrusted", "trusted", "gone"}]
    /\ routeMap \in [Routes -> Links \cup {NoLink}] /\ rpcMap \in [Requests -> Links \cup {NoLink}]
    /\ inputCh \in Seq([msg : Messages, from : Links]) /\ Len(inputCh) <= InputSize
    /\ wire \in [Links -> Seq(Messages)] /\ backlog \in [Links -> Seq(Messages)]
    /\ out \in [Links -> Seq(Messages)] /\ \A l \in Links : Len(out[l]) <= OutSize
    /\ upstreamBuf \in Seq(Messages)
    /\ auth \in [ToControl -> {"none", "trusted", "bound"}]

\* A backlog changes nothing for the peer: what it has been given, what waits in its channel
\* and what waits in the backlog are together what was sent to it, in the order it was sent.
NothingOvertaken ==
    \A l \in Links : Open(l) => received[l] \o out[l] \o backlog[l] = routed[l]

\* An answer is sent to the link its request came from and to no other, whatever happens to the
\* routes meanwhile, and nothing follows the last answer.
AnswersGoHome ==
    \A l \in Links : \A i \in 1 .. Len(routed[l]) :
        routed[l][i].kind = "answer" =>
            /\ From[routed[l][i].id] = l
            /\ \A k \in i + 1 .. Len(routed[l]) :
                  routed[l][i].last => routed[l][k] # [routed[l][i] EXCEPT !.last = FALSE]

\* A request is answered: by its last answer or an error, as long as no link is closed.
RequestsSettle == \A q \in Requests : (q \in asked) ~> (Settled(q) \/ closes > 0)
=============================================================================
