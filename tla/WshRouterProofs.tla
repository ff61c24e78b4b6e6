--------------------------- MODULE WshRouterProofs ---------------------------
(***************************************************************************)
(* The router, for any links, routes and requests, any capacities and any  *)
(* number of closed links: a backlog changes nothing for the peer behind   *)
(* it, and an answer goes back on the link its request came in on.         *)
(***************************************************************************)
EXTENDS WshRouter, SequenceTheorems, TLAPS

Inputs == [msg : Messages, from : Links]

\* The type invariant, with the variables that TLC's need not look at.
Typed ==
    /\ WrTypeOK
    /\ received \in [Links -> Seq(Messages)] /\ routed \in [Links -> Seq(Messages)]
    /\ serving = <<>> \/ serving \in Requests \X Links
    /\ unbinding \in [Links -> [on : BOOLEAN, routes : SUBSET Routes]]
    /\ reports \subseteq [kind : {"announce", "unannounce"}, id : Routes, by : Links]

\* What is on its way to the peer of a link.
Pending(l) == out[l] \o backlog[l]

-----------------------------------------------------------------------------
(* Sequences.                                                              *)

\* A message appended to the second part is appended to the whole.
LEMMA AppendConcat ==
    ASSUME NEW S, NEW a \in Seq(S), NEW b \in Seq(S), NEW m \in S
    PROVE  a \o Append(b, m) = Append(a \o b, m)
<1>1. <<m>> \in Seq(S) /\ a \o b \in Seq(S)
  BY ConcatProperties
<1>2. Append(b, m) = b \o <<m>> /\ Append(a \o b, m) = (a \o b) \o <<m>>
  BY <1>1, AppendIsConcat
<1> QED BY <1>1, <1>2, ConcatAssociative

\* The first of the second part may as well be the last of the first.
LEMMA HeadMoves ==
    ASSUME NEW S, NEW a \in Seq(S), NEW b \in Seq(S), NEW c \in Seq(S), b # <<>>
    PROVE  Append(a, Head(b)) \o (Tail(b) \o c) = a \o (b \o c)
<1> DEFINE h == Head(b)  t == Tail(b)
<1>1. h \in S /\ t \in Seq(S) /\ <<h>> \in Seq(S)
  BY HeadTailProperties
<1>2. b = <<h>> \o t
  OBVIOUS
<1> HIDE DEF h, t
<1>3. Append(a, h) = a \o <<h>>
  BY <1>1, AppendIsConcat
<1>4. t \o c \in Seq(S)
  BY <1>1, ConcatProperties
<1>5. (a \o <<h>>) \o (t \o c) = a \o (<<h>> \o (t \o c))
  <2> DEFINE u == <<h>>  v == t \o c
  <2> HIDE DEF u, v
  <2>1. u \in Seq(S) /\ v \in Seq(S)
    BY <1>1, <1>4 DEF u, v
  <2>2. (a \o u) \o v = a \o (u \o v)
    BY <2>1, ConcatAssociative, SMTT(30)
  <2> QED BY <2>2 DEF u, v
<1>6. <<h>> \o (t \o c) = b \o c
  BY <1>1, <1>2, ConcatAssociative
<1> QED BY <1>3, <1>5, <1>6 DEF h, t

\* Any number of messages may move at once.
LEMMA CutMoves ==
    ASSUME NEW S, NEW a \in Seq(S), NEW b \in Seq(S), NEW n \in 0 .. Len(b)
    PROVE  /\ SubSeq(b, 1, n) \in Seq(S) /\ SubSeq(b, n + 1, Len(b)) \in Seq(S)
           /\ (a \o SubSeq(b, 1, n)) \o SubSeq(b, n + 1, Len(b)) = a \o b
<1>1. Len(b) \in Nat /\ n \in Nat
  BY LenProperties
<1>2. SubSeq(b, 1, n) \in Seq(S) /\ SubSeq(b, n + 1, Len(b)) \in Seq(S)
  BY <1>1
<1>3. SubSeq(b, 1, n) \o SubSeq(b, n + 1, Len(b)) = SubSeq(b, 1, Len(b))
  <2>1. 1 \in 1 .. Len(b) + 1 /\ n \in 1 - 1 .. Len(b) /\ Len(b) \in n .. Len(b)
    BY <1>1
  <2> QED BY <2>1, ConcatAdjacentSubSeq
<1>4. SubSeq(b, 1, Len(b)) = b
  BY SubSeqFull
<1> DEFINE p == SubSeq(b, 1, n)  q == SubSeq(b, n + 1, Len(b))
<1>5. p \in Seq(S) /\ q \in Seq(S)
  BY <1>2
<1>6. p \o q = b
  BY <1>3, <1>4
<1> HIDE DEF p, q
<1>7. (a \o p) \o q = a \o (p \o q)
  BY <1>5, ConcatAssociative
<1> QED BY <1>2, <1>6, <1>7, Zenon DEF p, q

-----------------------------------------------------------------------------
(* Messages and links.                                                     *)

\* What the router and its peers make up is a message, and a message names what it is about.
LEMMA MessageForms ==
    /\ \A q \in Requests : /\ Request(q) \in Messages /\ Error(q) \in Messages
                           /\ \A last \in BOOLEAN : Answer(q, last) \in Messages
    /\ \A r \in Routes : \A kind \in {"announce", "unannounce"} :
         [kind |-> kind, id |-> r] \in Messages
    /\ \A m \in Messages : m.kind \in {"request", "error", "answer"} => m.id \in Requests
    /\ \A m \in Messages : /\ m.kind = "request" => m = Request(m.id)
                           /\ m.kind = "answer" => m.last \in BOOLEAN /\ m = Answer(m.id, m.last)
BY DEF Messages, Request, Error, Answer

\* Requests name links and routes that exist.
LEMMA RequestForms ==
    /\ \A q \in Requests : From[q] \in Links /\ To[q] \in Routes
    /\ \A q \in ToControl : q \in Requests /\ Binds[q] \in Routes
    /\ Control \in Links /\ Upstream \in Links /\ NoLink \notin Links
    /\ ControlRoute \in Routes
BY RouterAssumption DEF ToControl

\* A route leads to a link or to none, and so does the way back to the source of a command.
LEMMA Directions ==
    ASSUME Typed
    PROVE  /\ \A r \in Routes : Destination(r) \in Links \cup {NoLink}
           /\ \A l \in Links : SourceOf(l) \in Links \cup {NoLink}
BY RequestForms DEF Typed, WrTypeOK, Destination, SourceOf

\* sendRpcMessageToLink puts the message behind whatever waits for its link already.
LEMMA SentTo ==
    ASSUME Typed, NEW l \in Links, NEW m \in Messages, SendTo(l, m)
    PROVE  /\ out' \in [Links -> Seq(Messages)] /\ backlog' \in [Links -> Seq(Messages)]
           /\ routed' \in [Links -> Seq(Messages)]
           /\ \A i \in Links : Len(out'[i]) <= OutSize
           /\ \A i \in Links : i # l => out'[i] = out[i] /\ backlog'[i] = backlog[i] /\ routed'[i] = routed[i]
           /\ routed'[l] = Append(routed[l], m)
           /\ Pending(l)' = Append(Pending(l), m)
<1>1. /\ out \in [Links -> Seq(Messages)] /\ backlog \in [Links -> Seq(Messages)]
      /\ routed \in [Links -> Seq(Messages)] /\ \A i \in Links : Len(out[i]) <= OutSize
      /\ OutSize \in Nat
  BY RouterAssumption DEF Typed, WrTypeOK
<1>2. routed' = [routed EXCEPT ![l] = Append(@, m)]
  BY DEF SendTo
<1>3. routed' \in [Links -> Seq(Messages)] /\ routed'[l] = Append(routed[l], m)
      /\ \A i \in Links : i # l => routed'[i] = routed[i]
  BY <1>1, <1>2, AppendProperties
<1>4. CASE backlog[l] = <<>> /\ Len(out[l]) < OutSize
  <2>1. out' = [out EXCEPT ![l] = Append(@, m)] /\ backlog' = backlog
    BY <1>4 DEF SendTo
  <2>2. Append(out[l], m) \in Seq(Messages) /\ Len(Append(out[l], m)) = Len(out[l]) + 1
    BY <1>1, AppendProperties
  <2>3. Pending(l)' = Append(out[l], m) \o <<>>
    BY <1>1, <1>4, <2>1 DEF Pending
  <2>4. Pending(l)' = Append(out[l], m) /\ Pending(l) = out[l]
    BY <1>1, <1>4, <2>2, <2>3, ConcatEmptySeq DEF Pending
  <2>5. Len(out[l]) + 1 <= OutSize
    BY <1>1, <1>4, LenProperties
  <2> QED BY <1>1, <1>3, <2>1, <2>2, <2>4, <2>5
<1>5. CASE ~(backlog[l] = <<>> /\ Len(out[l]) < OutSize)
  <2>1. backlog' = [backlog EXCEPT ![l] = Append(@, m)] /\ out' = out
    BY <1>5 DEF SendTo
  <2>2. Append(backlog[l], m) \in Seq(Messages)
    BY <1>1, AppendProperties
  <2>3. Pending(l)' = out[l] \o Append(backlog[l], m)
    BY <1>1, <2>1 DEF Pending
  <2>4. Pending(l)' = Append(Pending(l), m)
    BY <1>1, <2>3 DEF Pending
  <2> QED BY <1>1, <1>3, <2>1, <2>2, <2>4
<1> QED BY <1>4, <1>5

-----------------------------------------------------------------------------
(* Types.                                                                  *)

\* What the steps of the router preserve of the types.
LEMMA RouterTyped ==
    ASSUME Typed, RouterStep
    PROVE  Typed'
<1>1. /\ link \in [Links -> {"untrusted", "trusted", "gone"}]
      /\ routeMap \in [Routes -> Links \cup {NoLink}] /\ rpcMap \in [Requests -> Links \cup {NoLink}]
      /\ inputCh \in Seq(Inputs) /\ Len(inputCh) <= InputSize
      /\ wire \in [Links -> Seq(Messages)] /\ backlog \in [Links -> Seq(Messages)]
      /\ out \in [Links -> Seq(Messages)] /\ \A l \in Links : Len(out[l]) <= OutSize
      /\ upstreamBuf \in Seq(Messages) /\ auth \in [ToControl -> {"none", "trusted", "bound"}]
      /\ received \in [Links -> Seq(Messages)] /\ routed \in [Links -> Seq(Messages)]
      /\ serving = <<>> \/ serving \in Requests \X Links
      /\ unbinding \in [Links -> [on : BOOLEAN, routes : SUBSET Routes]]
      /\ reports \subseteq [kind : {"announce", "unannounce"}, id : Routes, by : Links]
      /\ InputSize \in Nat /\ OutSize \in Nat
  BY RouterAssumption DEF Typed, WrTypeOK, Inputs
<1>2. ASSUME \/ UNCHANGED sendVars
             \/ \E l \in Links, m \in Messages : SendTo(l, m)
      PROVE  /\ out' \in [Links -> Seq(Messages)] /\ backlog' \in [Links -> Seq(Messages)]
             /\ routed' \in [Links -> Seq(Messages)] /\ \A l \in Links : Len(out'[l]) <= OutSize
  BY <1>1, <1>2, SentTo DEF sendVars
<1>3. ASSUME inputCh # <<>>
      PROVE  /\ Tail(inputCh) \in Seq(Inputs) /\ Len(Tail(inputCh)) <= InputSize
             /\ Head(inputCh).msg \in Messages /\ Head(inputCh).from \in Links
  <2>1. Head(inputCh) \in Inputs /\ Tail(inputCh) \in Seq(Inputs) /\ Len(Tail(inputCh)) = Len(inputCh) - 1
    BY <1>1, <1>3, HeadTailProperties
  <2>2. Len(inputCh) \in Nat
    BY <1>1, LenProperties
  <2>3. Len(Tail(inputCh)) <= InputSize
    BY <1>1, <2>1, <2>2
  <2> QED BY <2>1, <2>3 DEF Inputs
<1>4. CASE ServeCommand
  <2> DEFINE q == Head(inputCh).msg.id  from == Head(inputCh).from
  <2>1. q \in Requests /\ from \in Links
    BY <1>3, <1>4, MessageForms DEF ServeCommand
  <2>2. serving' = serving \/ serving' = <<q, from>>
    BY <1>4 DEF ServeCommand
  <2>3. UNCHANGED sendVars \/ \E l \in Links, m \in Messages : SendTo(l, m)
    <3>1. Destination(To[q]) \in Links \cup {NoLink} /\ SourceOf(from) \in Links \cup {NoLink}
          /\ Request(q) \in Messages /\ Error(q) \in Messages
      BY <2>1, Directions, RequestForms, MessageForms
    <3> QED BY <1>4, <3>1 DEF ServeCommand
  <2>4. inputCh' = Tail(inputCh) /\ inputCh # <<>>
        /\ UNCHANGED <<tableVars, wire, rpcMap, upstreamBuf, auth, peerVars>>
    BY <1>4 DEF ServeCommand
  <2>5. serving' = <<>> \/ serving' \in Requests \X Links
    BY <1>1, <2>1, <2>2
  <2> HIDE DEF q, from
  <2> QED BY <1>1, <1>2, <1>3, <2>3, <2>4, <2>5 DEF Typed, WrTypeOK, Inputs, tableVars, peerVars
<1>5. CASE RegisterRouteInfo
  <2>1. serving[1] \in Requests /\ serving[2] \in Links
    BY <1>1, <1>5 DEF RegisterRouteInfo
  <2>2. rpcMap' = [rpcMap EXCEPT ![serving[1]] = serving[2]] /\ serving' = <<>>
        /\ UNCHANGED <<tableVars, wire, inputCh, sendVars, upstreamBuf, auth, peerVars>>
    BY <1>5 DEF RegisterRouteInfo
  <2> QED BY <1>1, <2>1, <2>2 DEF Typed, WrTypeOK, Inputs, tableVars, sendVars, peerVars
<1>6. CASE ServeAnswer
  <2> DEFINE m == Head(inputCh).msg
  <2>1. inputCh # <<>> /\ inputCh' = Tail(inputCh) /\ m.kind = "answer"
        /\ (rpcMap' = rpcMap \/ rpcMap' = [rpcMap EXCEPT ![m.id] = NoLink])
        /\ (UNCHANGED sendVars \/ (rpcMap[m.id] # NoLink /\ SendTo(rpcMap[m.id], m)))
        /\ UNCHANGED <<tableVars, wire, serving, upstreamBuf, auth, peerVars>>
    BY <1>6 DEF ServeAnswer, WayBack
  <2>2. m \in Messages /\ m.id \in Requests
    BY <1>3, <2>1, MessageForms
  <2> HIDE DEF m
  <2>3. UNCHANGED sendVars \/ \E l \in Links, x \in Messages : SendTo(l, x)
    BY <1>1, <2>1, <2>2
  <2> QED BY <1>1, <1>2, <1>3, <2>1, <2>2, <2>3 DEF Typed, WrTypeOK, Inputs, tableVars, peerVars
<1>7. CASE ProcessOneBacklogRound
  <2>1. \A l \in Links :
          /\ Drained(l) \in Seq(Messages)
          /\ Open(l) => /\ out[l] \o SubSeq(backlog[l], 1, Fitting(l)) \in Seq(Messages)
                        /\ Len(out[l] \o SubSeq(backlog[l], 1, Fitting(l))) <= OutSize
    <3> TAKE l \in Links
    <3>1. out[l] \in Seq(Messages) /\ backlog[l] \in Seq(Messages) /\ Len(out[l]) \in Nat
          /\ Len(backlog[l]) \in Nat /\ Len(out[l]) <= OutSize
      BY <1>1, LenProperties
    <3>2. Fitting(l) \in Nat /\ Fitting(l) <= Len(backlog[l]) /\ Len(out[l]) + Fitting(l) <= OutSize
      BY <1>1, <3>1 DEF Fitting
    <3>3. /\ SubSeq(backlog[l], 1, Fitting(l)) \in Seq(Messages)
          /\ Len(SubSeq(backlog[l], 1, Fitting(l))) = Fitting(l)
          /\ SubSeq(backlog[l], Fitting(l) + 1, Len(backlog[l])) \in Seq(Messages)
      BY <3>1, <3>2, SubSeqProperties, SMTT(30)
    <3> HIDE DEF Fitting
    <3> QED BY <1>1, <3>1, <3>2, <3>3, ConcatProperties, SMTT(30) DEF Drained
  <2>2. UNCHANGED <<tableVars, queueVars, routed, upstreamBuf, auth, peerVars>>
        /\ backlog' = [l \in Links |-> Drained(l)]
        /\ out' = [l \in Links |-> IF Open(l) THEN out[l] \o SubSeq(backlog[l], 1, Fitting(l)) ELSE out[l]]
    BY <1>7 DEF ProcessOneBacklogRound
  <2> QED BY <1>1, <2>1, <2>2 DEF Typed, WrTypeOK, Inputs, tableVars, queueVars, peerVars
<1>8. CASE SendUpstream
  <2>1. upstreamBuf' \in Seq(Messages) /\ Head(upstreamBuf) \in Messages
    BY <1>1, <1>8, HeadTailProperties DEF SendUpstream
  <2>2. UNCHANGED sendVars \/ \E l \in Links, x \in Messages : SendTo(l, x)
    BY <1>8, <2>1, RequestForms DEF SendUpstream
  <2>3. UNCHANGED <<tableVars, queueVars, auth, peerVars>>
    BY <1>8 DEF SendUpstream
  <2> QED BY <1>1, <1>2, <2>1, <2>2, <2>3 DEF Typed, WrTypeOK, Inputs, tableVars, queueVars, peerVars
<1>9. ASSUME NEW l \in Links, RecvRpcMessage(l) PROVE Typed'
  <2>1. wire[l] \in Seq(Messages) /\ wire[l] # <<>> /\ wire' = [wire EXCEPT ![l] = Tail(@)]
    BY <1>1, <1>9 DEF RecvRpcMessage
  <2>2. Head(wire[l]) \in Messages /\ Tail(wire[l]) \in Seq(Messages)
    BY <2>1, HeadTailProperties
  <2> DEFINE m == Head(wire[l])  in == [msg |-> m, from |-> l]
  <2>3. in \in Inputs /\ (m.kind = "request" => Error(m.id) \in Messages)
    BY <2>2, MessageForms DEF Inputs
  <2>4. /\ inputCh' = inputCh \/ (inputCh' = Append(inputCh, in) /\ Len(inputCh) < InputSize)
        /\ UNCHANGED sendVars \/ (m.kind = "request" /\ SendTo(l, Error(m.id)))
        /\ UNCHANGED <<tableVars, serving, rpcMap, upstreamBuf, auth, peerVars>>
    BY <1>9 DEF RecvRpcMessage
  <2>5. inputCh' \in Seq(Inputs) /\ Len(inputCh') <= InputSize
    <3>1. Append(inputCh, in) \in Seq(Inputs) /\ Len(Append(inputCh, in)) = Len(inputCh) + 1
      BY <1>1, <2>3, AppendProperties
    <3>2. Len(inputCh) \in Nat
      BY <1>1, LenProperties
    <3> HIDE DEF in, m
    <3>3. CASE inputCh' = inputCh
      BY <1>1, <3>3
    <3>4. CASE inputCh' = Append(inputCh, in) /\ Len(inputCh) < InputSize
      <4>1. Len(inputCh) + 1 <= InputSize
        BY <1>1, <3>2, <3>4
      <4> QED BY <3>1, <3>4, <4>1
    <3> QED BY <2>4, <3>3, <3>4
  <2>6. UNCHANGED sendVars \/ \E x \in Messages : SendTo(l, x)
    BY <2>3, <2>4
  <2> HIDE DEF m, in
  <2> QED BY <1>1, <1>2, <2>1, <2>2, <2>4, <2>5, <2>6 DEF Typed, WrTypeOK, Inputs, tableVars, peerVars
<1>10. ASSUME NEW l \in Links, DeleteLink(l) PROVE Typed'
  <2>1. link' = [link EXCEPT ![l] = "gone"]
        /\ UNCHANGED <<routeMap, unbinding, reports, queueVars, sendVars, upstreamBuf, auth, peerVars>>
    BY <1>10 DEF DeleteLink
  <2> QED BY <1>1, <2>1 DEF Typed, WrTypeOK, Inputs, queueVars, sendVars, peerVars
<1>11. ASSUME NEW l \in Links, NEW r \in Routes, UnbindRoute(l, r) PROVE Typed'
  <2>1. /\ unbinding' = [unbinding EXCEPT ![l].routes = @ \ {r}]
        /\ routeMap' = [routeMap EXCEPT ![r] = IF @ = l THEN NoLink ELSE @]
        /\ reports' = reports \cup {[kind |-> "unannounce", id |-> r, by |-> l]}
        /\ UNCHANGED <<link, queueVars, sendVars, upstreamBuf, auth, peerVars>>
    BY <1>11 DEF UnbindRoute, Unbound, Unannounced
  <2>2. unbinding' \in [Links -> [on : BOOLEAN, routes : SUBSET Routes]]
    BY <1>1, <2>1, Zenon
  <2>3. reports' \subseteq [kind : {"announce", "unannounce"}, id : Routes, by : Links]
    BY <1>1, <2>1
  <2>4. routeMap' \in [Routes -> Links \cup {NoLink}]
    BY <1>1, <2>1
  <2> QED BY <1>1, <2>1, <2>2, <2>3, <2>4 DEF Typed, WrTypeOK, Inputs, queueVars, sendVars, peerVars
<1>12. ASSUME NEW q \in ToControl, ControlTrusts(q) PROVE Typed'
  <2>1. /\ link' = [link EXCEPT ![From[q]] = IF Open(From[q]) THEN "trusted" ELSE @]
        /\ auth' = [auth EXCEPT ![q] = "trusted"]
        /\ UNCHANGED <<routeMap, unbinding, reports, queueVars, sendVars, upstreamBuf, peerVars>>
    BY <1>12 DEF ControlTrusts
  <2> QED BY <1>1, <2>1 DEF Typed, WrTypeOK, Inputs, queueVars, sendVars, peerVars
<1>13. ASSUME NEW q \in ToControl, ControlBinds(q) PROVE Typed'
  <2>1. /\ auth' = [auth EXCEPT ![q] = "bound"]
        /\ \/ UNCHANGED <<routeMap, reports>>
           \/ /\ routeMap' = [routeMap EXCEPT ![Binds[q]] = From[q]]
              /\ reports' = reports \cup {[kind |-> "announce", id |-> Binds[q], by |-> From[q]]}
        /\ UNCHANGED <<link, unbinding, queueVars, sendVars, upstreamBuf, peerVars>>
    BY <1>13 DEF ControlBinds
  <2>2. From[q] \in Links /\ Binds[q] \in Routes
    BY RequestForms
  <2>3. routeMap' \in [Routes -> Links \cup {NoLink}]
    BY <1>1, <2>1, <2>2
  <2>4. reports' \subseteq [kind : {"announce", "unannounce"}, id : Routes, by : Links]
    BY <1>1, <2>1, <2>2
  <2> QED BY <1>1, <2>1, <2>3, <2>4 DEF Typed, WrTypeOK, Inputs, queueVars, sendVars, peerVars
<1>14. ASSUME NEW rep \in reports, QueueUpstream(rep) PROVE Typed'
  <2>1. rep.kind \in {"announce", "unannounce"} /\ rep.id \in Routes
    BY <1>1
  <2>2. [kind |-> rep.kind, id |-> rep.id] \in Messages
    BY <2>1, MessageForms
  <2>3. upstreamBuf' \in Seq(Messages) /\ reports' \subseteq reports
    BY <1>1, <1>14, <2>2, AppendProperties DEF QueueUpstream
  <2>4. UNCHANGED <<link, routeMap, unbinding, queueVars, sendVars, auth, peerVars>>
    BY <1>14 DEF QueueUpstream
  <2> QED BY <1>1, <2>3, <2>4 DEF Typed, WrTypeOK, Inputs, queueVars, sendVars, peerVars
<1> QED BY <1>4, <1>5, <1>6, <1>7, <1>8, <1>9, <1>10, <1>11, <1>12, <1>13, <1>14 DEF RouterStep

\* Every step preserves the types.
LEMMA TypedStep == Typed /\ [Next]_vars => Typed'
<1> SUFFICES ASSUME Typed, [Next]_vars PROVE Typed'
  OBVIOUS
<1>1. /\ link \in [Links -> {"untrusted", "trusted", "gone"}]
      /\ wire \in [Links -> Seq(Messages)] /\ backlog \in [Links -> Seq(Messages)]
      /\ out \in [Links -> Seq(Messages)] /\ \A l \in Links : Len(out[l]) <= OutSize
      /\ received \in [Links -> Seq(Messages)] /\ routed \in [Links -> Seq(Messages)]
      /\ unbinding \in [Links -> [on : BOOLEAN, routes : SUBSET Routes]]
  BY DEF Typed, WrTypeOK
<1>2. ASSUME NEW l \in Links, PeerReceives(l) PROVE Typed'
  <2>1. /\ out[l] # <<>> /\ out' = [out EXCEPT ![l] = Tail(@)]
        /\ received' = [received EXCEPT ![l] = Append(@, Head(out[l]))]
        /\ UNCHANGED <<tableVars, queueVars, backlog, routed, upstreamBuf, auth>>
    BY <1>2 DEF PeerReceives
  <2>2. /\ Head(out[l]) \in Messages /\ Tail(out[l]) \in Seq(Messages)
        /\ Len(Tail(out[l])) = Len(out[l]) - 1 /\ Len(out[l]) \in Nat /\ Len(out[l]) <= OutSize
    BY <1>1, <2>1, HeadTailProperties, LenProperties
  <2>3. Append(received[l], Head(out[l])) \in Seq(Messages)
    BY <1>1, <2>2, AppendProperties
  <2>4. /\ out' \in [Links -> Seq(Messages)] /\ received' \in [Links -> Seq(Messages)]
    BY <1>1, <2>1, <2>2, <2>3
  <2>5. OutSize \in Nat
    BY RouterAssumption
  <2>6. Len(Tail(out[l])) <= OutSize
    BY <2>2, <2>5
  <2>7. \A i \in Links : Len(out'[i]) <= OutSize
    BY <1>1, <2>1, <2>6
  <2> QED BY <2>1, <2>4, <2>7 DEF Typed, WrTypeOK, tableVars, queueVars
<1>3. ASSUME NEW l \in Links, NEW q \in Requests, PeerAnswers(l, q) PROVE Typed'
  <2>1. PICK last \in BOOLEAN : wire' = [wire EXCEPT ![l] = Append(@, Answer(q, last))]
    BY <1>3 DEF PeerAnswers
  <2>2. wire' \in [Links -> Seq(Messages)]
    BY <1>1, <2>1, MessageForms, AppendProperties
  <2>3. UNCHANGED <<tableVars, inputCh, serving, rpcMap, sendVars, upstreamBuf, auth, received>>
    BY <1>3 DEF PeerAnswers
  <2> QED BY <2>2, <2>3 DEF Typed, WrTypeOK, tableVars, sendVars
<1>4. ASSUME NEW q \in Requests, PeerAsks(q) PROVE Typed'
  <2>1. wire' = [wire EXCEPT ![From[q]] = Append(@, Request(q))]
        /\ UNCHANGED <<tableVars, inputCh, serving, rpcMap, sendVars, upstreamBuf, auth, received>>
    BY <1>4 DEF PeerAsks
  <2>2. Request(q) \in Messages /\ From[q] \in Links
    BY MessageForms, RequestForms
  <2>3. wire' \in [Links -> Seq(Messages)]
    BY <1>1, <2>1, <2>2, AppendProperties
  <2> QED BY <2>1, <2>3 DEF Typed, WrTypeOK, tableVars, sendVars
<1>5. ASSUME NEW l \in Links, UnregisterLink(l) PROVE Typed'
  <2>1. unbinding' = [unbinding EXCEPT ![l] = [on |-> TRUE, routes |-> {r \in Routes : routeMap[r] = l}]]
        /\ UNCHANGED <<link, routeMap, reports, queueVars, sendVars, upstreamBuf, auth, received>>
    BY <1>5 DEF UnregisterLink
  <2>2. unbinding' \in [Links -> [on : BOOLEAN, routes : SUBSET Routes]]
    BY <1>1, <2>1
  <2> QED BY <2>1, <2>2 DEF Typed, WrTypeOK, queueVars, sendVars
<1>6. CASE UNCHANGED vars
  BY <1>6 DEF vars, tableVars, queueVars, sendVars, peerVars, Typed, WrTypeOK
<1> QED BY <1>2, <1>3, <1>4, <1>5, <1>6, RouterTyped DEF Next, PeerStep

\* The types the router starts with.
LEMMA InitTyped == Init => Typed
BY RequestForms, RouterAssumption, EmptySeq DEF Init, Typed, WrTypeOK

-----------------------------------------------------------------------------
(* Nothing is overtaken.                                                   *)

\* What a step does to what has been decided, is pending and has been given to the peers: it
\* sends one message, moves a backlog on, gives the peer the first pending message, or nothing.
LEMMA SendCases ==
    ASSUME Typed, [Next]_vars
    PROVE  \/ UNCHANGED <<sendVars, received>>
           \/ received' = received /\ \E l \in Links, m \in Messages : SendTo(l, m)
           \/ ProcessOneBacklogRound
           \/ \E l \in Links : PeerReceives(l)
<1> USE DEF peerVars
<1>1. CASE ServeCommand
  <2> DEFINE q == Head(inputCh).msg.id  from == Head(inputCh).from
  <2>1. Head(inputCh) \in [msg : Messages, from : Links] /\ Head(inputCh).msg.kind = "request"
    BY <1>1, HeadTailProperties DEF ServeCommand, Typed, WrTypeOK
  <2>2. q \in Requests /\ from \in Links
    BY <2>1, MessageForms
  <2>3. Destination(To[q]) \in Links \cup {NoLink} /\ SourceOf(from) \in Links \cup {NoLink}
        /\ Request(q) \in Messages /\ Error(q) \in Messages
    BY <2>2, Directions, RequestForms, MessageForms
  <2> QED BY <1>1, <2>3 DEF ServeCommand
<1>2. CASE ServeAnswer
  <2> DEFINE m == Head(inputCh).msg
  <2>1. Head(inputCh) \in [msg : Messages, from : Links] /\ m.kind = "answer"
        /\ rpcMap \in [Requests -> Links \cup {NoLink}]
    BY <1>2, HeadTailProperties DEF ServeAnswer, Typed, WrTypeOK
  <2>2. m \in Messages /\ m.id \in Requests
    BY <2>1, MessageForms
  <2>3. received' = received
        /\ (UNCHANGED sendVars \/ (rpcMap[m.id] # NoLink /\ SendTo(rpcMap[m.id], m)))
    BY <1>2 DEF ServeAnswer, WayBack
  <2> HIDE DEF m
  <2> QED BY <2>1, <2>2, <2>3
<1>3. CASE SendUpstream
  <2>1. Head(upstreamBuf) \in Messages
    BY <1>3, HeadTailProperties DEF SendUpstream, Typed, WrTypeOK
  <2> QED BY <1>3, <2>1, RequestForms DEF SendUpstream
<1>4. ASSUME NEW l \in Links, RecvRpcMessage(l)
      PROVE  \/ UNCHANGED <<sendVars, received>>
             \/ received' = received /\ \E i \in Links, m \in Messages : SendTo(i, m)
  <2>1. Head(wire[l]) \in Messages
    <3>1. wire[l] \in Seq(Messages) /\ wire[l] # <<>>
      BY <1>4 DEF RecvRpcMessage, Typed, WrTypeOK
    <3> QED BY <3>1, HeadTailProperties
  <2>2. Head(wire[l]).kind = "request" => Error(Head(wire[l]).id) \in Messages
    BY <2>1, MessageForms
  <2> QED BY <1>4, <2>2 DEF RecvRpcMessage
<1>5. CASE RegisterRouteInfo
  BY <1>5 DEF RegisterRouteInfo
<1>6. ASSUME NEW l \in Links, DeleteLink(l) \/ \E r \in Routes : UnbindRoute(l, r)
      PROVE  UNCHANGED <<sendVars, received>>
  BY <1>6 DEF DeleteLink, UnbindRoute
<1>7. ASSUME NEW q \in ToControl, ControlTrusts(q) \/ ControlBinds(q)
      PROVE  UNCHANGED <<sendVars, received>>
  BY <1>7 DEF ControlTrusts, ControlBinds
<1>8. ASSUME NEW rep \in reports, QueueUpstream(rep)
      PROVE  UNCHANGED <<sendVars, received>>
  BY <1>8 DEF QueueUpstream
<1>9. ASSUME NEW q \in Requests, PeerAsks(q) \/ \E l \in Links : PeerAnswers(l, q)
      PROVE  UNCHANGED <<sendVars, received>>
  BY <1>9 DEF PeerAsks, PeerAnswers
<1>10. ASSUME NEW l \in Links, UnregisterLink(l)
       PROVE  UNCHANGED <<sendVars, received>>
  BY <1>10 DEF UnregisterLink
<1>11. CASE UNCHANGED vars
  BY <1>11 DEF vars
<1> QED BY <1>1, <1>2, <1>3, <1>4, <1>5, <1>6, <1>7, <1>8, <1>9, <1>10, <1>11, Zenon
        DEF Next, RouterStep, PeerStep

\* A link that is gone stays gone.
LEMMA GoneStays ==
    ASSUME Typed, [Next]_vars, NEW l \in Links, ~Open(l)
    PROVE  ~Open(l)'
<1> USE DEF tableVars, Open
<1>1. link \in [Links -> {"untrusted", "trusted", "gone"}]
  BY DEF Typed, WrTypeOK
<1>2. ASSUME NEW q \in ToControl, ControlTrusts(q) PROVE ~Open(l)'
  BY <1>1, <1>2, RequestForms DEF ControlTrusts
<1>3. ASSUME NEW i \in Links, DeleteLink(i) PROVE ~Open(l)'
  BY <1>1, <1>3 DEF DeleteLink
<1>4. \/ link' = link
      \/ \E q \in ToControl : ControlTrusts(q)
      \/ \E i \in Links : DeleteLink(i)
  BY DEF Next, RouterStep, PeerStep, ServeCommand, RegisterRouteInfo, ServeAnswer,
         ProcessOneBacklogRound, SendUpstream, RecvRpcMessage, UnbindRoute, ControlBinds,
         QueueUpstream, PeerReceives, PeerAnswers, PeerAsks, UnregisterLink, vars
<1> QED BY <1>1, <1>2, <1>3, <1>4

\* A round moves the head of a backlog behind what waits in the channel.
LEMMA RoundPending ==
    ASSUME Typed, ProcessOneBacklogRound, NEW l \in Links, Open(l)
    PROVE  Pending(l)' = Pending(l)
<1>1. out[l] \in Seq(Messages) /\ backlog[l] \in Seq(Messages) /\ Len(out[l]) <= OutSize
      /\ Len(out[l]) \in Nat /\ Len(backlog[l]) \in Nat /\ OutSize \in Nat
  BY RouterAssumption, LenProperties DEF Typed, WrTypeOK
<1> DEFINE n == Fitting(l)
<1>2. n \in Nat /\ n <= Len(backlog[l])
  BY <1>1 DEF Fitting
<1>3. /\ backlog'[l] = SubSeq(backlog[l], n + 1, Len(backlog[l]))
      /\ out'[l] = out[l] \o SubSeq(backlog[l], 1, n)
  BY DEF ProcessOneBacklogRound, Drained
<1> HIDE DEF n
<1>4. n \in 0 .. Len(backlog[l])
  BY <1>1, <1>2
<1>5. Pending(l)' = (out[l] \o SubSeq(backlog[l], 1, n)) \o SubSeq(backlog[l], n + 1, Len(backlog[l]))
  BY <1>3 DEF Pending
<1> QED BY <1>1, <1>4, <1>5, CutMoves, ZenonT(40) DEF Pending

\* The invariant, with what is pending as one sequence.
NoneOvertaken == \A l \in Links : Open(l) => received[l] \o Pending(l) = routed[l]

\* The induction.
LEMMA OvertakenStep ==
    ASSUME Typed, NoneOvertaken, [Next]_vars
    PROVE  NoneOvertaken'
<1> SUFFICES ASSUME NEW l \in Links, Open(l)' PROVE (received[l] \o Pending(l) = routed[l])'
  BY DEF NoneOvertaken
<1>1. Open(l) /\ received[l] \o Pending(l) = routed[l]
  BY GoneStays DEF NoneOvertaken
<1>2. /\ received \in [Links -> Seq(Messages)] /\ out \in [Links -> Seq(Messages)]
      /\ backlog \in [Links -> Seq(Messages)]
  BY DEF Typed, WrTypeOK
<1>3. received[l] \in Seq(Messages) /\ Pending(l) \in Seq(Messages)
  BY <1>2, ConcatProperties DEF Pending
<1>4. CASE UNCHANGED <<sendVars, received>>
  BY <1>1, <1>4 DEF sendVars, Pending
<1>5. ASSUME received' = received, NEW k \in Links, NEW m \in Messages, SendTo(k, m)
      PROVE  (received[l] \o Pending(l) = routed[l])'
  <2>1. CASE k # l
    <3>1. out'[l] = out[l] /\ backlog'[l] = backlog[l] /\ routed'[l] = routed[l]
      BY <1>5, <2>1, SentTo
    <3> QED BY <1>1, <1>5, <3>1 DEF Pending
  <2>2. CASE k = l
    <3>1. routed'[l] = Append(routed[l], m) /\ Pending(l)' = Append(Pending(l), m)
      BY <1>5, <2>2, SentTo
    <3>2. received[l] \o Append(Pending(l), m) = Append(received[l] \o Pending(l), m)
      <4> DEFINE a == received[l]  b == Pending(l)
      <4>1. a \in Seq(Messages) /\ b \in Seq(Messages)
        BY <1>3
      <4> HIDE DEF a, b
      <4>2. a \o Append(b, m) = Append(a \o b, m)
        BY <4>1, AppendConcat
      <4> QED BY <4>2 DEF a, b
    <3> QED BY <1>1, <1>5, <3>1, <3>2
  <2> QED BY <2>1, <2>2
<1>6. CASE ProcessOneBacklogRound
  BY <1>1, <1>6, RoundPending DEF ProcessOneBacklogRound, peerVars
<1>7. ASSUME NEW k \in Links, PeerReceives(k)
      PROVE  (received[l] \o Pending(l) = routed[l])'
  <2>1. /\ out[k] # <<>> /\ out' = [out EXCEPT ![k] = Tail(@)]
        /\ received' = [received EXCEPT ![k] = Append(@, Head(out[k]))]
        /\ UNCHANGED <<backlog, routed>>
    BY <1>7 DEF PeerReceives
  <2>2. CASE k # l
    BY <1>1, <1>2, <2>1, <2>2 DEF Pending
  <2>3. CASE k = l
    <3>1. received'[l] = Append(received[l], Head(out[l])) /\ Pending(l)' = Tail(out[l]) \o backlog[l]
      BY <1>2, <2>1, <2>3 DEF Pending
    <3>2. out[l] \in Seq(Messages) /\ out[l] # <<>> /\ backlog[l] \in Seq(Messages)
      BY <1>2, <2>1, <2>3
    <3>3. Append(received[l], Head(out[l])) \o (Tail(out[l]) \o backlog[l])
            = received[l] \o (out[l] \o backlog[l])
      <4> DEFINE a == received[l]  b == out[l]  c == backlog[l]
      <4>1. a \in Seq(Messages) /\ b \in Seq(Messages) /\ c \in Seq(Messages) /\ b # <<>>
        BY <1>3, <3>2
      <4> HIDE DEF a, b, c
      <4>2. Append(a, Head(b)) \o (Tail(b) \o c) = a \o (b \o c)
        BY <4>1, HeadMoves
      <4> QED BY <4>2 DEF a, b, c
    <3> QED BY <1>1, <2>1, <3>1, <3>3 DEF Pending
  <2> QED BY <2>2, <2>3
<1> QED BY <1>4, <1>5, <1>6, <1>7, SendCases

\* A backlog changes nothing for the peer: whatever the capacity of its channel, it is given
\* what was sent to it, in the order it was sent (sendRpcMessageToLink, drainLinkBacklog_withLock).
THEOREM BacklogKeepsOrder == Spec => []NothingOvertaken
<1>1. Init => NoneOvertaken
  BY RequestForms, ConcatEmptySeq, EmptySeq DEF Init, NoneOvertaken, Pending
<1>2. Typed /\ NoneOvertaken => NothingOvertaken
  <2> SUFFICES ASSUME Typed, NoneOvertaken, NEW l \in Links, Open(l)
               PROVE  received[l] \o out[l] \o backlog[l] = routed[l]
    BY DEF NothingOvertaken
  <2>1. /\ received[l] \in Seq(Messages) /\ out[l] \in Seq(Messages) /\ backlog[l] \in Seq(Messages)
        /\ received[l] \o (out[l] \o backlog[l]) = routed[l]
    BY DEF Typed, WrTypeOK, NoneOvertaken, Pending, Open
  <2> DEFINE a == received[l]  b == out[l]  c == backlog[l]
  <2>2. a \in Seq(Messages) /\ b \in Seq(Messages) /\ c \in Seq(Messages)
    BY <2>1
  <2> HIDE DEF a, b, c
  <2>3. (a \o b) \o c = a \o (b \o c)
    BY <2>2, ConcatAssociative
  <2> QED BY <2>1, <2>3 DEF a, b, c
<1> QED BY <1>1, <1>2, InitTyped, TypedStep, OvertakenStep, PTL DEF Spec

\* The types of the router.
THEOREM RouterTypes == Spec => []WrTypeOK
<1>1. Typed => WrTypeOK
  BY DEF Typed
<1> QED BY <1>1, InitTyped, TypedStep, PTL DEF Spec

-----------------------------------------------------------------------------
(* What sequences contain.                                                 *)

\* At most one m, and no b behind an a.
Single(s, m) == \A i, k \in 1 .. Len(s) : s[i] = m /\ s[k] = m => i = k
NoneBehind(s, a, b) == \A i, k \in 1 .. Len(s) : i < k /\ s[i] = a => s[k] # b

\* An element is appended.
LEMMA Appended ==
    ASSUME NEW S, NEW s \in Seq(S), NEW x \in S
    PROVE  /\ \A m : Contains(Append(s, x), m) <=> Contains(s, m) \/ m = x
           /\ \A m : Single(s, m) /\ (m = x => ~Contains(s, m)) => Single(Append(s, x), m)
           /\ \A a, b : NoneBehind(s, a, b) /\ (b = x => ~Contains(s, a)) => NoneBehind(Append(s, x), a, b)
<1> DEFINE t == Append(s, x)
<1>1. Len(s) \in Nat
  BY LenProperties
<1>2. /\ Len(t) = Len(s) + 1
      /\ \A i \in 1 .. Len(s) : t[i] = s[i]
      /\ t[Len(s) + 1] = x
  BY AppendProperties
<1> HIDE DEF t
<1>3. \A i \in 1 .. Len(t) : i \in 1 .. Len(s) \/ i = Len(s) + 1
  BY <1>1, <1>2
<1>4. \A i \in 1 .. Len(s) : i \in 1 .. Len(t) /\ i < Len(s) + 1
  BY <1>1, <1>2
<1>5. Len(s) + 1 \in 1 .. Len(t)
  BY <1>1, <1>2
<1>6. \A m : Contains(t, m) <=> Contains(s, m) \/ m = x
  BY <1>2, <1>3, <1>4, <1>5 DEF Contains
<1>7. \A m : Single(s, m) /\ (m = x => ~Contains(s, m)) => Single(t, m)
  BY <1>2, <1>3, <1>4, <1>5 DEF Contains, Single
<1>8. ASSUME NEW a, NEW b, NoneBehind(s, a, b), b = x => ~Contains(s, a), NEW i \in 1 .. Len(t),
             NEW k \in 1 .. Len(t), i < k, t[i] = a
      PROVE  t[k] # b
  <2>1. i \in 1 .. Len(s)
    BY <1>1, <1>2, <1>8
  <2>2. s[i] = a
    BY <1>2, <1>8, <2>1
  <2>3. CASE k \in 1 .. Len(s)
    BY <1>2, <1>8, <2>1, <2>2, <2>3 DEF NoneBehind
  <2>4. CASE k = Len(s) + 1
    BY <1>2, <1>8, <2>1, <2>2, <2>4 DEF Contains
  <2> QED BY <1>3, <1>8, <2>3, <2>4
<1>9. \A a, b : NoneBehind(s, a, b) /\ (b = x => ~Contains(s, a)) => NoneBehind(t, a, b)
  BY <1>8 DEF NoneBehind
<1> QED BY <1>6, <1>7, <1>9 DEF t

\* The first element is taken away.
LEMMA Taken ==
    ASSUME NEW S, NEW s \in Seq(S), s # <<>>
    PROVE  /\ Contains(s, Head(s))
           /\ \A m : Contains(Tail(s), m) => Contains(s, m)
           /\ \A m : Single(s, m) => Single(Tail(s), m)
           /\ \A m : Single(s, m) /\ m = Head(s) => ~Contains(Tail(s), m)
<1> DEFINE t == Tail(s)
<1>1. /\ t \in Seq(S) /\ Len(t) = Len(s) - 1 /\ \A i \in 1 .. Len(t) : t[i] = s[i + 1]
  BY HeadTailProperties
<1>2. Len(s) \in Nat /\ Len(t) \in Nat
  BY <1>1, LenProperties
<1>3. Head(s) = s[1]
  OBVIOUS
<1> HIDE DEF t
<1>4. 1 \in 1 .. Len(s) /\ \A i \in 1 .. Len(t) : i + 1 \in 1 .. Len(s) /\ i + 1 # 1
  BY <1>1, <1>2
<1>5. \A m : Contains(t, m) => Contains(s, m)
  BY <1>1, <1>4 DEF Contains
<1>6. ASSUME NEW m, Single(s, m), NEW i \in 1 .. Len(t), NEW k \in 1 .. Len(t), t[i] = m, t[k] = m
      PROVE  i = k
  <2>1. i + 1 = k + 1
    BY <1>1, <1>4, <1>6 DEF Single
  <2> QED BY <1>2, <2>1
<1>7. \A m : Single(s, m) => Single(t, m)
  BY <1>6 DEF Single
<1>8. \A m : Single(s, m) /\ m = s[1] => ~Contains(t, m)
  BY <1>1, <1>4 DEF Contains, Single
<1>9. Contains(s, s[1])
  BY <1>4 DEF Contains
<1> QED BY <1>3, <1>5, <1>7, <1>8, <1>9 DEF t

\* What the first part contains the whole contains.
LEMMA FirstPart ==
    ASSUME NEW S, NEW s \in Seq(S), NEW t \in Seq(S), NEW m, Contains(s, m)
    PROVE  Contains(s \o t, m)
<1>1. Len(s) \in Nat /\ Len(t) \in Nat
  BY LenProperties
<1>2. PICK i \in 1 .. Len(s) : s[i] = m
  BY DEF Contains
<1>3. i \in 1 .. Len(s) + Len(t) /\ i <= Len(s)
  BY <1>1
<1>4. Len(s \o t) = Len(s) + Len(t) /\ (s \o t)[i] = s[i]
  BY <1>3, ConcatProperties
<1> QED BY <1>2, <1>3, <1>4 DEF Contains

\* An empty sequence.
LEMMA NothingIn ==
    ASSUME NEW m
    PROVE  ~Contains(<<>>, m) /\ Single(<<>>, m) /\ \A b : NoneBehind(<<>>, m, b)
BY DEF Contains, Single, NoneBehind

\* Two messages of different kinds, or about different requests, differ.
LEMMA MessagesDiffer ==
    /\ \A p, q : Request(p) = Request(q) => p = q
    /\ \A p, q, x, y : Answer(p, x) = Answer(q, y) => p = q /\ x = y
    /\ \A p, q, y : Request(p) # Answer(q, y)
    /\ \A p, q, y : Error(p) # Request(q) /\ Error(p) # Answer(q, y)
<1>1. \A p : Request(p).kind = "request" /\ Request(p).id = p
  BY DEF Request
<1>2. \A p, x : Answer(p, x).kind = "answer" /\ Answer(p, x).id = p /\ Answer(p, x).last = x
  BY DEF Answer
<1>3. \A p : Error(p).kind = "error"
  BY DEF Error
<1>4. \A p, q, x, y : Answer(p, x) = Answer(q, y) => p = q /\ x = y
  BY <1>2
<1> QED BY <1>1, <1>2, <1>3, <1>4

-----------------------------------------------------------------------------
(* Answers go home.                                                        *)

Reports == [kind : {"announce", "unannounce"}, id : Routes]
Incoming(m, l) == [msg |-> m, from |-> l]
Served(q) == serving # <<>> /\ serving[1] = q

\* The request has not been served: not asked yet, on the wire, or received.
Ahead(q) ==
    q \notin asked \/ Contains(wire[From[q]], Request(q))
        \/ Contains(inputCh, Incoming(Request(q), From[q]))

\* Nobody has been given the request, and so nobody has answered it.
Untouched(q) ==
    /\ ~Served(q)
    /\ \A l \in Links :
         /\ ~Contains(routed[l], Request(q))
         /\ \A last \in BOOLEAN :
              /\ ~Contains(wire[l], Answer(q, last)) /\ ~Contains(routed[l], Answer(q, last))
              /\ ~Contains(inputCh, Incoming(Answer(q, last), l))

\* A request is where it came from, and once only.
Asking(q) ==
    /\ \A l \in Links : Contains(wire[l], Request(q)) => l = From[q]
    /\ \A l \in Links : Contains(inputCh, Incoming(Request(q), l)) => l = From[q]
    /\ Single(wire[From[q]], Request(q)) /\ Single(inputCh, Incoming(Request(q), From[q]))
    /\ Contains(wire[From[q]], Request(q)) => ~Contains(inputCh, Incoming(Request(q), From[q]))
    /\ q \notin asked => /\ ~Contains(wire[From[q]], Request(q))
                         /\ ~Contains(inputCh, Incoming(Request(q), From[q]))

\* The way back is the way it came, and is forgotten with the last answer.
Answering(q) ==
    /\ Served(q) => serving[2] = From[q]
    /\ rpcMap[q] \in {NoLink, From[q]}
    /\ \A l \in Links, last \in BOOLEAN : Contains(routed[l], Answer(q, last)) => l = From[q]
    /\ Contains(routed[From[q]], Answer(q, TRUE)) => rpcMap[q] = NoLink /\ ~Served(q)
    /\ NoneBehind(routed[From[q]], Answer(q, TRUE), Answer(q, FALSE))

Home(q) == Asking(q) /\ Answering(q) /\ (Ahead(q) => Untouched(q))

HomeInv == Typed /\ NoneOvertaken /\ upstreamBuf \in Seq(Reports) /\ \A q \in Requests : Home(q)

\* Nothing is sent that the request is concerned with.
SentSame(q) ==
    /\ \A k \in Links : Contains(routed'[k], Request(q)) <=> Contains(routed[k], Request(q))
    /\ \A k \in Links, last \in BOOLEAN :
         Contains(routed'[k], Answer(q, last)) <=> Contains(routed[k], Answer(q, last))
    /\ NoneBehind(routed'[From[q]], Answer(q, TRUE), Answer(q, FALSE))

\* A message about another request, or no request at all, disturbs nothing that was sent.
LEMMA SentOther ==
    ASSUME Typed, NEW q \in Requests, Answering(q), NEW l \in Links, NEW m \in Messages, SendTo(l, m),
           m # Request(q), \A last \in BOOLEAN : m # Answer(q, last)
    PROVE  SentSame(q)
<1>1. /\ routed'[l] = Append(routed[l], m) /\ \A k \in Links : k # l => routed'[k] = routed[k]
  BY SentTo
<1>2. routed[l] \in Seq(Messages) /\ From[q] \in Links
  BY RequestForms DEF Typed
<1> DEFINE s == routed[l]  t == routed'[l]
<1>3. s \in Seq(Messages) /\ t = Append(s, m)
  BY <1>1, <1>2
<1> HIDE DEF s, t
<1>4. /\ \A x : Contains(t, x) <=> Contains(s, x) \/ x = m
      /\ \A a, b : NoneBehind(s, a, b) /\ (b = m => ~Contains(s, a)) => NoneBehind(t, a, b)
  BY <1>3, Appended
<1>5. /\ Contains(t, Request(q)) <=> Contains(s, Request(q))
      /\ \A last \in BOOLEAN : Contains(t, Answer(q, last)) <=> Contains(s, Answer(q, last))
      /\ NoneBehind(s, Answer(q, TRUE), Answer(q, FALSE)) => NoneBehind(t, Answer(q, TRUE), Answer(q, FALSE))
  BY <1>4
<1>6. NoneBehind(routed[From[q]], Answer(q, TRUE), Answer(q, FALSE))
  BY DEF Answering
<1> QED BY <1>1, <1>2, <1>5, <1>6 DEF s, t, SentSame

\* What is at stake for a request when only what is sent of others changes.
LEMMA HomeUntouched ==
    ASSUME NEW q \in Requests, Home(q), UNCHANGED <<wire, inputCh, serving, rpcMap, asked>>,
           SentSame(q)
    PROVE  Home(q)'
<1>1. From[q] \in Links /\ TRUE \in BOOLEAN
  BY RequestForms
<1>2. Asking(q)' /\ (Ahead(q)' <=> Ahead(q)) /\ (Served(q)' <=> Served(q))
  BY DEF Home, Asking, Ahead, Served
<1>3. Answering(q)'
  BY <1>1, <1>2 DEF Home, Answering, SentSame
<1>4. Ahead(q)' => Untouched(q)'
  BY <1>2 DEF Home, Untouched, SentSame
<1> QED BY <1>2, <1>3, <1>4 DEF Home

\* Nothing is sent at all.
LEMMA SentNothing ==
    ASSUME NEW q \in Requests, Answering(q), routed' = routed
    PROVE  SentSame(q)
BY DEF Answering, SentSame

\* A link's loop receives a message.
LEMMA HomeReceived ==
    ASSUME Typed, NEW q \in Requests, Home(q), NEW l \in Links, wire[l] # <<>>,
           wire' = [wire EXCEPT ![l] = Tail(@)],
           inputCh' = inputCh \/ inputCh' = Append(inputCh, Incoming(Head(wire[l]), l)),
           UNCHANGED <<serving, rpcMap, asked>>, SentSame(q)
    PROVE  Home(q)'
<1> DEFINE m == Head(wire[l])  R == Request(q)  F == From[q]
<1>1. /\ wire \in [Links -> Seq(Messages)] /\ inputCh \in Seq(Inputs) /\ F \in Links
      /\ wire[l] \in Seq(Messages) /\ m \in Messages
  BY RequestForms, HeadTailProperties DEF Typed, WrTypeOK, Inputs
<1>2. /\ Contains(wire[l], m)
      /\ \A x : Contains(Tail(wire[l]), x) => Contains(wire[l], x)
      /\ \A x : Single(wire[l], x) => Single(Tail(wire[l]), x)
      /\ \A x : Single(wire[l], x) /\ x = m => ~Contains(Tail(wire[l]), x)
  BY <1>1, Taken
<1>3. /\ \A x : \A k \in Links : Contains(wire'[k], x) => Contains(wire[k], x)
      /\ \A x : \A k \in Links : Single(wire[k], x) => Single(wire'[k], x)
      /\ \A x : Single(wire[l], x) /\ x = m => ~Contains(wire'[l], x)
  BY <1>1, <1>2
<1>4. /\ \A x : Contains(inputCh', x) => Contains(inputCh, x) \/ x = Incoming(m, l)
      /\ \A x : Single(inputCh, x) /\ (x = Incoming(m, l) => ~Contains(inputCh, x)) => Single(inputCh', x)
  <2>1. Incoming(m, l) \in Inputs
    BY <1>1 DEF Incoming, Inputs
  <2> DEFINE x == Incoming(m, l)
  <2>2. x \in Inputs /\ (inputCh' = inputCh \/ inputCh' = Append(inputCh, x))
    BY <2>1
  <2> HIDE DEF x, m
  <2>3. /\ \A y : Contains(Append(inputCh, x), y) <=> Contains(inputCh, y) \/ y = x
        /\ \A y : Single(inputCh, y) /\ (y = x => ~Contains(inputCh, y)) => Single(Append(inputCh, x), y)
    BY <1>1, <2>2, Appended
  <2> QED BY <2>2, <2>3 DEF x
<1>5. \A x, k : Incoming(x, k) = Incoming(m, l) => x = m /\ k = l
  BY DEF Incoming
<1>6. /\ Asking(q) /\ Answering(q) /\ (Ahead(q) => Untouched(q))
  BY DEF Home
<1> HIDE DEF m, R, F
<1>7. /\ \A k \in Links : Contains(wire[k], R) => k = F
      /\ \A k \in Links : Contains(inputCh, Incoming(R, k)) => k = F
      /\ Single(wire[F], R) /\ Single(inputCh, Incoming(R, F))
      /\ Contains(wire[F], R) => ~Contains(inputCh, Incoming(R, F))
      /\ q \notin asked => ~Contains(wire[F], R) /\ ~Contains(inputCh, Incoming(R, F))
  BY <1>6 DEF Asking, R, F
<1>8. \A k \in Links : Contains(inputCh', Incoming(R, k)) =>
        Contains(inputCh, Incoming(R, k)) \/ (m = R /\ k = l /\ l = F /\ Contains(wire[F], R))
  BY <1>2, <1>4, <1>5, <1>7
<1>9. /\ \A k \in Links : Contains(wire'[k], R) => k = F
      /\ \A k \in Links : Contains(inputCh', Incoming(R, k)) => k = F
      /\ Single(wire'[F], R)
      /\ q \notin asked' => ~Contains(wire'[F], R) /\ ~Contains(inputCh', Incoming(R, F))
  BY <1>1, <1>3, <1>7, <1>8
<1>10. Single(inputCh', Incoming(R, F))
  BY <1>2, <1>4, <1>5, <1>7
<1>11. Contains(wire'[F], R) => ~Contains(inputCh', Incoming(R, F))
  BY <1>1, <1>3, <1>7, <1>8
<1>12. Asking(q)'
  BY <1>9, <1>10, <1>11 DEF Asking, R, F
<1>13. Served(q)' <=> Served(q)
  BY DEF Served
<1>14. Answering(q)'
  BY <1>1, <1>6, <1>13 DEF Answering, SentSame, F
<1>15. Ahead(q)' => Ahead(q)
  BY <1>1, <1>3, <1>8 DEF Ahead, R, F
<1>16. Ahead(q)' => Untouched(q)'
  <2> SUFFICES ASSUME Untouched(q), NEW k \in Links, NEW last \in BOOLEAN
               PROVE  /\ ~Contains(wire'[k], Answer(q, last))
                      /\ ~Contains(inputCh', Incoming(Answer(q, last), k))
    BY <1>6, <1>13, <1>15 DEF Untouched, SentSame
  <2>1. ~Contains(wire[k], Answer(q, last)) /\ ~Contains(inputCh, Incoming(Answer(q, last), k))
        /\ ~Contains(wire[l], Answer(q, last))
    BY DEF Untouched
  <2> QED BY <1>2, <1>3, <1>4, <1>5, <2>1
<1> QED BY <1>12, <1>14, <1>16 DEF Home

\* The first received message is served; none of it is about this request, or it is its answer.
LEMMA HomeServed ==
    ASSUME Typed, NEW q \in Requests, Home(q), inputCh # <<>>, inputCh' = Tail(inputCh),
           UNCHANGED <<wire, asked>>, Answering(q)', ~Served(q)',
           Untouched(q) /\ Ahead(q)' => SentSame(q)
    PROVE  Home(q)'
<1>1. inputCh \in Seq(Inputs)
  BY DEF Typed, WrTypeOK, Inputs
<1>2. /\ \A x : Contains(inputCh', x) => Contains(inputCh, x)
      /\ \A x : Single(inputCh, x) => Single(inputCh', x)
  BY <1>1, Taken
<1>3. Asking(q)'
  BY <1>2 DEF Home, Asking
<1>4. Ahead(q)' => Ahead(q)
  BY <1>2 DEF Ahead
<1>5. Ahead(q)' => Untouched(q)'
  BY <1>2, <1>4 DEF Home, Untouched, SentSame
<1> QED BY <1>3, <1>5 DEF Home

\* A peer puts a message on its wire.
LEMMA WireLonger ==
    ASSUME Typed, NEW l \in Links, NEW m \in Messages, wire' = [wire EXCEPT ![l] = Append(@, m)]
    PROVE  /\ \A x : \A k \in Links : Contains(wire'[k], x) <=> Contains(wire[k], x) \/ (k = l /\ x = m)
           /\ \A x : \A k \in Links : Single(wire[k], x) /\ (k = l /\ x = m => ~Contains(wire[k], x))
                => Single(wire'[k], x)
<1>1. wire \in [Links -> Seq(Messages)] /\ wire[l] \in Seq(Messages)
  BY DEF Typed, WrTypeOK
<1>2. /\ \A x : Contains(Append(wire[l], m), x) <=> Contains(wire[l], x) \/ x = m
      /\ \A x : Single(wire[l], x) /\ (x = m => ~Contains(wire[l], x)) => Single(Append(wire[l], m), x)
  BY <1>1, Appended
<1>3. wire'[l] = Append(wire[l], m) /\ \A k \in Links : k # l => wire'[k] = wire[k]
  BY <1>1
<1> QED BY <1>2, <1>3

\* An answer: whoever sends it has been given the request.
LEMMA HomeAnswers ==
    ASSUME HomeInv, NEW q \in Requests, NEW l \in Links, NEW p \in Requests, PeerAnswers(l, p)
    PROVE  Home(q)'
<1>1. /\ Typed /\ NoneOvertaken /\ Home(q) /\ Asking(q) /\ Answering(q)
      /\ (Ahead(q) => Untouched(q)) /\ (Ahead(p) => Untouched(p))
  BY DEF HomeInv, Home
<1>2. PICK last \in BOOLEAN : wire' = [wire EXCEPT ![l] = Append(@, Answer(p, last))]
  BY DEF PeerAnswers
<1>3. UNCHANGED <<inputCh, serving, rpcMap, routed, asked>>
  BY DEF PeerAnswers, sendVars
<1>4. ~Ahead(p)
  <2>1. /\ received[l] \in Seq(Messages) /\ Pending(l) \in Seq(Messages)
        /\ received[l] \o Pending(l) = routed[l] /\ Contains(received[l], Request(p))
    BY <1>1, ConcatProperties DEF Typed, WrTypeOK, Pending, NoneOvertaken, PeerAnswers, Got
  <2>2. Contains(routed[l], Request(p))
    BY <2>1, FirstPart
  <2> QED BY <1>1, <2>2 DEF Untouched
<1>5. Answer(p, last) \in Messages
  BY MessageForms
<1>6. /\ \A x : \A k \in Links : Contains(wire'[k], x) <=> Contains(wire[k], x) \/ (k = l /\ x = Answer(p, last))
      /\ \A x : \A k \in Links : Single(wire[k], x) /\ x # Answer(p, last) => Single(wire'[k], x)
  BY <1>1, <1>2, <1>5, WireLonger
<1>7. /\ Request(q) # Answer(p, last) /\ From[q] \in Links
      /\ \A x \in BOOLEAN : Answer(q, x) = Answer(p, last) => q = p
  BY MessagesDiffer, RequestForms
<1>8. Asking(q)'
  BY <1>1, <1>3, <1>6, <1>7 DEF Asking
<1>9. Answering(q)' /\ (Served(q)' <=> Served(q))
  BY <1>1, <1>3 DEF Answering, Served
<1>10. Ahead(q)' => Ahead(q)
  BY <1>3, <1>6, <1>7 DEF Ahead
<1>11. Ahead(q)' => Untouched(q)'
  BY <1>1, <1>3, <1>4, <1>6, <1>7, <1>9, <1>10 DEF Untouched
<1> QED BY <1>8, <1>9, <1>11 DEF Home

\* A request, which nobody has sent before.
LEMMA HomeAsks ==
    ASSUME HomeInv, NEW q \in Requests, NEW p \in Requests, PeerAsks(p)
    PROVE  Home(q)'
<1>1. /\ Typed /\ Asking(q) /\ Answering(q) /\ (Ahead(q) => Untouched(q))
  BY DEF HomeInv, Home
<1>2. /\ p \notin asked /\ asked' = asked \cup {p}
      /\ wire' = [wire EXCEPT ![From[p]] = Append(@, Request(p))]
      /\ UNCHANGED <<inputCh, serving, rpcMap, routed>>
  BY DEF PeerAsks, sendVars
<1>3. Request(p) \in Messages /\ From[p] \in Links /\ From[q] \in Links
  BY MessageForms, RequestForms
<1>4. /\ \A x : \A k \in Links : Contains(wire'[k], x) <=> Contains(wire[k], x) \/ (k = From[p] /\ x = Request(p))
      /\ \A x : \A k \in Links : Single(wire[k], x) /\ (k = From[p] /\ x = Request(p) => ~Contains(wire[k], x))
           => Single(wire'[k], x)
  BY <1>1, <1>2, <1>3, WireLonger
<1>5. /\ Request(q) = Request(p) => q = p
      /\ \A x : Answer(q, x) # Request(p)
  BY MessagesDiffer
<1>6. Asking(q)'
  BY <1>1, <1>2, <1>3, <1>4, <1>5 DEF Asking
<1>7. Answering(q)' /\ (Served(q)' <=> Served(q))
  BY <1>1, <1>2 DEF Answering, Served
<1>8. Ahead(q)' => Ahead(q)
  BY <1>2, <1>3, <1>4, <1>5 DEF Ahead
<1>9. Ahead(q)' => Untouched(q)'
  BY <1>1, <1>2, <1>4, <1>5, <1>7, <1>8 DEF Untouched
<1> QED BY <1>6, <1>7, <1>9 DEF Home

\* The way back is registered.
LEMMA HomeRegistered ==
    ASSUME HomeInv, NEW q \in Requests, RegisterRouteInfo
    PROVE  Home(q)'
<1>1. /\ Typed /\ Asking(q) /\ Answering(q) /\ (Ahead(q) => Untouched(q))
      /\ rpcMap \in [Requests -> Links \cup {NoLink}] /\ From[q] \in Links
  BY RequestForms DEF HomeInv, Home, Typed, WrTypeOK
<1>2. /\ serving # <<>> /\ serving' = <<>> /\ rpcMap' = [rpcMap EXCEPT ![serving[1]] = serving[2]]
      /\ UNCHANGED <<wire, inputCh, routed, asked>>
  BY DEF RegisterRouteInfo, sendVars, peerVars
<1>3. ~Served(q)'
  BY <1>2 DEF Served
<1>4. Answering(q)'
  BY <1>1, <1>2, <1>3 DEF Answering, Served
<1>5. Asking(q)' /\ (Ahead(q)' <=> Ahead(q))
  BY <1>1, <1>2 DEF Asking, Ahead
<1>6. Ahead(q)' => Untouched(q)'
  BY <1>1, <1>2, <1>3, <1>5 DEF Untouched
<1> QED BY <1>4, <1>5, <1>6 DEF Home

\* An answer is served: to the link of its request, which is forgotten with the last one.
LEMMA HomeServesAnswer ==
    ASSUME HomeInv, NEW q \in Requests, ServeAnswer
    PROVE  Home(q)'
<1>1. /\ Typed /\ Home(q) /\ Asking(q) /\ Answering(q) /\ (Ahead(q) => Untouched(q))
      /\ rpcMap \in [Requests -> Links \cup {NoLink}] /\ From[q] \in Links
      /\ routed \in [Links -> Seq(Messages)] /\ inputCh \in Seq(Inputs)
  BY RequestForms DEF HomeInv, Home, Typed, WrTypeOK, Inputs
<1> DEFINE m == Head(inputCh).msg  p == m.id
<1>2. /\ serving = <<>> /\ inputCh # <<>> /\ m.kind = "answer" /\ inputCh' = Tail(inputCh)
      /\ UNCHANGED <<wire, serving, asked>>
      /\ routed' = routed \/ (rpcMap[p] # NoLink /\ SendTo(rpcMap[p], m))
      /\ rpcMap' = IF m.last THEN [rpcMap EXCEPT ![p] = NoLink] ELSE rpcMap
  BY DEF ServeAnswer, WayBack, sendVars, peerVars
<1>3. /\ Head(inputCh) \in Inputs /\ Contains(inputCh, Head(inputCh))
      /\ \A x : Contains(inputCh', x) => Contains(inputCh, x)
  BY <1>1, <1>2, HeadTailProperties, Taken
<1>4. m \in Messages /\ Head(inputCh).from \in Links /\ Head(inputCh) = Incoming(m, Head(inputCh).from)
  BY <1>3 DEF Inputs, Incoming
<1>5. p \in Requests /\ m.last \in BOOLEAN /\ m = Answer(p, m.last)
  BY <1>2, <1>4, MessageForms
<1> DEFINE last == m.last
<1>6. last \in BOOLEAN /\ m = Answer(p, last)
      /\ rpcMap' = IF last THEN [rpcMap EXCEPT ![p] = NoLink] ELSE rpcMap
  BY <1>2, <1>5
<1> HIDE DEF m, p, last
<1>7. ~Served(q)'
  BY <1>2 DEF Served
<1>8. CASE q # p
  <2>1. m # Request(q) /\ \A x \in BOOLEAN : m # Answer(q, x)
    BY <1>6, <1>8, MessagesDiffer
  <2>2. SentSame(q)
    <3>1. CASE routed' = routed
      BY <1>1, <3>1, SentNothing
    <3>2. CASE rpcMap[p] # NoLink /\ SendTo(rpcMap[p], m)
      BY <1>1, <1>4, <1>5, <2>1, <3>2, SentOther
    <3> QED BY <1>2, <3>1, <3>2
  <2>3. rpcMap'[q] = rpcMap[q]
    BY <1>1, <1>5, <1>6, <1>8
  <2>4. Answering(q)'
    BY <1>1, <1>7, <2>2, <2>3 DEF Answering, SentSame
  <2> QED BY <1>1, <1>2, <1>7, <2>2, <2>4, HomeServed
<1>9. CASE q = p
  <2>1. ~Ahead(q)
    BY <1>1, <1>3, <1>4, <1>6, <1>9 DEF Untouched
  <2>2. ~Ahead(q)'
    BY <1>2, <1>3, <2>1 DEF Ahead
  <2>3. rpcMap'[q] \in {rpcMap[q], NoLink} /\ (last = TRUE => rpcMap'[q] = NoLink)
    BY <1>1, <1>5, <1>6, <1>9
  <2>4. Answering(q)'
    <3>1. CASE routed' = routed
      BY <1>1, <1>7, <2>3, <3>1 DEF Answering
    <3>2. CASE rpcMap[q] # NoLink /\ SendTo(rpcMap[q], m)
      <4>1. rpcMap[q] = From[q] /\ ~Contains(routed[From[q]], Answer(q, TRUE))
        BY <1>1, <3>2 DEF Answering
      <4>2. /\ routed'[From[q]] = Append(routed[From[q]], Answer(q, last))
            /\ \A k \in Links : k # From[q] => routed'[k] = routed[k]
        BY <1>1, <1>4, <1>6, <1>9, <3>2, <4>1, SentTo
      <4> DEFINE s == routed[From[q]]  t == routed'[From[q]]  a == Answer(q, last)
      <4>3. s \in Seq(Messages) /\ a \in Messages /\ t = Append(s, a)
        BY <1>1, <1>4, <1>6, <1>9, <4>2
      <4> HIDE DEF s, t, a
      <4>4. /\ \A x : Contains(t, x) <=> Contains(s, x) \/ x = a
            /\ \A x, b : NoneBehind(s, x, b) /\ (b = a => ~Contains(s, x)) => NoneBehind(t, x, b)
        BY <4>3, Appended
      <4>5. \A x : Answer(q, x) = a => x = last
        BY MessagesDiffer DEF a
      <4>6. ~Contains(s, Answer(q, TRUE)) /\ NoneBehind(s, Answer(q, TRUE), Answer(q, FALSE))
        BY <1>1, <4>1 DEF Answering, s
      <4>7. NoneBehind(t, Answer(q, TRUE), Answer(q, FALSE))
        BY <4>4, <4>6
      <4>8. Contains(t, Answer(q, TRUE)) => rpcMap'[q] = NoLink
        BY <2>3, <4>4, <4>5, <4>6
      <4>9. \A k \in Links, x \in BOOLEAN : Contains(routed'[k], Answer(q, x)) => k = From[q]
        BY <1>1, <4>2 DEF Answering
      <4> QED BY <1>1, <1>7, <2>3, <4>7, <4>8, <4>9 DEF Answering, t
    <3> QED BY <1>2, <1>9, <3>1, <3>2
  <2> QED BY <1>1, <1>2, <1>7, <2>2, <2>4, HomeServed
<1> QED BY <1>8, <1>9

\* A request is served: it is sent to the link of its route, or answered with an error.
LEMMA HomeServesCommand ==
    ASSUME HomeInv, NEW q \in Requests, ServeCommand
    PROVE  Home(q)'
<1>1. /\ Typed /\ Home(q) /\ Asking(q) /\ Answering(q) /\ (Ahead(q) => Untouched(q))
      /\ From[q] \in Links /\ \A k \in Requests : Asking(k)
      /\ routed \in [Links -> Seq(Messages)] /\ inputCh \in Seq(Inputs)
  BY RequestForms DEF HomeInv, Home, Typed, WrTypeOK, Inputs
<1> DEFINE p == Head(inputCh).msg.id  from == Head(inputCh).from
<1>2. /\ serving = <<>> /\ inputCh # <<>> /\ Head(inputCh).msg.kind = "request" /\ inputCh' = Tail(inputCh)
      /\ UNCHANGED <<wire, rpcMap, asked>>
      /\ \/ serving' = <<p, from>> /\ Destination(To[p]) # NoLink /\ SendTo(Destination(To[p]), Request(p))
         \/ serving' = serving /\ SourceOf(from) # NoLink /\ SendTo(SourceOf(from), Error(p))
         \/ serving' = serving /\ routed' = routed
  BY DEF ServeCommand, sendVars, peerVars
<1>3. /\ Head(inputCh) \in Inputs /\ Contains(inputCh, Head(inputCh))
      /\ \A x : Single(inputCh, x) /\ x = Head(inputCh) => ~Contains(inputCh', x)
  BY <1>1, <1>2, HeadTailProperties, Taken
<1>4. p \in Requests /\ from \in Links /\ Head(inputCh) = Incoming(Request(p), from)
  <2>1. Head(inputCh).msg \in Messages /\ from \in Links /\ Head(inputCh) = Incoming(Head(inputCh).msg, from)
    BY <1>3 DEF Inputs, Incoming
  <2> QED BY <1>2, <2>1, MessageForms
<1> HIDE DEF p, from
<1>5. from = From[p]
  BY <1>1, <1>3, <1>4 DEF Asking
<1>6. /\ Destination(To[p]) \in Links \cup {NoLink} /\ SourceOf(from) \in Links \cup {NoLink}
      /\ Request(p) \in Messages /\ Error(p) \in Messages
  BY <1>1, <1>4, RequestForms, Directions, MessageForms
<1>7. /\ \A k : Error(p) # Request(k)
      /\ \A k, x : Error(p) # Answer(k, x) /\ Request(p) # Answer(k, x)
      /\ Request(p) = Request(q) => p = q
  BY MessagesDiffer
<1>8. CASE q # p
  <2>1. SentSame(q)
    <3>1. CASE routed' = routed
      BY <1>1, <3>1, SentNothing
    <3>2. CASE Destination(To[p]) # NoLink /\ SendTo(Destination(To[p]), Request(p))
      BY <1>1, <1>6, <1>7, <1>8, <3>2, SentOther
    <3>3. CASE SourceOf(from) # NoLink /\ SendTo(SourceOf(from), Error(p))
      BY <1>1, <1>6, <1>7, <3>3, SentOther
    <3> QED BY <1>2, <3>1, <3>2, <3>3
  <2>2. ~Served(q)'
    <3>1. <<p, from>>[1] = p
      OBVIOUS
    <3> QED BY <1>2, <1>8, <3>1 DEF Served
  <2>3. Answering(q)'
    BY <1>1, <1>2, <2>1, <2>2 DEF Answering, SentSame
  <2> QED BY <1>1, <1>2, <2>1, <2>2, <2>3, HomeServed
<1>9. CASE q = p
  <2> DEFINE I == Incoming(Request(q), From[q])
  <2>1. I = Head(inputCh) /\ Contains(inputCh, I) /\ Single(inputCh, I)
    BY <1>1, <1>3, <1>4, <1>5, <1>9 DEF Asking
  <2>2. /\ Ahead(q) /\ Untouched(q)
        /\ q \in asked /\ ~Contains(wire[From[q]], Request(q))
    BY <1>1, <2>1 DEF Ahead, Asking
  <2>3. ~Ahead(q)'
    BY <1>2, <1>3, <2>1, <2>2 DEF Ahead
  <2>4. \A k \in Links : \A x \in BOOLEAN : ~Contains(routed[k], Answer(q, x))
    BY <2>2 DEF Untouched
  <2>5. \A k \in Links : \A x \in BOOLEAN : ~Contains(routed'[k], Answer(q, x))
    <3>1. ASSUME NEW l \in Links, NEW m \in Messages, SendTo(l, m), \A x : m # Answer(q, x)
          PROVE  \A k \in Links : \A x \in BOOLEAN : ~Contains(routed'[k], Answer(q, x))
      <4>1. routed'[l] = Append(routed[l], m) /\ \A k \in Links : k # l => routed'[k] = routed[k]
        BY <1>1, <3>1, SentTo
      <4> DEFINE s == routed[l]
      <4>2. s \in Seq(Messages)
        BY <1>1
      <4> HIDE DEF s
      <4>3. \A x : Contains(Append(s, m), x) <=> Contains(s, x) \/ x = m
        BY <4>2, Appended
      <4> QED BY <2>4, <3>1, <4>1, <4>3 DEF s
    <3>2. CASE routed' = routed
      BY <2>4, <3>2
    <3> QED BY <1>2, <1>6, <1>7, <3>1, <3>2
  <2>6. NoneBehind(routed'[From[q]], Answer(q, TRUE), Answer(q, FALSE))
    <3>1. ~Contains(routed'[From[q]], Answer(q, TRUE))
      BY <1>1, <2>5
    <3> QED BY <3>1 DEF Contains, NoneBehind
  <2>7. Served(q)' => serving'[2] = From[q]
    <3>1. <<p, from>>[2] = from
      OBVIOUS
    <3> QED BY <1>2, <1>5, <1>9, <3>1 DEF Served
  <2>8. Answering(q)'
    BY <1>1, <1>2, <2>5, <2>6, <2>7 DEF Answering
  <2>9. Asking(q)'
    <3>1. /\ \A x : Contains(inputCh', x) => Contains(inputCh, x)
          /\ \A x : Single(inputCh, x) => Single(inputCh', x)
      BY <1>1, <1>2, Taken
    <3> QED BY <1>1, <1>2, <3>1 DEF Asking
  <2> QED BY <2>3, <2>8, <2>9 DEF Home
<1> QED BY <1>8, <1>9

\* The other steps of the router send nothing that is asked or answered.
LEMMA HomeElse ==
    ASSUME HomeInv, NEW q \in Requests,
           \/ ProcessOneBacklogRound \/ SendUpstream \/ UNCHANGED vars
           \/ \E l \in Links : \/ DeleteLink(l) \/ PeerReceives(l) \/ UnregisterLink(l)
                               \/ \E r \in Routes : UnbindRoute(l, r)
           \/ \E k \in ToControl : ControlTrusts(k) \/ ControlBinds(k)
           \/ \E rep \in reports : QueueUpstream(rep)
    PROVE  Home(q)'
<1>1. Typed /\ Home(q) /\ Answering(q) /\ upstreamBuf \in Seq(Reports)
  BY DEF HomeInv, Home
<1>2. CASE SendUpstream
  <2> DEFINE m == Head(upstreamBuf)
  <2>1. m \in Reports /\ UNCHANGED <<wire, inputCh, serving, rpcMap, asked>>
        /\ (routed' = routed \/ SendTo(Upstream, m))
    BY <1>1, <1>2, HeadTailProperties DEF SendUpstream, queueVars, peerVars, sendVars
  <2>2. m \in Messages /\ m.kind \in {"announce", "unannounce"}
    BY <2>1 DEF Reports, Messages
  <2> HIDE DEF m
  <2>3. m # Request(q) /\ \A last \in BOOLEAN : m # Answer(q, last)
    BY <2>2 DEF Request, Answer
  <2>4. SentSame(q)
    BY <1>1, <2>1, <2>2, <2>3, RequestForms, SentOther, SentNothing
  <2> QED BY <1>1, <2>1, <2>4, HomeUntouched
<1>3. CASE ~SendUpstream
  <2>1. UNCHANGED <<wire, inputCh, serving, rpcMap, asked, routed>>
    BY <1>3 DEF ProcessOneBacklogRound, vars, DeleteLink, PeerReceives, UnregisterLink, UnbindRoute,
                ControlTrusts, ControlBinds, QueueUpstream, queueVars, sendVars, peerVars
  <2> QED BY <1>1, <2>1, SentNothing, HomeUntouched
<1> QED BY <1>2, <1>3

\* A link's loop passes a message on, or refuses it.
LEMMA HomeRecv ==
    ASSUME HomeInv, NEW q \in Requests, NEW l \in Links, RecvRpcMessage(l)
    PROVE  Home(q)'
<1>1. Typed /\ Home(q) /\ Answering(q) /\ wire[l] \in Seq(Messages)
  BY DEF HomeInv, Home, Typed, WrTypeOK
<1> DEFINE m == Head(wire[l])
<1>2. /\ wire[l] # <<>> /\ wire' = [wire EXCEPT ![l] = Tail(@)]
      /\ inputCh' = inputCh \/ inputCh' = Append(inputCh, Incoming(m, l))
      /\ UNCHANGED <<serving, rpcMap, asked>>
      /\ routed' = routed \/ (m.kind = "request" /\ SendTo(l, Error(m.id)))
  BY DEF RecvRpcMessage, Incoming, sendVars, peerVars
<1>3. m \in Messages
  BY <1>1, <1>2, HeadTailProperties
<1>4. SentSame(q)
  <2>1. CASE routed' = routed
    BY <1>1, <2>1, SentNothing
  <2>2. CASE m.kind = "request" /\ SendTo(l, Error(m.id))
    <3>1. Error(m.id) \in Messages
      BY <1>3, <2>2, MessageForms
    <3>2. Error(m.id) # Request(q) /\ \A last \in BOOLEAN : Error(m.id) # Answer(q, last)
      BY MessagesDiffer
    <3> QED BY <1>1, <2>2, <3>1, <3>2, SentOther
  <2> QED BY <1>2, <2>1, <2>2
<1> QED BY <1>1, <1>2, <1>4, HomeReceived

\* Only announcements are queued for the router upstream.
LEMMA OnlyReports ==
    ASSUME Typed, upstreamBuf \in Seq(Reports), [Next]_vars
    PROVE  upstreamBuf' \in Seq(Reports)
<1>1. CASE SendUpstream
  BY <1>1, HeadTailProperties DEF SendUpstream
<1>2. ASSUME NEW rep \in reports, QueueUpstream(rep) PROVE upstreamBuf' \in Seq(Reports)
  <2>1. [kind |-> rep.kind, id |-> rep.id] \in Reports
    BY DEF Typed, Reports
  <2> QED BY <1>2, <2>1, AppendProperties DEF QueueUpstream
<1>3. \/ UNCHANGED upstreamBuf \/ SendUpstream \/ \E rep \in reports : QueueUpstream(rep)
  BY DEF Next, RouterStep, PeerStep, ServeCommand, RegisterRouteInfo, ServeAnswer,
         ProcessOneBacklogRound, RecvRpcMessage, DeleteLink, UnbindRoute, ControlTrusts, ControlBinds,
         PeerReceives, PeerAnswers, PeerAsks, UnregisterLink, vars
<1> QED BY <1>1, <1>2, <1>3

\* The induction.
LEMMA HomeStep == HomeInv /\ [Next]_vars => HomeInv'
<1> SUFFICES ASSUME HomeInv, [Next]_vars PROVE HomeInv'
  OBVIOUS
<1>1. Typed' /\ NoneOvertaken' /\ upstreamBuf' \in Seq(Reports)
  BY TypedStep, OvertakenStep, OnlyReports DEF HomeInv
<1>2. ASSUME NEW q \in Requests PROVE Home(q)'
  BY HomeServesCommand, HomeRegistered, HomeServesAnswer, HomeElse, HomeRecv, HomeAnswers, HomeAsks,
     Zenon DEF Next, RouterStep, PeerStep
<1> QED BY <1>1, <1>2 DEF HomeInv

\* Nobody has asked anything.
LEMMA InitHome == Init => HomeInv
<1> SUFFICES ASSUME Init PROVE HomeInv
  OBVIOUS
<1>1. Typed /\ upstreamBuf \in Seq(Reports)
  BY InitTyped, EmptySeq DEF Init
<1>2. NoneOvertaken
  BY RequestForms, ConcatEmptySeq, EmptySeq DEF Init, NoneOvertaken, Pending
<1>3. /\ \A l \in Links : wire[l] = <<>> /\ routed[l] = <<>>
      /\ inputCh = <<>> /\ serving = <<>> /\ \A q \in Requests : rpcMap[q] = NoLink
  BY DEF Init
<1>4. ASSUME NEW q \in Requests PROVE Home(q)
  <2>1. From[q] \in Links /\ ~Served(q)
    BY <1>3, RequestForms DEF Served
  <2> QED BY <1>3, <2>1, NothingIn DEF Home, Asking, Answering, Untouched
<1> QED BY <1>1, <1>2, <1>4 DEF HomeInv

\* An answer goes back on the link its request came in on, even when the routes have changed
\* since, and the last is the last (registerRouteInfo, getRouteInfo, unregisterRouteInfo).
THEOREM AnswersReturn == Spec => []AnswersGoHome
<1>1. HomeInv => AnswersGoHome
  <2> SUFFICES ASSUME HomeInv, NEW l \in Links, NEW i \in 1 .. Len(routed[l]), routed[l][i].kind = "answer"
               PROVE  /\ From[routed[l][i].id] = l
                      /\ \A k \in i + 1 .. Len(routed[l]) :
                           routed[l][i].last => routed[l][k] # [routed[l][i] EXCEPT !.last = FALSE]
    BY DEF AnswersGoHome
  <2> DEFINE m == routed[l][i]
  <2>1. routed[l] \in Seq(Messages) /\ m \in Messages
    BY ElementOfSeq DEF HomeInv, Typed
  <2>2. m.id \in Requests /\ m.last \in BOOLEAN /\ m = Answer(m.id, m.last)
    BY <2>1, MessageForms
  <2> DEFINE q == m.id  last == m.last
  <2>3. q \in Requests /\ last \in BOOLEAN /\ m = Answer(q, last) /\ Contains(routed[l], m)
    BY <2>2 DEF Contains
  <2>4. Home(q)
    BY <2>3 DEF HomeInv
  <2> HIDE DEF q, last
  <2>5. From[q] = l
    BY <2>3, <2>4 DEF Home, Answering
  <2>6. ASSUME NEW k \in i + 1 .. Len(routed[l]), last
        PROVE  routed[l][k] # [m EXCEPT !.last = FALSE]
    <3>1. Len(routed[l]) \in Nat
      BY <2>1, LenProperties
    <3>2. k \in 1 .. Len(routed[l]) /\ i < k
      BY <3>1, <2>6
    <3>3. NoneBehind(routed[l], Answer(q, TRUE), Answer(q, FALSE))
      BY <2>4, <2>5 DEF Home, Answering
    <3>4. m = Answer(q, TRUE)
      BY <2>3, <2>6
    <3>5. routed[l][k] # Answer(q, FALSE) /\ routed[l][k] \in Messages
      BY <2>1, <3>2, <3>3, <3>4, ElementOfSeq DEF NoneBehind
    <3> DEFINE x == [Answer(q, TRUE) EXCEPT !.last = FALSE]
    <3>6. x.kind = "answer" /\ x.id = q /\ ~x.last
      BY DEF Answer
    <3> HIDE DEF x, m
    <3>7. x \in Messages => x.last \in BOOLEAN /\ x = Answer(q, x.last)
      BY <3>6, MessageForms
    <3>8. x \in Messages => x = Answer(q, FALSE)
      BY <3>6, <3>7
    <3>9. routed[l][k] # x
      BY <3>5, <3>8
    <3> QED BY <3>4, <3>9 DEF x
  <2> QED BY <2>5, <2>6 DEF q, last
<1> QED BY <1>1, InitHome, HomeStep, PTL DEF Spec
=============================================================================
