--------------------------- MODULE AppLink_proofs ---------------------------
(***************************************************************************)
(* Theorems about AppLink, for any launches, films, requests and bounds.   *)
(***************************************************************************)
EXTENDS AppLink, TLAPS

USE NoneIsNothing, BoundsAssumption

(***************************************************************************)
(* Types.                                                                  *)
(***************************************************************************)

LEMMA NoOrderFacts ==
  ASSUME NEW o \in Order \cup {NoOrder}
  PROVE  /\ o.seq \in 0..MaxOrders /\ o.film \in Films \cup {None}
         /\ o = NoOrder <=> o.seq = 0
         /\ o \in Order <=> o # NoOrder
BY DEF Order, NoOrder

LEMMA AppCmdType ==
  ASSUME TypeOK, NEW type \in {"play", "stop"}, NEW f \in Films \cup {None}, AppCmd(type, f)
  PROVE  /\ slot' \in Order /\ slot'.seq = seq + 1 /\ seq' = seq + 1
         /\ seq' \in 0..MaxOrders /\ stale' \in BOOLEAN
<1>1. stale' \in BOOLEAN
  BY DEF AppCmd
<1>2. seq \in 0..MaxOrders /\ seq < MaxOrders /\ seq' = seq + 1
  BY DEF TypeOK, AppCmd
<1>3. seq + 1 \in 1..MaxOrders
  BY <1>2
<1>4. slot' = [seq |-> seq + 1, type |-> type, film |-> f]
  BY DEF AppCmd
<1> QED BY <1>1, <1>2, <1>3, <1>4 DEF Order

LEMMA AnsweredType ==
  ASSUME TypeOK, NEW w \in Wires, NEW o \in Order \cup {NoOrder}
  PROVE  Answered(w, o) \in Beat
<1>1. wire[w].state \in FilmStates /\ Free \in Beat
  BY DEF TypeOK, Beat, Free, FilmStates
<1>2. [Free EXCEPT !.pc = "answered", !.state = wire[w].state, !.order = o] \in Beat
  BY <1>1 DEF Beat
<1> QED BY <1>1, <1>2 DEF Answered

LEMMA ReportedType == TypeOK => Reported \in Report
BY DEF TypeOK, Reported, Report, NoFilm, FilmStates

LEMMA PostType ==
  ASSUME TypeOK, NEW w \in Wires, NEW ack \in 0..MaxOrders, NEW r \in Report,
         NEW poll \in BOOLEAN, Post(w, ack, r, poll)
  PROVE  wire' \in [Wires -> Beat]
<1>1. [pc |-> "sent", ack |-> ack, film |-> r.film, state |-> r.state, poll |-> poll,
       order |-> NoOrder] \in Beat
  BY DEF Beat, Report
<1> QED BY <1>1 DEF TypeOK, Post

LEMMA AbandonType == TypeOK /\ Abandon => wire' \in [Wires -> Beat]
<1>1. Free \in Beat
  BY DEF Free, Beat, FilmStates
<1> QED BY <1>1 DEF TypeOK, Abandon

LEMMA PendingType == ASSUME TypeOK, NEW a PROVE Pending(a) \in {slot, NoOrder}
BY DEF Pending

(* Every variable keeps its type (all of AppLink). *)
THEOREM LinkTypeCorrect == Spec => []TypeOK
<1>1. Init => TypeOK
  <2>1. Unseen \in Seen /\ NoCall \in Call /\ Free \in Beat /\ NoFilm \in Report
    BY DEF Unseen, Seen, NoCall, Call, Free, Beat, NoFilm, Report, FilmStates
  <2>2. NoPosts \in Posts
    BY <2>1 DEF NoPosts, Posts
  <2> SUFFICES ASSUME Init PROVE TypeOK
    OBVIOUS
  <2>3. acted \in Seq(1..MaxOrders) /\ done \subseteq Order
    BY DEF Init
  <2>4. stale \in BOOLEAN /\ running \in BOOLEAN
    BY DEF Init
  <2>5. launch \in [Launches -> Call] /\ wire \in [Wires -> Beat]
    BY <2>1 DEF Init
  <2>6. /\ slot \in Order \cup {NoOrder} /\ seq \in 0..MaxOrders /\ seen \in Seen
        /\ awaited \in Wires \cup {None} /\ farewell \in Posts /\ film \in Report
        /\ pendingAck \in 0..MaxOrders /\ lastHandled \in 0..MaxOrders /\ faults \in 0..MaxFaults
    BY <2>1, <2>2 DEF Init
  <2> QED BY <2>3, <2>4, <2>5, <2>6 DEF TypeOK
<1>2. TypeOK /\ [Next]_vars => TypeOK'
  <2> SUFFICES ASSUME TypeOK, [Next]_vars PROVE TypeOK'
    OBVIOUS
  <2>1. CASE StopOrder
    BY <2>1, AppCmdType DEF StopOrder, TypeOK, app
  <2>2. CASE Expire
    BY <2>2 DEF Expire, TypeOK, app
  <2>3. ASSUME NEW l \in Launches, NEW f \in Films, Launch(l, f) PROVE TypeOK'
    <3>1. [pc |-> "waiting", film |-> f, order |-> seq + 1] \in Call
      BY <2>3 DEF Launch, AppCmd, Call, TypeOK
    <3>2. launch' \in [Launches -> Call]
      BY <2>3, <3>1 DEF Launch, TypeOK
    <3> QED BY <2>3, <3>2, AppCmdType DEF Launch, TypeOK, app
  <2>4. ASSUME NEW l \in Launches, LaunchEnds(l) \/ LaunchGivesUp(l) PROVE TypeOK'
    <3>1. Gone \in Call /\ [launch[l] EXCEPT !.pc = "playing"] \in Call
      <4>1. launch[l] \in Call
        BY DEF TypeOK
      <4> QED BY <4>1 DEF Gone, Call
    <3>2. launch' \in [Launches -> Call]
      BY <2>4, <3>1 DEF LaunchEnds, LaunchGivesUp, TypeOK
    <3>3. slot' \in {slot, NoOrder} /\ stale' \in BOOLEAN /\ UNCHANGED <<seq, seen, wire, app, faults>>
      BY <2>4 DEF LaunchEnds, LaunchGivesUp, AppCmdClear, server, TypeOK
    <3> QED BY <3>2, <3>3 DEF TypeOK, app
  <2>5. ASSUME NEW w \in Wires, Heartbeat(w) PROVE TypeOK'
    <3>1. Pending(wire[w].ack) \in Order \cup {NoOrder}
      BY PendingType DEF TypeOK
    <3>2. [wire[w] EXCEPT !.pc = "held"] \in Beat
      BY DEF Beat, TypeOK
    <3>3. wire' \in [Wires -> Beat]
      BY <2>5, <3>1, <3>2, AnsweredType DEF Heartbeat, TypeOK
    <3>4. seen' \in Seen
      BY <2>5 DEF Heartbeat, Reports, Seen, Beat, TypeOK
    <3> QED BY <2>5, <3>1, <3>3, <3>4 DEF Heartbeat, TypeOK, app
  <2>6. ASSUME NEW w \in Wires, HeartbeatReturns(w) PROVE TypeOK'
    <3>1. Answered(w, slot) \in Beat
      BY AnsweredType DEF TypeOK
    <3> QED BY <2>6, <3>1 DEF HeartbeatReturns, TypeOK, server, app
  <2>7. ASSUME NEW w \in Wires, Send(w) PROVE TypeOK'
    <3> DEFINE poll == film.state \in {"idle", "error"}
    <3>1. wire' \in [Wires -> Beat]
      <4>1. poll \in BOOLEAN /\ Reported \in Report /\ pendingAck \in 0..MaxOrders
        BY ReportedType DEF TypeOK
      <4>2. Post(w, pendingAck, Reported, poll)
        BY <2>7 DEF Send
      <4> HIDE DEF poll
      <4> QED BY <4>1, <4>2, PostType
    <3> QED BY <2>7, <3>1 DEF Send, TypeOK, server
  <2>8. ASSUME NEW w \in Wires, Farewell(w) PROVE TypeOK'
    <3>1. farewell \in Posts /\ NoFilm \in Report
      BY DEF TypeOK, NoFilm, Report, FilmStates
    <3>2. wire' \in [Wires -> Beat]
      <4>1. /\ pendingAck \in 0..MaxOrders /\ 0 \in 0..MaxOrders /\ FALSE \in BOOLEAN
            /\ farewell.report \in Report
        BY <3>1 DEF TypeOK, Posts
      <4>2. Post(w, pendingAck, farewell.report, FALSE) \/ Post(w, 0, NoFilm, FALSE)
        BY <2>8 DEF Farewell
      <4> QED BY <3>1, <4>1, <4>2, PostType
    <3>3. farewell' \in Posts
      BY <2>8, <3>1 DEF Farewell, Posts
    <3> QED BY <2>8, <3>2, <3>3 DEF Farewell, TypeOK, server
  <2>9. ASSUME NEW w \in Wires, Lose(w) PROVE TypeOK'
    BY <2>9 DEF Lose, TypeOK, server, app, Free, Beat, FilmStates
  <2>10. CASE Reply
    <3> DEFINE o == wire[awaited].order
    <3>1. awaited \in Wires /\ o \in Order \cup {NoOrder}
      BY <2>10 DEF Reply, TypeOK, Beat
    <3>2. wire' \in [Wires -> Beat]
      BY <2>10 DEF Reply, TypeOK, Free, Beat, FilmStates
    <3>3. o.seq \in 0..MaxOrders /\ Remembered(o.seq) \in 0..MaxOrders
      BY <3>1, NoOrderFacts DEF Remembered, TypeOK
    <3>4. NoFilm \in Report /\ film \in Report
      BY DEF TypeOK, NoFilm, Report, FilmStates
    <3>5. film' \in Report
      BY <2>10, <3>1, <3>4, NoOrderFacts DEF Reply, Report, FilmStates
    <3>6. acted' \in Seq(1..MaxOrders) /\ done' \subseteq Order /\ lastHandled' \in 0..MaxOrders
      <4>1. CASE o # NoOrder /\ o.seq # Remembered(o.seq)
        <5>1. o \in Order /\ o.seq \in 1..MaxOrders
          BY <4>1, <3>1, NoOrderFacts DEF Order
        <5>2. acted' = Append(acted, o.seq) /\ done' = done \cup {o} /\ lastHandled' = o.seq
          BY <2>10, <4>1 DEF Reply
        <5>3. acted \in Seq(1..MaxOrders) /\ done \subseteq Order
          BY DEF TypeOK
        <5> HIDE DEF o
        <5>4. acted' \in Seq(1..MaxOrders)
          BY <5>1, <5>2, <5>3
        <5> QED BY <5>1, <5>2, <5>3, <5>4
      <4>2. CASE ~(o # NoOrder /\ o.seq # Remembered(o.seq))
        BY <2>10, <4>2, <3>3 DEF Reply, TypeOK
      <4> QED BY <4>1, <4>2
    <3> QED BY <2>10, <3>2, <3>3, <3>5, <3>6 DEF Reply, TypeOK, server
  <2>11. CASE Player
    <3>1. film' \in Report
      BY <2>11 DEF Player, TypeOK, Report, NoFilm, FilmStates
    <3> QED BY <2>11, <3>1 DEF Player, TypeOK, server
  <2>12. CASE Start
    BY <2>12 DEF Start, TypeOK, server
  <2>13. CASE Stop
    <3>1. [left |-> 2, on |-> farewell.on, report |-> film] \in Posts
      BY DEF TypeOK, Posts
    <3>2. NoFilm \in Report
      BY DEF NoFilm, Report, FilmStates
    <3>3. wire' \in [Wires -> Beat]
      BY <2>13, AbandonType DEF Stop
    <3>4. faults' \in 0..MaxFaults
      BY <2>13 DEF Stop, TypeOK
    <3> QED BY <2>13, <3>1, <3>2, <3>3, <3>4 DEF Stop, TypeOK, server
  <2>14. CASE FarewellEnds
    <3>1. farewell \in Posts /\ Free \in Beat
      BY DEF TypeOK, Free, Beat, FilmStates
    <3>2. [farewell EXCEPT !.on = None] \in Posts
      BY <3>1 DEF Posts
    <3> QED BY <2>14, <3>1, <3>2 DEF FarewellEnds, TypeOK, server
  <2>15. CASE GiveUp
    <3>1. wire' \in [Wires -> Beat] /\ faults' \in 0..MaxFaults
      BY <2>15, AbandonType DEF GiveUp, TypeOK
    <3> QED BY <2>15, <3>1 DEF GiveUp, TypeOK, server
  <2>16. CASE ServerRestart
    <3>1. Free \in Beat /\ Gone \in Call /\ Unseen \in Seen
      BY DEF Free, Beat, Gone, Call, Unseen, Seen, FilmStates
    <3>2. [farewell EXCEPT !.on = None] \in Posts
      BY DEF TypeOK, Posts
    <3>3. faults' \in 0..MaxFaults /\ launch' \in [Launches -> Call]
      BY <2>16, <3>1 DEF ServerRestart, TypeOK
    <3> QED BY <2>16, <3>1, <3>2, <3>3 DEF ServerRestart, TypeOK, Seed
  <2>17. CASE AppRestart
    <3>1. NoPosts \in Posts /\ NoFilm \in Report /\ Free \in Beat
      BY DEF NoPosts, Posts, NoFilm, Report, Free, Beat, FilmStates
    <3>2. faults' \in 0..MaxFaults /\ wire' \in [Wires -> Beat]
      BY <2>17, <3>1 DEF AppRestart, TypeOK
    <3>3. acted' \in Seq(1..MaxOrders) /\ running' \in BOOLEAN
      <4>1. acted' = << >>
        BY <2>17 DEF AppRestart
      <4>2. acted' \in Seq(1..MaxOrders)
        BY <4>1
      <4>3. running' \in BOOLEAN
        BY <2>17 DEF AppRestart
      <4> QED BY <4>2, <4>3
    <3>4. /\ awaited' \in Wires \cup {None} /\ farewell' \in Posts /\ film' \in Report
          /\ pendingAck' \in 0..MaxOrders /\ lastHandled' \in 0..MaxOrders
      BY <2>17, <3>1 DEF AppRestart
    <3>5. UNCHANGED <<slot, stale, seq, seen, launch, done>>
      BY <2>17 DEF AppRestart, server
    <3> QED BY <3>2, <3>3, <3>4, <3>5 DEF TypeOK
  <2>18. CASE UNCHANGED vars
    BY <2>18 DEF vars, server, app, TypeOK
  <2> QED
    BY <2>1, <2>2, <2>3, <2>4, <2>5, <2>6, <2>7, <2>8, <2>9, <2>10, <2>11, <2>12, <2>13, <2>14,
       <2>15, <2>16, <2>17, <2>18 DEF Next
<1> QED BY <1>1, <1>2, PTL DEF Spec

(***************************************************************************)
(* Acknowledgements.                                                       *)
(***************************************************************************)

(* The orders there are traces of: acted on, in the slot, in a reply. *)
Known == done \cup {slot, NoOrder} \cup {wire[w].order : w \in Wires}

(* A number stands for one order, and none is past the counter. *)
Numbered ==
  /\ \A o \in Known : o.seq <= seq
  /\ \A o, p \in Known : o.seq = p.seq => o = p

(* A number that was taken note of as acted on is that of such an order. *)
ActedNumbers == {0} \cup {o.seq : o \in done}
AckInv ==
  /\ seen.acked \in ActedNumbers /\ pendingAck \in ActedNumbers /\ lastHandled \in ActedNumbers
  /\ \A w \in Wires : wire[w].ack \in ActedNumbers

(* Every step either queues an order, under a new number, or keeps to those
   known. *)
Queued ==
  /\ slot' \in Order /\ slot'.seq = seq + 1 /\ seq' = seq + 1
  /\ done' = done /\ wire' = wire
Kept ==
  /\ seq' = seq /\ slot' \in Known /\ done' \subseteq Known
  /\ \A w \in Wires : wire'[w].order \in Known

LEMMA KeptAnswer ==
  ASSUME NEW w, NEW o \in Known PROVE Answered(w, o).order \in Known
<1>1. [Free EXCEPT !.pc = "answered", !.state = wire[w].state, !.order = o].order = o
  BY DEF Free
<1>2. Free.order \in Known
  BY DEF Free, Known
<1> QED BY <1>1, <1>2 DEF Answered

LEMMA OrdersKept == TypeOK /\ [Next]_vars => Queued \/ Kept
<1> SUFFICES ASSUME TypeOK, [Next]_vars PROVE Queued \/ Kept
  OBVIOUS
<1>0. /\ slot \in Known /\ NoOrder \in Known /\ done \subseteq Known
      /\ \A w \in Wires : wire[w].order \in Known
  BY DEF Known
<1>f. Free.order = NoOrder
  BY DEF Free
<1>1. CASE StopOrder
  BY <1>1, AppCmdType DEF StopOrder, Queued, app
<1>2. ASSUME NEW l \in Launches, NEW f \in Films, Launch(l, f) PROVE Queued
  BY <1>2, AppCmdType DEF Launch, Queued, app
<1>3. CASE Expire \/ Player \/ Start
  BY <1>3, <1>0 DEF Expire, Player, Start, Kept, server, app
<1>4. ASSUME NEW l \in Launches, LaunchEnds(l) \/ LaunchGivesUp(l) PROVE Kept
  BY <1>4, <1>0 DEF LaunchEnds, LaunchGivesUp, AppCmdClear, Kept, server, app
<1>5. ASSUME NEW w \in Wires, Heartbeat(w) PROVE Kept
  <2>1. Pending(wire[w].ack) \in Known
    BY <1>0, PendingType
  <2>2. [wire[w] EXCEPT !.pc = "held"].order \in Known
    BY <1>0 DEF TypeOK, Beat
  <2>3. \A v \in Wires : wire'[v].order \in Known
    BY <1>5, <1>0, <2>1, <2>2, KeptAnswer DEF Heartbeat, TypeOK
  <2> QED BY <1>5, <1>0, <2>1, <2>3 DEF Heartbeat, Kept, app
<1>6. ASSUME NEW w \in Wires, HeartbeatReturns(w) PROVE Kept
  BY <1>6, <1>0, KeptAnswer DEF HeartbeatReturns, Kept, TypeOK, server, app
<1>7. ASSUME NEW w \in Wires, Send(w) \/ Farewell(w) PROVE Kept
  BY <1>7, <1>0 DEF Send, Farewell, Post, Kept, TypeOK, server
<1>8. ASSUME NEW w \in Wires, Lose(w) PROVE Kept
  BY <1>8, <1>0, <1>f DEF Lose, Kept, TypeOK, server, app
<1>9. CASE Reply
  <2>1. awaited \in Wires /\ wire' = [wire EXCEPT ![awaited] = Free]
    BY <1>9 DEF Reply, TypeOK
  <2>2. done' = done \/ done' = done \cup {wire[awaited].order}
    BY <1>9 DEF Reply
  <2>3. \A w \in Wires : wire'[w].order \in Known
    BY <2>1, <1>0, <1>f DEF TypeOK
  <2> QED BY <1>9, <1>0, <2>1, <2>2, <2>3 DEF Reply, Kept, server
<1>10. CASE Stop \/ GiveUp
  BY <1>10, <1>0, <1>f DEF Stop, GiveUp, Abandon, Kept, server
<1>11. CASE FarewellEnds
  BY <1>11, <1>0, <1>f DEF FarewellEnds, Kept, TypeOK, server
<1>12. CASE ServerRestart
  BY <1>12, <1>0, <1>f DEF ServerRestart, Seed, Kept
<1>13. CASE AppRestart
  BY <1>13, <1>0, <1>f DEF AppRestart, Kept, server
<1>14. CASE UNCHANGED vars
  BY <1>14, <1>0 DEF vars, server, app, Kept
<1> QED BY <1>1, <1>2, <1>3, <1>4, <1>5, <1>6, <1>7, <1>8, <1>9, <1>10, <1>11, <1>12, <1>13, <1>14
    DEF Next

LEMMA NumberedStep == TypeOK /\ Numbered /\ [Next]_vars => Numbered'
<1> SUFFICES ASSUME TypeOK, Numbered, Queued \/ Kept PROVE Numbered'
  BY OrdersKept
<1>1. CASE Queued
  <2>1. Known' \subseteq Known \cup {slot'}
    BY <1>1 DEF Queued, Known
  <2>2. \A o \in Known : o.seq <= seq /\ o.seq # seq + 1 /\ o.seq <= seq + 1
    <3>1. \A o \in Known : o \in Order \cup {NoOrder}
      BY DEF Known, TypeOK, Beat
    <3> QED BY <3>1, NoOrderFacts DEF Numbered, TypeOK
  <2> QED BY <1>1, <2>1, <2>2 DEF Queued, Numbered, TypeOK
<1>2. CASE Kept
  <2>1. Known' \subseteq Known
    BY <1>2 DEF Kept, Known
  <2> QED BY <1>2, <2>1 DEF Kept, Numbered
<1> QED BY <1>1, <1>2

LEMMA DoneGrows == [Next]_vars => done \subseteq done'
BY DEF Next, StopOrder, Expire, Launch, LaunchEnds, LaunchGivesUp, Heartbeat, HeartbeatReturns,
   Send, Farewell, Lose, Reply, Player, Start, Stop, FarewellEnds, GiveUp, ServerRestart,
   AppRestart, vars, app

LEMMA AckStep == TypeOK /\ AckInv /\ [Next]_vars => AckInv'
<1> SUFFICES ASSUME TypeOK, AckInv, [Next]_vars PROVE AckInv'
  OBVIOUS
<1>0. ActedNumbers \subseteq ActedNumbers'
  BY DoneGrows DEF ActedNumbers
<1>z. 0 \in ActedNumbers' /\ Free.ack = 0 /\ Unseen.acked = 0
  BY DEF ActedNumbers, Free, Unseen
<1>1. CASE StopOrder
  BY <1>1, <1>0 DEF StopOrder, AckInv, app
<1>2. ASSUME NEW l \in Launches, NEW f \in Films, Launch(l, f) PROVE AckInv'
  BY <1>2, <1>0 DEF Launch, AckInv, app
<1>3. CASE Expire \/ Player \/ Start
  BY <1>3, <1>0 DEF Expire, Player, Start, AckInv, server, app
<1>4. ASSUME NEW l \in Launches, LaunchEnds(l) \/ LaunchGivesUp(l) PROVE AckInv'
  BY <1>4, <1>0 DEF LaunchEnds, LaunchGivesUp, AckInv, server, app
<1>5. ASSUME NEW w \in Wires, NEW o, Answered(w, o).ack # 0 PROVE FALSE
  BY <1>5 DEF Answered, Free
<1>6. ASSUME NEW w \in Wires, Heartbeat(w) PROVE AckInv'
  <2>1. seen'.acked \in ActedNumbers'
    BY <1>6, <1>0 DEF Heartbeat, Reports, AckInv
  <2>2. [wire[w] EXCEPT !.pc = "held"].ack = wire[w].ack
    BY DEF TypeOK, Beat
  <2>3. \A v \in Wires : wire'[v].ack = wire[v].ack \/ wire'[v].ack = 0
    BY <1>6, <1>5, <2>2 DEF Heartbeat, TypeOK
  <2>4. UNCHANGED <<pendingAck, lastHandled>>
    BY <1>6 DEF Heartbeat, app
  <2> QED BY <1>0, <1>z, <2>1, <2>3, <2>4 DEF AckInv
<1>7. ASSUME NEW w \in Wires, HeartbeatReturns(w) PROVE AckInv'
  <2>1. \A v \in Wires : wire'[v].ack = wire[v].ack \/ wire'[v].ack = 0
    BY <1>7, <1>5 DEF HeartbeatReturns, TypeOK
  <2> QED BY <1>7, <1>0, <1>z, <2>1 DEF HeartbeatReturns, AckInv, server, app
<1>8. ASSUME NEW w \in Wires, Send(w) \/ Farewell(w) PROVE AckInv'
  <2>1. \A v \in Wires : wire'[v].ack \in {wire[v].ack, pendingAck, 0}
    BY <1>8 DEF Send, Farewell, Post, TypeOK
  <2> QED BY <1>8, <1>0, <1>z, <2>1 DEF Send, Farewell, AckInv, server
<1>9. ASSUME NEW w \in Wires, Lose(w) PROVE AckInv'
  BY <1>9, <1>0, <1>z DEF Lose, AckInv, TypeOK, server, app
<1>10. CASE Reply
  <2> DEFINE o == wire[awaited].order
  <2>1. awaited \in Wires /\ o \in Order \cup {NoOrder}
    BY <1>10 DEF Reply, TypeOK, Beat
  <2>2. \A v \in Wires : wire'[v].ack = wire[v].ack \/ wire'[v].ack = 0
    BY <1>10, <1>z DEF Reply, TypeOK
  <2>3. o.seq \in ActedNumbers' /\ lastHandled' \in ActedNumbers'
    <3>1. CASE o # NoOrder /\ o.seq # Remembered(o.seq)
      BY <1>10, <3>1 DEF Reply, ActedNumbers
    <3>2. CASE ~(o # NoOrder /\ o.seq # Remembered(o.seq))
      <4>1. o.seq = 0 \/ o.seq = Remembered(o.seq)
        BY <3>2 DEF NoOrder
      <4>2. lastHandled' = Remembered(o.seq) /\ Remembered(o.seq) \in {0, lastHandled}
        BY <1>10, <3>2 DEF Reply, Remembered
      <4> QED BY <4>1, <4>2, <1>0, <1>z DEF AckInv
    <3> QED BY <3>1, <3>2
  <2>4. pendingAck' = o.seq /\ seen' = seen
    BY <1>10 DEF Reply, server
  <2> QED BY <1>0, <1>z, <2>2, <2>3, <2>4 DEF AckInv
<1>11. CASE Stop \/ GiveUp
  BY <1>11, <1>0, <1>z DEF Stop, GiveUp, Abandon, AckInv, server
<1>12. CASE FarewellEnds
  BY <1>12, <1>0, <1>z DEF FarewellEnds, AckInv, TypeOK, server
<1>13. CASE ServerRestart
  BY <1>13, <1>0, <1>z DEF ServerRestart, AckInv
<1>14. CASE AppRestart
  BY <1>14, <1>0, <1>z DEF AppRestart, AckInv, server
<1>15. CASE UNCHANGED vars
  BY <1>15, <1>0 DEF vars, server, app, AckInv
<1> QED BY <1>1, <1>2, <1>3, <1>4, <1>6, <1>7, <1>8, <1>9, <1>10, <1>11, <1>12, <1>13, <1>14, <1>15
    DEF Next

LEMMA AckInvHolds == Spec => [](AckInv /\ Numbered)
<1>1. Init => AckInv /\ Numbered
  BY DEF Init, AckInv, ActedNumbers, Numbered, Known, Unseen, Free, NoOrder
<1> QED BY <1>1, LinkTypeCorrect, AckStep, NumberedStep, PTL DEF Spec

(* The server takes the app's word only for an order it acted on
   (app_heartbeat, PlayerLink.run). *)
THEOREM AcknowledgedWasActed == Spec => []AckedWasActed
<1>1. AckInv => AckedWasActed
  BY DEF AckInv, ActedNumbers, AckedWasActed
<1> QED BY <1>1, AckInvHolds, PTL

(* A heartbeat never takes an order out of the slot that the app did not act
   on and that is not too old (app_heartbeat). *)
THEOREM NothingEaten == Spec => OnlyActedLeaves
<1>1. ASSUME TypeOK, AckInv, Numbered, NEW w \in Wires, Heartbeat(w), slot # NoOrder, slot' = NoOrder,
             ~stale
      PROVE  slot \in done
  <2>1. slot.seq = wire[w].ack /\ slot.seq # 0
    BY <1>1, NoOrderFacts DEF Heartbeat, Pending, TypeOK
  <2>2. PICK o \in done : o.seq = slot.seq
    BY <1>1, <2>1 DEF AckInv, ActedNumbers
  <2>3. o = slot
    BY <1>1, <2>2 DEF Numbered, Known
  <2> QED BY <2>2, <2>3
<1>2. TypeOK /\ AckInv /\ Numbered
        => [\A w \in Wires : Heartbeat(w) /\ slot # NoOrder /\ slot' = NoOrder
              => stale \/ slot \in done]_vars
  BY <1>1
<1> QED BY <1>2, LinkTypeCorrect, AckInvHolds, PTL DEF OnlyActedLeaves

(* A launch that waits knows the number of its order. *)
LaunchInv == \A l \in Launches : launch[l].pc = "waiting" => launch[l].order # 0

LEMMA LaunchStep == TypeOK /\ AckInv /\ LaunchInv /\ LaunchIsTrue /\ [Next]_vars
                      => LaunchInv' /\ LaunchIsTrue'
<1> SUFFICES ASSUME TypeOK, AckInv, LaunchInv, LaunchIsTrue, [Next]_vars
             PROVE  LaunchInv' /\ LaunchIsTrue'
  OBVIOUS
<1>0. done \subseteq done'
  BY DoneGrows
<1>1. CASE launch' = launch
  BY <1>0, <1>1 DEF LaunchInv, LaunchIsTrue
<1>2. ASSUME NEW l \in Launches, NEW f \in Films, Launch(l, f) PROVE LaunchInv' /\ LaunchIsTrue'
  <2>1. seq + 1 # 0 /\ done' = done
    BY <1>2 DEF Launch, TypeOK, app
  <2>2. launch' = [launch EXCEPT ![l] = [pc |-> "waiting", film |-> f, order |-> seq + 1]]
    BY <1>2 DEF Launch
  <2> QED BY <2>1, <2>2 DEF LaunchInv, LaunchIsTrue, TypeOK
<1>3. ASSUME NEW l \in Launches, LaunchEnds(l) PROVE LaunchInv' /\ LaunchIsTrue'
  <2>1. launch[l].order # 0 /\ seen.acked >= launch[l].order
    BY <1>3 DEF LaunchEnds, LaunchInv
  <2>2. launch[l] \in Call /\ seen \in Seen
    BY DEF TypeOK
  <2>3. PICK o \in done : o.seq = seen.acked
    BY <2>1, <2>2 DEF AckInv, ActedNumbers, Call, Seen
  <2>4. o.seq >= launch[l].order
    BY <2>1, <2>3
  <2>5. \/ launch' = [launch EXCEPT ![l].pc = "playing"]
        \/ launch' = [launch EXCEPT ![l] = Gone]
    BY <1>3 DEF LaunchEnds
  <2>6. Gone.pc = "gone" /\ [launch[l] EXCEPT !.pc = "playing"].order = launch[l].order
        /\ [launch[l] EXCEPT !.pc = "playing"].pc = "playing"
    BY <2>2 DEF Gone, Call
  <2>7. done' = done
    BY <1>3 DEF LaunchEnds, app
  <2> QED BY <2>2, <2>3, <2>4, <2>5, <2>6, <2>7 DEF LaunchInv, LaunchIsTrue, TypeOK
<1>4. ASSUME NEW l \in Launches, LaunchGivesUp(l) PROVE LaunchInv' /\ LaunchIsTrue'
  BY <1>4, <1>0 DEF LaunchGivesUp, Gone, LaunchInv, LaunchIsTrue, TypeOK
<1>5. CASE ServerRestart
  BY <1>5, <1>0 DEF ServerRestart, Gone, LaunchInv, LaunchIsTrue
<1> QED BY <1>1, <1>2, <1>3, <1>4, <1>5 DEF Next, StopOrder, Expire, Heartbeat, HeartbeatReturns,
     Send, Farewell, Lose, Reply, Player, Start, Stop, FarewellEnds, GiveUp, AppRestart, vars

(* launch() says that the film plays only once the app acted on its order or
   a later one. *)
THEOREM LaunchTrue == Spec => []LaunchIsTrue
<1>1. Init => LaunchInv /\ LaunchIsTrue
  BY DEF Init, LaunchInv, LaunchIsTrue, NoCall
<1> QED BY <1>1, LinkTypeCorrect, AckInvHolds, LaunchStep, PTL DEF Spec

(***************************************************************************)
(* Orders are acted on in turn.                                            *)
(***************************************************************************)

(* The orders acted on so far come before order o. *)
After(o) == o # NoOrder => \A i \in DOMAIN acted : acted[i] < o.seq

(* The app's loop and its farewell wait for requests of their own, and the
   loop's request, until it is handled, says what the app took last. *)
WaitInv ==
  /\ awaited # None => /\ awaited # farewell.on /\ wire[awaited].pc # "free"
                       /\ wire[awaited].pc = "sent" => wire[awaited].ack = pendingAck
                       /\ wire[awaited].pc \in {"sent", "held"} => wire[awaited].order = NoOrder
  /\ farewell.on # None => wire[farewell.on].pc # "free"

(* What the app acted on is no newer than the slot, and if it is what the slot
   holds, the next request says so. *)
SlotAfter ==
  slot # NoOrder =>
    \A i \in DOMAIN acted : acted[i] <= slot.seq /\ (acted[i] = slot.seq => pendingAck = slot.seq)

(* Nothing in a reply is newer than the slot, and once the loop's request has
   been handled, what is in the slot or comes with the reply is news. *)
ReplyAfter ==
  /\ slot # NoOrder => \A w \in Wires : wire[w].order.seq <= slot.seq
  /\ awaited # None /\ wire[awaited].pc \in {"held", "answered"}
       => After(slot) /\ After(wire[awaited].order)

TurnInv ==
  /\ ActedInOrder /\ SlotAfter /\ ReplyAfter
  /\ \A i \in DOMAIN acted : acted[i] <= seq

(* A request under way is moved on by the server, never freed, while someone
   waits for it. *)
LEMMA AnswerStays ==
  ASSUME NEW w, NEW o, w \in {awaited, farewell.on}
  PROVE  Answered(w, o).pc = "answered" /\ Answered(w, o).order = o
BY DEF Answered, Free

LEMMA WaitStep == TypeOK /\ WaitInv /\ [Next]_vars => WaitInv'
<1> SUFFICES ASSUME TypeOK, WaitInv, [Next]_vars PROVE WaitInv'
  OBVIOUS
<1>0. /\ awaited \in Wires \cup {None} /\ farewell.on \in Wires \cup {None}
      /\ wire \in [Wires -> Beat] /\ farewell \in Posts
  BY DEF TypeOK, Posts
<1>1. CASE UNCHANGED <<wire, awaited, farewell, pendingAck>>
  BY <1>1 DEF WaitInv
<1>2. ASSUME NEW w \in Wires, Heartbeat(w) \/ HeartbeatReturns(w) PROVE WaitInv'
  <2>1. /\ UNCHANGED <<awaited, farewell, pendingAck>>
        /\ \A v \in Wires : v # w => wire'[v] = wire[v]
    BY <1>2, <1>0 DEF Heartbeat, HeartbeatReturns, app
  <2>2. /\ [wire[w] EXCEPT !.pc = "held"].pc = "held"
        /\ [wire[w] EXCEPT !.pc = "held"].order = wire[w].order
    BY <1>0 DEF Beat
  <2>3. w \in {awaited, farewell.on} =>
          wire'[w].pc = "answered" \/ (/\ wire'[w].pc = "held" /\ wire[w].pc = "sent"
                                       /\ wire'[w].order = wire[w].order)
    <3>1. CASE wire[w].pc = "sent" /\ wire'[w] = [wire[w] EXCEPT !.pc = "held"]
      BY <3>1, <2>2
    <3>2. ASSUME NEW o, wire'[w] = Answered(w, o), w \in {awaited, farewell.on}
          PROVE  wire'[w].pc = "answered"
      BY <3>2, AnswerStays
    <3>3. \/ wire[w].pc = "sent" /\ wire'[w] = [wire[w] EXCEPT !.pc = "held"]
          \/ wire'[w] = Answered(w, Pending(wire[w].ack))
          \/ wire'[w] = Answered(w, slot)
      BY <1>2, <1>0 DEF Heartbeat, HeartbeatReturns
    <3> QED BY <3>1, <3>2, <3>3
  <2> QED BY <1>0, <2>1, <2>3 DEF WaitInv
<1>3. ASSUME NEW w \in Wires, Send(w) PROVE WaitInv'
  <2>1. /\ awaited' = w /\ wire[w].pc = "free" /\ UNCHANGED <<farewell, pendingAck>>
        /\ wire'[w].pc = "sent" /\ wire'[w].ack = pendingAck /\ wire'[w].order = NoOrder
        /\ \A v \in Wires : v # w => wire'[v] = wire[v]
    BY <1>3, <1>0 DEF Send, Post
  <2> QED BY <1>0, <2>1 DEF WaitInv
<1>4. ASSUME NEW w \in Wires, Farewell(w) PROVE WaitInv'
  <2>1. /\ farewell'.on = w /\ wire[w].pc = "free" /\ UNCHANGED <<awaited, pendingAck>>
        /\ wire'[w].pc = "sent"
        /\ \A v \in Wires : v # w => wire'[v] = wire[v]
    BY <1>4, <1>0 DEF Farewell, Post
  <2> QED BY <1>0, <2>1 DEF WaitInv
<1>5. ASSUME NEW w \in Wires, Lose(w) PROVE WaitInv'
  <2>1. /\ w \notin {awaited, farewell.on} /\ UNCHANGED <<awaited, farewell, pendingAck>>
        /\ \A v \in Wires : v # w => wire'[v] = wire[v]
    BY <1>5, <1>0 DEF Lose, app
  <2> QED BY <1>0, <2>1 DEF WaitInv
<1>6. CASE Reply
  <2>1. /\ awaited' = None /\ farewell' = farewell
        /\ \A v \in Wires : v # awaited => wire'[v] = wire[v]
    BY <1>6, <1>0 DEF Reply
  <2> QED BY <1>0, <2>1, <1>6 DEF WaitInv, Reply
<1>7. CASE Stop \/ GiveUp
  <2>1. /\ awaited' = None /\ farewell'.on = farewell.on
        /\ \A v \in Wires : v # awaited => wire'[v] = wire[v]
    BY <1>7, <1>0 DEF Stop, GiveUp, Abandon
  <2> QED BY <1>0, <2>1 DEF WaitInv
<1>8. CASE FarewellEnds
  <2>1. /\ awaited' = awaited /\ farewell'.on = None /\ pendingAck' = pendingAck
        /\ \A v \in Wires : v # farewell.on => wire'[v] = wire[v]
    BY <1>8, <1>0 DEF FarewellEnds, Posts
  <2> QED BY <1>0, <2>1 DEF WaitInv
<1>9. CASE ServerRestart
  <2>1. awaited' = None /\ farewell'.on = None
    BY <1>9, <1>0 DEF ServerRestart, Posts
  <2> QED BY <2>1 DEF WaitInv
<1>10. CASE AppRestart
  BY <1>10 DEF AppRestart, WaitInv, NoPosts
<1> QED BY <1>1, <1>2, <1>3, <1>4, <1>5, <1>6, <1>7, <1>8, <1>9, <1>10 DEF Next, StopOrder, Expire,
     Launch, LaunchEnds, LaunchGivesUp, Player, Start, vars, app

(* What each step does to the slot and to the replies, as far as the order of
   things is concerned.  A new order is newer than everything there is. *)
NewOrder ==
  /\ slot' \in Order /\ slot'.seq = seq + 1 /\ seq' = seq + 1
  /\ UNCHANGED <<wire, awaited, pendingAck, acted>>

(* The server hands out what is in the slot. *)
Handled(w) ==
  /\ slot' \in {slot, NoOrder} /\ UNCHANGED <<seq, awaited, pendingAck, acted>>
  /\ \A v \in Wires : v # w => wire'[v] = wire[v]
  /\ wire'[w].order \in {wire[w].order, slot', NoOrder}
  /\ w = awaited => /\ wire[w].pc \in {"sent", "held"}
                    /\ wire[w].pc = "sent" => (slot' # NoOrder => slot'.seq # wire[w].ack)
                    /\ wire[w].pc = "held" => wire'[w].order = slot' /\ slot' = slot
                    /\ wire'[w].order \in {slot', NoOrder} \/ slot' = NoOrder

(* The app waits for nothing afterwards, or for a request it has just made;
   no reply and no order is new. *)
Quiet ==
  /\ slot' \in {slot, NoOrder} /\ seq' = seq
  /\ \A v \in Wires : wire'[v].order \in {wire[v].order, NoOrder}
  /\ \/ /\ UNCHANGED <<awaited, acted, pendingAck>>
        /\ awaited # None => wire'[awaited] = wire[awaited]
     \/ /\ awaited' # None => wire'[awaited'].pc = "sent"
        /\ acted' = << >> \/ UNCHANGED <<acted, pendingAck>>

LEMMA TurnMoves ==
  ASSUME TypeOK, WaitInv, [Next]_vars
  PROVE  NewOrder \/ Quiet \/ Reply \/ \E w \in Wires : Handled(w)
<1>0. /\ awaited \in Wires \cup {None} /\ farewell.on \in Wires \cup {None}
      /\ wire \in [Wires -> Beat] /\ Free.order = NoOrder
  BY DEF TypeOK, Posts, Free
<1>1. CASE StopOrder
  BY <1>1, AppCmdType DEF StopOrder, NewOrder, app
<1>2. ASSUME NEW l \in Launches, NEW f \in Films, Launch(l, f) PROVE NewOrder
  BY <1>2, AppCmdType DEF Launch, NewOrder, app
<1>3. CASE Expire \/ Player \/ Start \/ UNCHANGED vars
  BY <1>3 DEF Expire, Player, Start, Quiet, vars, server, app
<1>4. ASSUME NEW l \in Launches, LaunchEnds(l) \/ LaunchGivesUp(l) PROVE Quiet
  BY <1>4 DEF LaunchEnds, LaunchGivesUp, AppCmdClear, Quiet, server, app
<1>5. ASSUME NEW w \in Wires, Heartbeat(w) PROVE Handled(w)
  <2> DEFINE left == Pending(wire[w].ack)
  <2>1. /\ slot' = left /\ UNCHANGED <<seq, awaited, pendingAck, acted>> /\ wire[w].pc = "sent"
        /\ \A v \in Wires : v # w => wire'[v] = wire[v]
    BY <1>5, <1>0 DEF Heartbeat, app
  <2>2. left \in {slot, NoOrder} /\ (left # NoOrder => left.seq # wire[w].ack)
    BY DEF Pending
  <2>3. [wire[w] EXCEPT !.pc = "held"].order = wire[w].order
    BY <1>0 DEF Beat
  <2>4. /\ left # NoOrder => wire'[w] = Answered(w, left)
        /\ left = NoOrder => wire'[w] = Answered(w, NoOrder) \/ wire'[w].order = wire[w].order
    BY <1>5, <1>0, <2>3 DEF Heartbeat
  <2>5. \A o : Answered(w, o).order \in {o, NoOrder}
    BY <1>0, AnswerStays DEF Answered
  <2> HIDE DEF left
  <2> QED BY <2>1, <2>2, <2>4, <2>5 DEF Handled
<1>6. ASSUME NEW w \in Wires, HeartbeatReturns(w) PROVE Handled(w)
  <2>1. /\ UNCHANGED <<slot, seq, awaited, pendingAck, acted>> /\ wire[w].pc = "held"
        /\ \A v \in Wires : v # w => wire'[v] = wire[v]
        /\ wire'[w] = Answered(w, slot)
    BY <1>6, <1>0 DEF HeartbeatReturns, server, app
  <2>2. Answered(w, slot).order \in {slot, NoOrder} /\ (w = awaited => Answered(w, slot).order = slot)
    BY <1>0, AnswerStays DEF Answered
  <2> QED BY <2>1, <2>2 DEF Handled
<1>7. ASSUME NEW w \in Wires, Send(w) PROVE Quiet
  BY <1>7, <1>0 DEF Send, Post, Quiet, server
<1>8. ASSUME NEW w \in Wires, Farewell(w) PROVE Quiet
  <2>1. w # awaited
    BY <1>8 DEF Farewell, Post, WaitInv
  <2> QED BY <1>8, <1>0, <2>1 DEF Farewell, Post, Quiet, server
<1>9. ASSUME NEW w \in Wires, Lose(w) PROVE Quiet
  BY <1>9, <1>0 DEF Lose, Quiet, server, app
<1>10. CASE Stop \/ GiveUp
  BY <1>10, <1>0 DEF Stop, GiveUp, Abandon, Quiet, server
<1>11. CASE FarewellEnds
  BY <1>11, <1>0 DEF FarewellEnds, Quiet, WaitInv, server
<1>12. CASE ServerRestart
  BY <1>12, <1>0 DEF ServerRestart, Seed, Quiet
<1>13. CASE AppRestart
  BY <1>13, <1>0 DEF AppRestart, Quiet, server
<1> QED BY <1>1, <1>2, <1>3, <1>4, <1>5, <1>6, <1>7, <1>8, <1>9, <1>10, <1>11, <1>12, <1>13
    DEF Next

LEMMA TurnStep ==
  ASSUME TypeOK, TypeOK', Numbered, Numbered', WaitInv, WaitInv', TurnInv, [Next]_vars
  PROVE  TurnInv'
<1>0. /\ acted \in Seq(1..MaxOrders) /\ seq \in Nat /\ awaited \in Wires \cup {None}
      /\ slot \in Order \cup {NoOrder}
      /\ \A w \in Wires : wire[w] \in Beat /\ wire[w].order \in Order \cup {NoOrder}
  BY DEF TypeOK, Beat
<1>n. /\ slot.seq <= seq /\ \A w \in Wires : wire[w].order.seq <= seq
      /\ NoOrder.seq = 0
  BY DEF Numbered, Known, NoOrder
<1>t. /\ \A i \in DOMAIN acted : acted[i] \in Nat
      /\ slot.seq \in Nat /\ \A w \in Wires : wire[w].order.seq \in Nat
  BY <1>0, NoOrderFacts
<1>1. CASE NewOrder
  <2>1. slot'.seq > seq /\ slot'.seq \in Nat /\ slot' # NoOrder
    BY <1>1, <1>0, <1>n DEF NewOrder
  <2>2. \A i \in DOMAIN acted : acted[i] < slot'.seq
    BY <2>1, <1>0, <1>t DEF TurnInv
  <2>3. ActedInOrder' /\ SlotAfter'
    BY <1>1, <2>1, <2>2, <1>t DEF NewOrder, TurnInv, ActedInOrder, SlotAfter
  <2>4. ReplyAfter'
    BY <1>1, <1>0, <1>n, <1>t, <2>1, <2>2 DEF NewOrder, TurnInv, ReplyAfter, After
  <2>5. \A i \in DOMAIN acted' : acted'[i] <= seq'
    BY <1>1, <2>1, <2>2, <1>0, <1>t DEF NewOrder
  <2> QED BY <2>3, <2>4, <2>5 DEF TurnInv
<1>2. CASE Quiet
  <2>1. acted' = << >> \/ acted' = acted
    BY <1>2 DEF Quiet
  <2>2. ActedInOrder' /\ \A i \in DOMAIN acted' : acted'[i] <= seq'
    BY <1>2, <2>1 DEF Quiet, TurnInv, ActedInOrder
  <2>3. SlotAfter'
    BY <1>2 DEF Quiet, TurnInv, SlotAfter
  <2>4. slot' # NoOrder => \A w \in Wires : wire'[w].order.seq <= slot'.seq
    BY <1>2, <1>n, <1>t DEF Quiet, TurnInv, ReplyAfter
  <2>5. awaited' # None /\ wire'[awaited'].pc \in {"held", "answered"}
          => After(slot)' /\ After(wire[awaited].order)'
    BY <1>2 DEF Quiet, TurnInv, ReplyAfter, After
  <2> QED BY <2>2, <2>3, <2>4, <2>5 DEF TurnInv, ReplyAfter
<1>3. ASSUME NEW w \in Wires, Handled(w) PROVE TurnInv'
  <2>1. ActedInOrder' /\ SlotAfter' /\ \A i \in DOMAIN acted' : acted'[i] <= seq'
    BY <1>3 DEF Handled, TurnInv, ActedInOrder, SlotAfter
  <2>2. slot' # NoOrder => \A v \in Wires : wire'[v].order.seq <= slot'.seq
    BY <1>3, <1>n, <1>t DEF Handled, TurnInv, ReplyAfter
  <2>3. ASSUME awaited' # None, wire'[awaited'].pc \in {"held", "answered"}
        PROVE  After(slot)' /\ After(wire[awaited].order)'
    <3>1. CASE w # awaited
      BY <1>3, <1>0, <2>3, <3>1 DEF Handled, TurnInv, ReplyAfter, After
    <3>2. CASE w = awaited /\ wire[w].pc = "sent"
      <4>1. wire[w].order = NoOrder /\ wire[w].ack = pendingAck
        BY <1>3, <2>3, <3>2 DEF Handled, WaitInv
      <4>2. slot' # NoOrder => \A i \in DOMAIN acted : acted[i] < slot'.seq
        BY <1>3, <1>t, <3>2, <4>1 DEF Handled, TurnInv, SlotAfter
      <4>3. wire'[w].order \in {slot', NoOrder} /\ UNCHANGED <<awaited, acted>>
        BY <1>3, <4>1 DEF Handled
      <4> QED BY <3>2, <4>2, <4>3 DEF After
    <3>3. CASE w = awaited /\ wire[w].pc = "held"
      BY <1>3, <2>3, <3>3 DEF Handled, TurnInv, ReplyAfter, After
    <3> QED BY <1>3, <3>1, <3>2, <3>3 DEF Handled
  <2> QED BY <2>1, <2>2, <2>3 DEF TurnInv, ReplyAfter
<1>4. CASE Reply
  <2> DEFINE o == wire[awaited].order
  <2>1. /\ awaited \in Wires /\ wire[awaited].pc = "answered" /\ awaited' = None
        /\ pendingAck' = o.seq /\ UNCHANGED <<slot, seq>>
        /\ wire' = [wire EXCEPT ![awaited] = Free]
    BY <1>4, <1>0 DEF Reply, server
  <2>2. /\ After(slot) /\ After(o) /\ (slot # NoOrder => o.seq <= slot.seq)
    BY <2>1 DEF TurnInv, ReplyAfter
  <2>3. \A v \in Wires : wire'[v].order \in {wire[v].order, NoOrder}
    BY <2>1 DEF TypeOK, Free
  <2>4. ReplyAfter'
    BY <2>1, <2>3, <1>n, <1>t DEF TurnInv, ReplyAfter
  <2>5. CASE acted' = acted
    BY <2>1, <2>2, <2>4, <2>5, <1>t DEF TurnInv, ActedInOrder, SlotAfter, After
  <2>6. CASE o # NoOrder /\ acted' = Append(acted, o.seq)
    <3>1. \A i \in DOMAIN acted : acted[i] < o.seq
      BY <2>2, <2>6 DEF After
    <3>2. /\ DOMAIN acted' = 1..(Len(acted) + 1) /\ acted'[Len(acted) + 1] = o.seq
          /\ \A i \in DOMAIN acted : acted'[i] = acted[i]
          /\ DOMAIN acted = 1..Len(acted) /\ Len(acted) \in Nat
      BY <2>6, <1>0
    <3>3. \A i \in DOMAIN acted' : i \in DOMAIN acted \/ i = Len(acted) + 1
      BY <3>2
    <3> HIDE DEF o
    <3>4. ActedInOrder'
      BY <3>1, <3>2, <3>3 DEF TurnInv, ActedInOrder
    <3>5. SlotAfter'
      BY <2>1, <2>2, <3>1, <3>2, <3>3, <1>t DEF SlotAfter, After
    <3>6. o.seq <= seq
      BY <2>1, <1>n DEF o
    <3>7. \A i \in DOMAIN acted' : acted'[i] <= seq'
      BY <2>1, <3>2, <3>3, <3>6 DEF TurnInv
    <3> QED BY <2>4, <3>4, <3>5, <3>7 DEF TurnInv
  <2>7. acted' = acted \/ (o # NoOrder /\ acted' = Append(acted, o.seq))
    BY <1>4 DEF Reply
  <2> QED BY <2>5, <2>6, <2>7
<1> QED BY <1>1, <1>2, <1>3, <1>4, TurnMoves

(* One app process acts on the orders in turn, each once (PlayerLink.run,
   app_heartbeat). *)
THEOREM OrdersInTurn == Spec => []ActedInOrder
<1>1. Init => WaitInv /\ TurnInv
  BY DEF Init, WaitInv, TurnInv, ActedInOrder, SlotAfter, ReplyAfter, NoPosts
<1>2. TurnInv => ActedInOrder
  BY DEF TurnInv
<1> QED BY <1>1, <1>2, LinkTypeCorrect, AckInvHolds, WaitStep, TurnStep, PTL DEF Spec
=============================================================================
