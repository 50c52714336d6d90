------------------------------ MODULE AppLink ------------------------------
(***************************************************************************)
(* The link between the server and the TV app (app_cmd, app_cmd_clear,     *)
(* app_heartbeat and launch of tvlink.py; PlayerLink.kt of the app).       *)
(*                                                                         *)
(* The server cannot dial the TV.  The app posts its state and the number  *)
(* of the order it took last, and the reply brings the order in the slot,  *)
(* if there is one; with nothing in the slot the server holds the request  *)
(* until there is.  An order stays in the slot, and in every reply, until  *)
(* it is acknowledged, replaced, taken back or too old.                    *)
(*                                                                         *)
(* A request may be lost on either way, and one the app gave up on may     *)
(* still be handled later, after a newer one.  The server restarts with an *)
(* empty slot, the app with an empty memory.                               *)
(***************************************************************************)
EXTENDS Integers, Sequences, FiniteSets

CONSTANTS
  Launches,     \* launch() calls, each on a worker's thread
  Films,        \* the jobs they launch
  Wires,        \* heartbeat requests that can be under way at once
  None,         \* no film, no request
  MaxOrders,    \* bound: order numbers used
  MaxFaults     \* bound: requests given up on and restarts, together

ASSUME NoneIsNothing == None \notin Films /\ None \notin Wires
ASSUME BoundsAssumption == MaxOrders \in Nat /\ MaxFaults \in Nat

VARIABLES
  slot,         \* _app_cmd
  stale,        \* whether the order in the slot is older than APP_CMD_TTL
  seq,          \* _app_seq
  seen,         \* _app: what the last heartbeat handled said
  launch,       \* the launch() calls
  wire,         \* heartbeats: in the network, in app_heartbeat(), answered
  awaited,      \* the request the app's loop waits for
  running,      \* whether the loop runs (the activity is on screen)
  farewell,     \* the posts stop() still has to make, and the one it waits for
  pendingAck, lastHandled,  \* of PlayerLink, 0 for null
  film,         \* the app's player
  acted,        \* history: the orders this app process acted on, in turn
  done,         \* history: the orders any app process acted on
  faults        \* bound

server == <<slot, stale, seq, seen>>
app    == <<awaited, running, farewell, pendingAck, lastHandled, film, acted, done>>
vars   == <<server, launch, wire, app, faults>>

NoOrder == [seq |-> 0, type |-> "none", film |-> None]
Order   == [seq : 1..MaxOrders, type : {"play", "stop"}, film : Films \cup {None}]

(* "playing" stands for buffering, playing and paused, which the protocol
   treats alike; a held play waits behind the autoplay countdown. *)
FilmStates == {"idle", "held", "playing", "error"}
Report     == [film : Films \cup {None}, state : FilmStates]
NoFilm     == [film |-> None, state |-> "idle"]

Seen   == [film : Films \cup {None}, state : FilmStates, acked : 0..MaxOrders]
Unseen == [film |-> None, state |-> "idle", acked |-> 0]

Call   == [pc : {"idle", "waiting", "playing", "gone"}, film : Films \cup {None},
           order : 0..MaxOrders]
NoCall == [pc |-> "idle", film |-> None, order |-> 0]
Gone   == [pc |-> "gone", film |-> None, order |-> 0]

Beat == [pc : {"free", "sent", "held", "answered"}, ack : 0..MaxOrders, film : Films \cup {None},
         state : FilmStates, poll : BOOLEAN, order : Order \cup {NoOrder}]
Free == [pc |-> "free", ack |-> 0, film |-> None, state |-> "idle", poll |-> FALSE,
         order |-> NoOrder]

Posts   == [left : 0..2, on : Wires \cup {None}, report : Report]
NoPosts == [left |-> 0, on |-> None, report |-> NoFilm]

Init ==
  /\ slot = NoOrder /\ stale = FALSE /\ seq = 0 /\ seen = Unseen
  /\ launch = [l \in Launches |-> NoCall]
  /\ wire = [w \in Wires |-> Free]
  /\ awaited = None /\ running = FALSE /\ farewell = NoPosts
  /\ pendingAck = 0 /\ lastHandled = 0 /\ film = NoFilm
  /\ acted = << >> /\ done = {} /\ faults = 0

(***************************************************************************)
(* The server's orders.                                                    *)
(***************************************************************************)

(* app_cmd: the new order replaces what the app has not taken. *)
AppCmd(type, f) ==
  /\ seq < MaxOrders
  /\ seq' = seq + 1 /\ stale' = FALSE
  /\ slot' = [seq |-> seq + 1, type |-> type, film |-> f]
AppCmdClear(n) ==
  /\ slot' = IF slot.seq = n THEN NoOrder ELSE slot
  /\ stale' = (stale /\ slot.seq # n)

(* POST /api/stop *)
StopOrder ==
  /\ AppCmd("stop", None)
  /\ UNCHANGED <<seen, launch, wire, app, faults>>

(* launch(): with an app on the line, queue the order and wait for it to
   report the film, trusting the report only once it acknowledged an order
   no older than this.  (That the last heartbeat is recent is not modelled: a
   silent app only keeps these two steps from being taken.) *)
Launch(l, f) ==
  /\ launch[l].pc = "idle"
  /\ AppCmd("play", f)
  /\ launch' = [launch EXCEPT ![l] = [pc |-> "waiting", film |-> f, order |-> seq + 1]]
  /\ UNCHANGED <<seen, wire, app, faults>>

(* As if the state were trusted without its acknowledgement. *)
LaunchTrusts(l) ==
  /\ launch[l].pc = "waiting"
  /\ seen.film = launch[l].film
  /\ \/ seen.state = "playing" /\ launch' = [launch EXCEPT ![l].pc = "playing"]
     \/ seen.state = "error" /\ launch' = [launch EXCEPT ![l] = Gone]
  /\ UNCHANGED <<server, wire, app, faults>>

LaunchEnds(l) ==
  /\ launch[l].pc = "waiting"
  /\ seen.film = launch[l].film /\ seen.acked >= launch[l].order
  /\ \/ seen.state = "playing" /\ launch' = [launch EXCEPT ![l].pc = "playing"]
     \/ seen.state = "error" /\ launch' = [launch EXCEPT ![l] = Gone]
  /\ UNCHANGED <<server, wire, app, faults>>

(* Superseded, or at its deadline: the order is taken back if it is there. *)
LaunchGivesUp(l) ==
  /\ launch[l].pc = "waiting"
  /\ AppCmdClear(launch[l].order)
  /\ launch' = [launch EXCEPT ![l] = Gone]
  /\ UNCHANGED <<seq, seen, wire, app, faults>>

(* Time: APP_CMD_TTL seconds with an order in the slot.  A request is held for
   far less, so none that was held when the order came is held still. *)
Expire ==
  /\ slot # NoOrder /\ ~stale /\ \A w \in Wires : wire[w].pc # "held"
  /\ stale' = TRUE
  /\ UNCHANGED <<slot, seq, seen, launch, wire, app, faults>>

(***************************************************************************)
(* app_heartbeat(): a thread per request, one critical section up to the   *)
(* wait and one after it.                                                  *)
(***************************************************************************)

(* What is left in the slot once a heartbeat with this ack has been seen. *)
Pending(ack) == IF stale \/ slot.seq = ack THEN NoOrder ELSE slot

(* The reply, which is dropped at once if nobody waits for it any more. *)
Answered(w, o) ==
  IF w \in {awaited, farewell.on} THEN [Free EXCEPT !.pc = "answered", !.state = wire[w].state, !.order = o]
  ELSE Free

(* As if an order handed out counted as acknowledged. *)
ReportsDelivered(w) == seen' = [film |-> wire[w].film, state |-> wire[w].state,
                                acked |-> IF slot # NoOrder THEN slot.seq ELSE seen.acked]

Reports(w) == seen' = [film |-> wire[w].film, state |-> wire[w].state,
                       acked |-> IF wire[w].ack # 0 THEN wire[w].ack ELSE seen.acked]

(* As if the acknowledgement were not looked at. *)
HeartbeatDeaf(w) ==
  /\ wire[w].pc = "sent"
  /\ Reports(w)
  /\ wire' = [wire EXCEPT ![w] = IF slot = NoOrder /\ wire[w].poll THEN [wire[w] EXCEPT !.pc = "held"]
                                 ELSE Answered(w, slot)]
  /\ UNCHANGED <<slot, stale, seq, launch, app, faults>>

Heartbeat(w) ==
  LET left == Pending(wire[w].ack) IN
  /\ wire[w].pc = "sent"
  /\ Reports(w)
  /\ slot' = left /\ stale' = FALSE
  /\ wire' = [wire EXCEPT ![w] = IF left = NoOrder /\ wire[w].poll THEN [wire[w] EXCEPT !.pc = "held"]
                                 ELSE Answered(w, left)]
  /\ UNCHANGED <<seq, launch, app, faults>>

(* The wait ends with an order, or at its deadline with none. *)
HeartbeatReturns(w) ==
  /\ wire[w].pc = "held"
  /\ wire' = [wire EXCEPT ![w] = Answered(w, slot)]
  /\ UNCHANGED <<server, launch, app, faults>>

(***************************************************************************)
(* The app: PlayerLink's loop and the player it drives.                    *)
(***************************************************************************)

(* What the app reports of its player; a play held back behind a countdown
   is not reported yet. *)
Reported == IF film.state = "held" THEN NoFilm ELSE film

Post(w, ack, r, poll) ==
  /\ wire[w].pc = "free"
  /\ wire' = [wire EXCEPT ![w] = [pc |-> "sent", ack |-> ack, film |-> r.film,
                                  state |-> r.state, poll |-> poll, order |-> NoOrder]]

Send(w) ==
  /\ running /\ awaited = None
  /\ Post(w, pendingAck, Reported, film.state \in {"idle", "error"})
  /\ awaited' = w
  /\ UNCHANGED <<server, launch, running, farewell, pendingAck, lastHandled, film, acted, done, faults>>

(* What the reply leaves of the memory of the last order acted on. *)
Remembered(n) == IF n = 0 \/ n < lastHandled THEN 0 ELSE lastHandled

(* The reply: acknowledge what came from now on, and act on it unless it is
   the one acted on last.  An error that has been reported is retired.  A play
   waits if the countdown is to it, and is ignored while the app is locked. *)
Reply ==
  LET w == awaited
      o == wire[w].order
      memory == Remembered(o.seq)
      rest == IF wire[w].state = "error" /\ film.state = "error" THEN NoFilm ELSE film
  IN
  /\ w # None /\ wire[w].pc = "answered"
  /\ awaited' = None /\ wire' = [wire EXCEPT ![w] = Free]
  /\ pendingAck' = o.seq
  /\ IF o # NoOrder /\ o.seq # memory
     THEN /\ lastHandled' = o.seq
          /\ acted' = Append(acted, o.seq) /\ done' = done \cup {o}
          /\ \/ o.type = "play" /\ film' \in {rest} \cup [film : {o.film}, state : {"playing", "held"}]
             \/ o.type = "stop" /\ film' = NoFilm
     ELSE lastHandled' = memory /\ film' = rest /\ UNCHANGED <<acted, done>>
  /\ UNCHANGED <<server, launch, running, farewell, faults>>

(* The player: a held play is let go, a film opens, fails or ends. *)
Player ==
  /\ \/ film.state = "held" /\ film' = [film EXCEPT !.state = "playing"]
     \/ film.state = "playing" /\ film' = [film EXCEPT !.state = "error"]
     \/ film.state \in {"held", "playing"} /\ film' = NoFilm
  /\ UNCHANGED <<server, launch, wire, awaited, running, farewell, pendingAck, lastHandled, acted,
                 done, faults>>

(* The reply to an abandoned request, if it is there already, is not read. *)
Abandon == wire' = [w \in Wires |-> IF w = awaited /\ wire[w].pc = "answered" THEN Free ELSE wire[w]]

(* onStart and onStop.  A film on screen is torn down and the loop cancelled,
   its request with it; two posts follow, where the film got to and then idle,
   from a coroutine of their own that a new loop does not wait for. *)
Start ==
  /\ ~running /\ running' = TRUE
  /\ UNCHANGED <<server, launch, wire, awaited, farewell, pendingAck, lastHandled, film, acted, done,
                 faults>>
Stop ==
  /\ running /\ farewell.left = 0 /\ faults < MaxFaults
  /\ running' = FALSE /\ awaited' = None /\ film' = NoFilm
  /\ farewell' = IF film.state \in {"playing", "error"}
                 THEN [left |-> 2, on |-> farewell.on, report |-> film] ELSE farewell
  /\ faults' = faults + 1 /\ Abandon
  /\ UNCHANGED <<server, launch, pendingAck, lastHandled, acted, done>>
Farewell(w) ==
  /\ farewell.left > 0 /\ farewell.on = None
  /\ IF farewell.left = 2 THEN Post(w, pendingAck, farewell.report, FALSE)
                          ELSE Post(w, 0, NoFilm, FALSE)
  /\ farewell' = [left |-> farewell.left - 1, on |-> w, report |-> NoFilm]
  /\ UNCHANGED <<server, launch, awaited, running, pendingAck, lastHandled, film, acted, done, faults>>
(* Their replies are not read. *)
FarewellEnds ==
  LET w == farewell.on IN
  /\ w # None /\ wire[w].pc = "answered"
  /\ wire' = [wire EXCEPT ![w] = Free] /\ farewell' = [farewell EXCEPT !.on = None]
  /\ UNCHANGED <<server, launch, awaited, running, pendingAck, lastHandled, film, acted, done, faults>>

(***************************************************************************)
(* Faults.                                                                 *)
(***************************************************************************)

(* The app gives up on a request: it failed, or it takes too long and may
   still be handled. *)
GiveUp ==
  /\ awaited # None /\ faults < MaxFaults
  /\ awaited' = None /\ faults' = faults + 1 /\ Abandon
  /\ UNCHANGED <<server, launch, running, farewell, pendingAck, lastHandled, film, acted, done>>
(* A request nobody waits for never arrives. *)
Lose(w) ==
  /\ w # awaited /\ w # farewell.on /\ wire[w].pc = "sent"
  /\ wire' = [wire EXCEPT ![w] = Free]
  /\ UNCHANGED <<server, launch, app, faults>>

(* As if the counter were seeded from 0. *)
SeedZero == 0

(* The counter is seeded from the clock, which is past every number used. *)
Seed == seq

(* Requests under way die with the server, and so do the launches. *)
ServerRestart ==
  /\ faults < MaxFaults /\ faults' = faults + 1
  /\ slot' = NoOrder /\ stale' = FALSE /\ seq' = Seed /\ seen' = Unseen
  /\ wire' = [w \in Wires |-> Free] /\ awaited' = None
  /\ farewell' = [farewell EXCEPT !.on = None]
  /\ launch' = [l \in Launches |-> IF launch[l].pc = "waiting" THEN Gone ELSE launch[l]]
  /\ UNCHANGED <<running, pendingAck, lastHandled, film, acted, done>>

(* The app's process is killed and started again. *)
AppRestart ==
  /\ faults < MaxFaults /\ faults' = faults + 1
  /\ awaited' = None /\ running' = FALSE /\ farewell' = NoPosts
  /\ pendingAck' = 0 /\ lastHandled' = 0 /\ film' = NoFilm /\ acted' = << >>
  /\ wire' = [w \in Wires |-> IF wire[w].pc = "answered" THEN Free ELSE wire[w]]
  /\ UNCHANGED <<server, launch, done>>

(***************************************************************************)
(* The specification.                                                      *)
(***************************************************************************)

Next ==
  \/ StopOrder \/ Expire
  \/ \E l \in Launches : (\E f \in Films : Launch(l, f)) \/ LaunchEnds(l) \/ LaunchGivesUp(l)
  \/ \E w \in Wires : Heartbeat(w) \/ HeartbeatReturns(w) \/ Send(w) \/ Farewell(w) \/ Lose(w)
  \/ Reply \/ Player \/ Start \/ Stop \/ FarewellEnds
  \/ GiveUp \/ ServerRestart \/ AppRestart

Spec == Init /\ [][Next]_vars

(* The server's threads and the app's loop run, a reply is read once it is
   there, and a connection nobody waits for does not stay for ever. *)
Fairness ==
  /\ \A w \in Wires : WF_vars(Heartbeat(w)) /\ WF_vars(HeartbeatReturns(w)) /\ WF_vars(Lose(w))
  /\ WF_vars(Reply) /\ WF_vars(FarewellEnds)
  /\ WF_vars(\E w \in Wires : Send(w)) /\ WF_vars(\E w \in Wires : Farewell(w))
FairSpec == Spec /\ Fairness

(***************************************************************************)
(* Properties.                                                             *)
(***************************************************************************)

(* Every variable has its type. *)
TypeOK ==
  /\ slot \in Order \cup {NoOrder} /\ stale \in BOOLEAN /\ seq \in 0..MaxOrders
  /\ seen \in Seen /\ launch \in [Launches -> Call] /\ wire \in [Wires -> Beat]
  /\ awaited \in Wires \cup {None} /\ running \in BOOLEAN /\ farewell \in Posts
  /\ pendingAck \in 0..MaxOrders /\ lastHandled \in 0..MaxOrders /\ film \in Report
  /\ acted \in Seq(1..MaxOrders) /\ done \subseteq Order /\ faults \in 0..MaxFaults

(* One app process never acts on an order twice, nor on an older one after a
   newer one, however often an order is delivered again, whatever replies are
   lost, and across restarts of the server (PlayerLink.run). *)
ActedInOrder ==
  \A i, j \in DOMAIN acted : i < j => acted[i] < acted[j]

(* The server never takes the app's word for an order it did not act on: an
   acknowledged number is that of an order the app acted on, so the report
   that comes with it is of what that order, or a newer one, made of the
   player (app_heartbeat, launch). *)
AckedWasActed ==
  seen.acked # 0 => \E o \in done : o.seq = seen.acked

(* launch() says that the film plays only when the app acted on its order, or
   on one queued after it: the film on screen before a replay of it was
   ordered is never taken for the replay. *)
LaunchIsTrue ==
  \A l \in Launches :
    launch[l].pc = "playing" => \E o \in done : o.seq >= launch[l].order

(* A heartbeat takes an order out of the slot only when the app acted on it
   or it was too old to deliver: no acknowledgement of one order, be it late
   or from before a restart, ever eats another. *)
OnlyActedLeaves ==
  [][\A w \in Wires : Heartbeat(w) /\ slot # NoOrder /\ slot' = NoOrder
       => stale \/ slot \in done]_vars

(* With the app on screen from some time on, no order stays in the slot: it
   is delivered, acted on and acknowledged, however many replies were lost
   before, unless it is replaced, taken back or expires. *)
OrdersLeave ==
  <>[]running => \A n \in 1..MaxOrders : slot.seq = n ~> slot.seq # n
=============================================================================
