------------------------------ MODULE PriceFeed ------------------------------
(***************************************************************************)
(* The price feed (price.service.ts): two streams that are reconnected     *)
(* half a second after they close and replaced once an hour, and a price   *)
(* that is asked for over HTTP when the streams were silent for too long.  *)
(*                                                                         *)
(* A price is known by what it is, a quote or no price at all (the 0 of    *)
(* the start, the NaN of an answer without one), and by its age: the ticks *)
(* since it was quoted or, when it is none, since it was stored.  An age   *)
(* counts no further than what is too old in any case, so that time and    *)
(* the number of calls, closes and restarts have no bound.                 *)
(***************************************************************************)
EXTENDS Naturals

CONSTANTS
    Calls,          \* callers of getLastPrice
    Window,         \* 5000 ms, in ticks
    Delay,          \* no HTTP request takes longer
    None

CONSTANTS           \* bounds of the model, not of the system
    MaxCrossed,     \* extra sockets a stream may get
    MaxCrashes

ASSUME PriceFeedAssumption ==
    /\ Window \in Nat /\ Delay \in Nat
    /\ MaxCrossed \in Nat /\ MaxCrashes \in Nat
    /\ "boot" \notin Calls /\ None \notin Nat

Streams == {1, 2}
Starters == {"boot", "cron"}        \* who runs startStreams
Requests == Calls \cup {"boot"}     \* who may wait for an answer over HTTP
Oldest == Window + Delay + 1

VARIABLES
    stream,         \* the socket this.stream1, this.stream2 refer to
    orphans,        \* live sockets nothing refers to
    terminated,     \* sockets startStreams terminated, before their close event
    timers,         \* pending reconnects
    restarting,
    starting,       \* how far each startStreams is
    crossed,        \* replacements beside a reconnect, of which a socket is left over
    unlucky,        \* streams that closed during a startStreams
    lastPrice,
    lastUpdated,    \* its age
    request,        \* what each caller waits for or got
    crashes

socketVars == <<stream, orphans, terminated, timers, crossed, unlucky>>
starterVars == <<restarting, starting>>
priceVars == <<lastPrice, lastUpdated, request>>
vars == <<socketVars, starterVars, priceVars, crashes>>

Price == [kind : {"quote", "none"}, age : 0..Oldest]
Quote == [kind |-> "quote", age |-> 0]
NoPrice == [kind |-> "none", age |-> 0]
Idle == [pc |-> "idle", waited |-> 0, price |-> None]
Asked == [pc |-> "waiting", waited |-> 0, price |-> None]
Served(price) == [pc |-> "served", waited |-> 0, price |-> price]

TypeOK ==
    /\ stream \in [Streams -> {"none", "live", "closed"}]
    /\ orphans \in [Streams -> 0..(MaxCrossed + 1)]
    /\ terminated \in [Streams -> 0..1]
    /\ timers \in [Streams -> 0..(MaxCrossed + 2)]
    /\ restarting \in BOOLEAN
    /\ starting \in [Starters -> {"idle", "first", "second"}]
    /\ crossed \in [Streams -> 0..(MaxCrossed + 1)]
    /\ unlucky \subseteq Streams
    /\ lastPrice \in Price /\ lastUpdated \in 0..(Window + 1)
    /\ request \in [Requests -> [pc : {"idle", "waiting", "served"}, waited : 0..Delay,
                                 price : Price \cup {None}]]
    /\ crashes \in 0..MaxCrashes

(* The constructor and onModuleInit: the first stream is opened and a price *)
(* asked for.                                                               *)
StreamsAtStart == [i \in Streams |-> IF i = 1 THEN "live" ELSE "none"]
StartingAtStart == [p \in Starters |-> IF p = "boot" THEN "first" ELSE "idle"]
RequestAtStart == [r \in Requests |-> IF r = "boot" THEN Asked ELSE Idle]
NoneYet == [i \in Streams |-> 0]

Init ==
    /\ stream = StreamsAtStart
    /\ orphans = NoneYet /\ terminated = NoneYet /\ timers = NoneYet /\ crossed = NoneYet
    /\ unlucky = {}
    /\ restarting = TRUE /\ starting = StartingAtStart
    /\ lastPrice = NoPrice /\ lastUpdated = 0 /\ request = RequestAtStart
    /\ crashes = 0

-----------------------------------------------------------------------------
(* Sockets.  A live one is connected or about to be. *)

Live(i) == stream[i] = "live"
Sockets(i) == (IF Live(i) THEN 1 ELSE 0) + orphans[i]

(* Mutant: a stream that is replaced is reconnected too. *)
ReconnectsAlways == TRUE
(* Mutant: nothing reconnects but the cron job. *)
ReconnectsNever == FALSE
Reconnects == ~restarting

(* The close event of a socket of stream i. *)
OnClose(i) ==
    timers' = IF Reconnects THEN [timers EXCEPT ![i] = @ + 1] ELSE timers

(* The network may close a stream that has its extra sockets only while     *)
(* none is being reconnected: a bound, beyond which there would be more.    *)
Bounded(i) == crossed[i] >= MaxCrossed => timers[i] = 0

SocketCloses(i) ==
    /\ Live(i) /\ Bounded(i)
    /\ stream' = [stream EXCEPT ![i] = "closed"]
    /\ OnClose(i)
    /\ unlucky' = IF restarting THEN unlucky \cup {i} ELSE unlucky
    /\ UNCHANGED <<orphans, terminated, crossed, starterVars, priceVars, crashes>>

OrphanCloses(i) ==
    /\ orphans[i] > 0 /\ Bounded(i)
    /\ orphans' = [orphans EXCEPT ![i] = @ - 1]
    /\ OnClose(i)
    /\ UNCHANGED <<stream, terminated, crossed, unlucky, starterVars, priceVars, crashes>>

(* That of a terminated socket comes while startStreams sleeps, unless the  *)
(* other startStreams has ended in between.                                 *)
TerminatedCloses(i) ==
    /\ terminated[i] > 0
    /\ terminated' = [terminated EXCEPT ![i] = @ - 1]
    /\ OnClose(i)
    /\ crossed' = IF restarting THEN crossed ELSE [crossed EXCEPT ![i] = @ + 1]
    /\ UNCHANGED <<stream, orphans, unlucky, starterVars, priceVars, crashes>>

(* Mutant: an interval where there should be a timeout. *)
FiredAgain(n) == n
Fired(n) == n - 1

(* The new socket takes the place of whatever the stream refers to. *)
Reconnect(i) ==
    /\ timers[i] > 0
    /\ timers' = [timers EXCEPT ![i] = Fired(@)]
    /\ stream' = [stream EXCEPT ![i] = "live"]
    /\ orphans' = IF Live(i) THEN [orphans EXCEPT ![i] = @ + 1] ELSE orphans
    /\ unlucky' = unlucky \ {i}
    /\ UNCHANGED <<terminated, crossed, starterVars, priceVars, crashes>>

-----------------------------------------------------------------------------
(* startStreams: at the start, and once an hour. *)

(* Mutant: a stream that has a socket only has it closed. *)
ReplacedIfNone(socket) == IF socket = "none" THEN "live" ELSE "closed"
Replaced(socket) == "live"

Replace(i) ==
    /\ timers[i] > 0 => crossed[i] < MaxCrossed
    /\ crossed' = IF timers[i] > 0 THEN [crossed EXCEPT ![i] = @ + 1] ELSE crossed
    /\ terminated' = IF Live(i) THEN [terminated EXCEPT ![i] = @ + 1] ELSE terminated
    /\ stream' = [stream EXCEPT ![i] = Replaced(@)]
    /\ unlucky' = unlucky \ {i}
    /\ UNCHANGED <<orphans, timers>>

StartFirst ==
    /\ starting["cron"] = "idle"
    /\ restarting' = TRUE
    /\ starting' = [starting EXCEPT !["cron"] = "first"]
    /\ Replace(1)
    /\ UNCHANGED <<priceVars, crashes>>

(* A socket is closed well within the second that startStreams sleeps. *)
Slept == \A i \in Streams : terminated[i] = 0

(* Both sleep as long, so that the one that began first goes on first. *)
StartSecond(p) ==
    /\ starting[p] = "first" /\ Slept
    /\ p = "cron" => starting["boot"] # "first"
    /\ starting' = [starting EXCEPT ![p] = "second"]
    /\ Replace(2)
    /\ UNCHANGED <<restarting, priceVars, crashes>>

StartEnds(p) ==
    /\ starting[p] = "second" /\ Slept
    /\ p = "cron" => starting["boot"] = "idle"
    /\ starting' = [starting EXCEPT ![p] = "idle"]
    /\ restarting' = FALSE
    /\ UNCHANGED <<socketVars, priceVars, crashes>>

-----------------------------------------------------------------------------
(* Prices *)

Older(age, most) == IF age < most THEN age + 1 ELSE age
Aged(price) == [price EXCEPT !.age = Older(@, Oldest)]

Tick ==
    /\ \A r \in Requests : request[r].pc = "waiting" => request[r].waited < Delay
    /\ lastPrice' = Aged(lastPrice)
    /\ lastUpdated' = Older(lastUpdated, Window + 1)
    /\ request' = [r \in Requests |->
          IF request[r].pc # "waiting" THEN request[r]
          ELSE [request[r] EXCEPT !.waited = @ + 1,
                                  !.price = IF @ = None THEN None ELSE Aged(@)]]
    /\ UNCHANGED <<socketVars, starterVars, crashes>>

(* processPriceStream *)
Message(i) ==
    /\ Sockets(i) > 0
    /\ lastPrice' = Quote /\ lastUpdated' = 0
    /\ UNCHANGED <<request, socketVars, starterVars, crashes>>

(* Mutant: the price at hand is always good. *)
NeverStale == FALSE
Stale == lastUpdated > Window

(* getLastPrice *)
Call(c) ==
    /\ request[c].pc # "waiting"
    /\ request' = [request EXCEPT ![c] = IF Stale THEN Asked ELSE Served(lastPrice)]
    /\ UNCHANGED <<lastPrice, lastUpdated, socketVars, starterVars, crashes>>

(* getPriceFromApi: the exchange quotes a price, or fails to, and the       *)
(* answer arrives later.                                                    *)
Quoted(r) ==
    /\ request[r].pc = "waiting" /\ request[r].price = None
    /\ \E price \in {Quote, NoPrice} : request' = [request EXCEPT ![r].price = price]
    /\ UNCHANGED <<lastPrice, lastUpdated, socketVars, starterVars, crashes>>

(* What is no price only is one of this program's once it is stored. *)
Stored(price) == IF price.kind = "none" THEN NoPrice ELSE price

(* Only the answer to the request of the start counts as an update. *)
Answered(r) ==
    LET price == Stored(request[r].price) IN
    /\ request[r].pc = "waiting" /\ request[r].price # None
    /\ lastPrice' = price
    /\ lastUpdated' = IF r = "boot" THEN 0 ELSE lastUpdated
    /\ request' = [request EXCEPT ![r] = IF r = "boot" THEN Idle ELSE Served(price)]
    /\ UNCHANGED <<socketVars, starterVars, crashes>>

Fails(c) ==
    /\ request[c].pc = "waiting"
    /\ request' = [request EXCEPT ![c] = Idle]
    /\ UNCHANGED <<lastPrice, lastUpdated, socketVars, starterVars, crashes>>

(* The process ends, as it does when nobody catches that the request of the *)
(* start failed, and starts again.                                          *)
Crash ==
    /\ crashes < MaxCrashes
    /\ crashes' = crashes + 1
    /\ stream' = StreamsAtStart
    /\ orphans' = NoneYet /\ terminated' = NoneYet /\ timers' = NoneYet /\ crossed' = NoneYet
    /\ unlucky' = {}
    /\ restarting' = TRUE /\ starting' = StartingAtStart
    /\ lastPrice' = NoPrice /\ lastUpdated' = 0 /\ request' = RequestAtStart

-----------------------------------------------------------------------------
SocketStep(i) ==
    SocketCloses(i) \/ OrphanCloses(i) \/ TerminatedCloses(i) \/ Reconnect(i) \/ Message(i)
StarterStep(p) == StartSecond(p) \/ StartEnds(p)
CallStep(c) == Call(c) \/ Fails(c)

Next ==
    \/ \E i \in Streams : SocketStep(i)
    \/ StartFirst
    \/ \E p \in Starters : StarterStep(p)
    \/ \E c \in Calls : CallStep(c)
    \/ \E r \in Requests : Quoted(r) \/ Answered(r)
    \/ Tick
    \/ Crash

Spec == Init /\ [][Next]_vars

(* Timers fire, the cron job runs every hour and startStreams goes on: the  *)
(* latter two at any time, which MaxCrossed does not let them, whence the   *)
(* strong fairness.  Nothing is said of the network, nor of the exchange.   *)
Fairness ==
    /\ \A i \in Streams : WF_vars(Reconnect(i)) /\ WF_vars(TerminatedCloses(i))
    /\ SF_vars(StartFirst)
    /\ \A p \in Starters : SF_vars(StarterStep(p))

FairSpec == Spec /\ Fairness

-----------------------------------------------------------------------------
(* Properties. *)

(* A stream has one socket, or one reconnect pending, and no more than one  *)
(* besides for every time it was replaced beside a pending reconnect: the   *)
(* sockets that restarts replace do not come back through their close       *)
(* events, which restarting is there to prevent.                            *)
OneSocketPerStream ==
    \A i \in Streams : Sockets(i) + timers[i] <= 1 + crossed[i]

(* A stream that is down is about to be reconnected, unless it went down    *)
(* during a startStreams: then it waits for the next.                       *)
SomebodyReconnects ==
    \A i \in Streams : stream[i] = "closed" => timers[i] > 0 \/ i \in unlucky

(* The price a caller gets was quoted at most five seconds and one request  *)
(* before; and the 0 of the start and the NaN of an answer without a price  *)
(* are handed out for five seconds at most.  The request may count because  *)
(* its answer replaces the stream's price however late it comes.            *)
QuoteIsRecent ==
    \A c \in Calls : request[c].pc = "served" =>
        request[c].price.age <= Window + (IF request[c].price.kind = "quote" THEN Delay ELSE 0)

(* A stream that is down comes back. *)
StreamsComeBack == \A i \in Streams : ~Live(i) ~> Live(i)
=============================================================================
