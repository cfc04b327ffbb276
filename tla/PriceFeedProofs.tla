--------------------------- MODULE PriceFeedProofs ---------------------------
(***************************************************************************)
(* What holds of the price feed for any windows, delays, callers and       *)
(* bounds.                                                                 *)
(*                                                                         *)
(* Sockets are counted against the replacements that met a pending         *)
(* reconnect.  The count is only inductive with where orphans come from    *)
(* (OrphansAreCounted) and, for the bound of the count itself, with when a *)
(* close event may miss its restart (CountIsBounded).  A price is compared *)
(* with the last update, which is only moved by fresher prices.            *)
(***************************************************************************)
EXTENDS PriceFeed, TLAPS

OrphansAreCounted == \A i \in Streams : orphans[i] <= crossed[i]

(* startStreams waits for the sockets it terminated. *)
TerminatedFirst == starting["cron"] = "idle" => terminated[1] = 0

(* Only while the first startStreams runs, or the one that began beside it, *)
(* may a terminated socket close too late: its stream is not counted above  *)
(* the bound before.                                                        *)
MayMiss(i) ==
    \/ starting["boot"] # "idle"
    \/ ~restarting /\ starting["cron"] = "first"
    \/ ~restarting /\ starting["cron"] = "second" /\ terminated[i] > 0

CountIsBounded ==
    /\ \A i \in Streams : MayMiss(i) => crossed[i] <= MaxCrossed
    /\ starting["boot"] # "idle" => restarting
    /\ ~restarting /\ starting["cron"] # "second" => Slept

SocketInv ==
    /\ OneSocketPerStream /\ SomebodyReconnects
    /\ OrphansAreCounted /\ TerminatedFirst /\ CountIsBounded

(* How much older than the last update a price may be. *)
Slack(price) == IF price.kind = "quote" THEN Delay ELSE 0

PriceInv ==
    /\ lastUpdated <= Window => lastPrice.age <= lastUpdated + Slack(lastPrice)
    /\ \A r \in Requests :
          request[r].pc = "waiting" /\ request[r].price # None =>
              request[r].price.age <= request[r].waited
    /\ QuoteIsRecent

IInv == TypeOK /\ SocketInv /\ PriceInv

-----------------------------------------------------------------------------
(* The sockets: no step makes one that is not counted. *)
LEMMA SocketStepInv == TypeOK /\ SocketInv /\ [Next]_vars => SocketInv'
<1> SUFFICES ASSUME TypeOK, SocketInv, [Next]_vars PROVE SocketInv'
  OBVIOUS
<1> USE PriceFeedAssumption DEF TypeOK, SocketInv, OneSocketPerStream, SomebodyReconnects,
        OrphansAreCounted, TerminatedFirst, CountIsBounded, MayMiss, Slept, Sockets, Live,
        Streams, Starters
<1>1. ASSUME NEW i \in Streams, SocketCloses(i) PROVE SocketInv'
  BY <1>1 DEF SocketCloses, OnClose, Reconnects, starterVars
<1>2. ASSUME NEW i \in Streams, OrphanCloses(i) PROVE SocketInv'
  BY <1>2 DEF OrphanCloses, OnClose, Reconnects, starterVars
<1>3. ASSUME NEW i \in Streams, TerminatedCloses(i) PROVE SocketInv'
  BY <1>3 DEF TerminatedCloses, OnClose, Reconnects, starterVars
<1>4. ASSUME NEW i \in Streams, Reconnect(i) PROVE SocketInv'
  BY <1>4 DEF Reconnect, Fired, starterVars
<1>5. CASE StartFirst
  BY <1>5 DEF StartFirst, Replace, Replaced
<1>6. ASSUME NEW p \in Starters, StartSecond(p) PROVE SocketInv'
  BY <1>6 DEF StartSecond, Replace, Replaced
<1>7. ASSUME NEW p \in Starters, StartEnds(p) PROVE SocketInv'
  BY <1>7 DEF StartEnds, socketVars
<1>8. CASE UNCHANGED <<socketVars, starterVars>>
  BY <1>8 DEF socketVars, starterVars
<1>9. CASE Crash
  BY <1>9 DEF Crash, StreamsAtStart, NoneYet, StartingAtStart
<1> QED
  BY <1>1, <1>2, <1>3, <1>4, <1>5, <1>6, <1>7, <1>8, <1>9
  DEF Next, SocketStep, StarterStep, CallStep, Message, Tick, Call, Fails, Quoted, Answered,
      socketVars, starterVars, vars

(* A tick makes a price no other than it was, and older by one at most. *)
LEMMA AgedPrice ==
    ASSUME NEW price \in Price
    PROVE  /\ Aged(price) \in Price
           /\ Aged(price).kind = price.kind
           /\ Aged(price).age <= price.age + 1
<1>1. Oldest \in Nat
  BY PriceFeedAssumption DEF Oldest
<1>2. Older(price.age, Oldest) \in 0..Oldest /\ Older(price.age, Oldest) <= price.age + 1
  BY <1>1 DEF Price, Older
<1> QED
  BY <1>2 DEF Aged, Price

Request == [pc : {"idle", "waiting", "served"}, waited : 0..Delay, price : Price \cup {None}]

(* What it does to a request: only one that waits changes. *)
Ticked(r) ==
    /\ request'[r] \in Request
    /\ request'[r].pc = request[r].pc
    /\ request[r].pc # "waiting" => request'[r] = request[r]
    /\ request[r].pc = "waiting" =>
          /\ request'[r].waited = request[r].waited + 1
          /\ request[r].price = None => request'[r].price = None
          /\ request[r].price # None => request'[r].price = Aged(request[r].price)

LEMMA TickedRequest == TypeOK /\ Tick => \A r \in Requests : Ticked(r)
<1> SUFFICES ASSUME TypeOK, Tick, NEW r \in Requests PROVE Ticked(r)
  OBVIOUS
<1>1. request[r] \in Request
  BY DEF TypeOK, Request
<1>2. CASE request[r].pc # "waiting"
  <2>1. request'[r] = request[r]
    BY <1>2 DEF Tick
  <2> QED
    BY <1>1, <1>2, <2>1 DEF Ticked
<1>3. CASE request[r].pc = "waiting"
  <2> DEFINE price == IF request[r].price = None THEN None ELSE Aged(request[r].price)
             waited == request[r].waited + 1
  <2>1. request'[r] = [request[r] EXCEPT !.waited = waited, !.price = price]
    BY <1>3 DEF Tick
  <2>2. waited \in 0..Delay
    <3>1. request[r].waited \in 0..Delay
      BY <1>1 DEF Request
    <3>2. request[r].waited < Delay
      BY <1>3 DEF Tick
    <3> QED
      BY <3>1, <3>2, PriceFeedAssumption
  <2>3. price \in Price \cup {None}
    BY <1>1, AgedPrice DEF Request
  <2> HIDE DEF price, waited
  <2>4. /\ request'[r] \in Request /\ request'[r].pc = request[r].pc
        /\ request'[r].waited = waited /\ request'[r].price = price
    BY <1>1, <2>1, <2>2, <2>3 DEF Request
  <2> QED
    BY <1>3, <2>4 DEF Ticked, price, waited
<1> QED
  BY <1>2, <1>3

LEMMA TickTypes == TypeOK /\ Tick => TypeOK'
<1> SUFFICES ASSUME TypeOK, Tick PROVE TypeOK'
  OBVIOUS
<1>1. lastPrice' \in Price
  BY AgedPrice DEF Tick, TypeOK
<1>2. lastUpdated' \in 0..(Window + 1)
  <2>1. lastUpdated \in 0..(Window + 1) /\ lastUpdated' = Older(lastUpdated, Window + 1)
    BY DEF Tick, TypeOK
  <2> QED
    BY <2>1, PriceFeedAssumption DEF Older
<1>3. request' \in [Requests -> Request]
  <2>1. \A r \in Requests : request'[r] \in Request
    BY TickedRequest DEF Ticked
  <2>2. request' = [r \in Requests |-> request'[r]]
    BY DEF Tick
  <2> QED
    BY <2>1, <2>2
<1> QED
  BY <1>1, <1>2, <1>3 DEF TypeOK, Request, Tick, socketVars, starterVars

LEMMA TickPrices == TypeOK /\ PriceInv /\ Tick => PriceInv'
<1> SUFFICES ASSUME TypeOK, PriceInv, Tick PROVE PriceInv'
  OBVIOUS
<1>1. lastUpdated' <= Window => lastPrice'.age <= lastUpdated' + Slack(lastPrice')
  <2>1. /\ lastPrice' = Aged(lastPrice) /\ lastPrice \in Price /\ lastUpdated \in Nat
        /\ lastUpdated' = Older(lastUpdated, Window + 1)
    <3>1. lastUpdated \in 0..(Window + 1) /\ lastPrice \in Price
      BY DEF TypeOK
    <3>2. lastUpdated \in Nat
      BY <3>1, PriceFeedAssumption
    <3> QED
      BY <3>1, <3>2 DEF Tick
  <2>2. /\ lastPrice' \in Price /\ lastPrice'.kind = lastPrice.kind
        /\ lastPrice'.age <= lastPrice.age + 1
    BY <2>1, AgedPrice
  <2>3. lastPrice.age \in Nat /\ lastPrice'.age \in Nat
    BY <2>1, <2>2, PriceFeedAssumption DEF Price
  <2>4. lastUpdated' <= Window => lastUpdated' = lastUpdated + 1
    BY <2>1, PriceFeedAssumption DEF Older
  <2>5. Slack(lastPrice') = Slack(lastPrice) /\ Slack(lastPrice) \in Nat
    BY <2>2, PriceFeedAssumption DEF Slack
  <2>6. lastUpdated <= Window => lastPrice.age <= lastUpdated + Slack(lastPrice)
    BY DEF PriceInv
  <2> QED
    BY <2>1, <2>2, <2>3, <2>4, <2>5, <2>6, PriceFeedAssumption
<1>2. ASSUME NEW r \in Requests, request'[r].pc = "waiting", request'[r].price # None
      PROVE  request'[r].price.age <= request'[r].waited
  <2>1. request[r].pc = "waiting" /\ request[r].price # None
    BY <1>2, TickedRequest DEF Ticked
  <2>2. request[r].price \in Price /\ request[r].waited \in Nat
    BY <2>1 DEF TypeOK
  <2>3. request[r].price.age <= request[r].waited
    BY <2>1 DEF PriceInv
  <2>4. /\ request'[r].price = Aged(request[r].price)
        /\ request'[r].waited = request[r].waited + 1
    BY <2>1, TickedRequest DEF Ticked
  <2>5. /\ Aged(request[r].price) \in Price
        /\ Aged(request[r].price).age <= request[r].price.age + 1
    BY <2>2, AgedPrice
  <2>6. request[r].price.age \in Nat /\ Aged(request[r].price).age \in Nat
    BY <2>2, <2>5, PriceFeedAssumption DEF Price
  <2> QED
    BY <2>2, <2>3, <2>4, <2>5, <2>6
<1>3. QuoteIsRecent'
  <2>1. \A c \in Calls : request'[c].pc = "served" => request'[c] = request[c]
    BY TickedRequest DEF Ticked, Requests
  <2> QED
    BY <2>1 DEF PriceInv, QuoteIsRecent
<1> QED
  BY <1>1, <1>2, <1>3 DEF PriceInv

(* The prices: what a step makes older it compares with an older update. *)
LEMMA PriceStepInv == TypeOK /\ PriceInv /\ [Next]_vars => PriceInv'
<1> SUFFICES ASSUME TypeOK, PriceInv, [Next]_vars PROVE PriceInv'
  OBVIOUS
<1> USE PriceFeedAssumption DEF TypeOK, PriceInv, Slack, QuoteIsRecent, Price, Requests
<1>1. ASSUME NEW i \in Streams, Message(i) PROVE PriceInv'
  BY <1>1 DEF Message, Quote
<1>2. ASSUME NEW c \in Calls, Call(c) PROVE PriceInv'
  BY <1>2 DEF Call, Stale, Asked, Served
<1>3. ASSUME NEW c \in Calls, Fails(c) PROVE PriceInv'
  BY <1>3 DEF Fails, Idle
<1>4. ASSUME NEW r \in Requests, Quoted(r) PROVE PriceInv'
  BY <1>4 DEF Quoted, Quote, NoPrice
<1>5. ASSUME NEW r \in Requests, Answered(r) PROVE PriceInv'
  BY <1>5 DEF Answered, Stored, NoPrice, Idle, Served
<1>6. CASE Tick
  BY <1>6, TickPrices
<1>7. CASE UNCHANGED priceVars
  BY <1>7 DEF priceVars
<1>8. CASE Crash
  BY <1>8 DEF Crash, NoPrice, RequestAtStart, Asked, Idle
<1> QED
  BY <1>1, <1>2, <1>3, <1>4, <1>5, <1>6, <1>7, <1>8
  DEF Next, SocketStep, StarterStep, CallStep, SocketCloses, OrphanCloses, TerminatedCloses,
      Reconnect, StartFirst, StartSecond, StartEnds, priceVars, vars

(* Types, of which the counts of sockets owe their bounds to SocketInv. *)
LEMMA TypeStep == IInv /\ [Next]_vars => TypeOK'
<1> SUFFICES ASSUME IInv, [Next]_vars PROVE TypeOK'
  OBVIOUS
<1> USE PriceFeedAssumption DEF IInv, TypeOK, Streams, Starters
<1>1. ASSUME NEW i \in Streams, SocketCloses(i) PROVE TypeOK'
  BY <1>1 DEF SocketCloses, OnClose, Reconnects, starterVars, priceVars, SocketInv,
     OneSocketPerStream, CountIsBounded, MayMiss, Sockets, Live
<1>2. ASSUME NEW i \in Streams, OrphanCloses(i) PROVE TypeOK'
  BY <1>2 DEF OrphanCloses, OnClose, Reconnects, starterVars, priceVars, SocketInv,
     OneSocketPerStream, CountIsBounded, MayMiss, Sockets, Live
<1>3. ASSUME NEW i \in Streams, TerminatedCloses(i) PROVE TypeOK'
  BY <1>3 DEF TerminatedCloses, OnClose, Reconnects, starterVars, priceVars, SocketInv,
     OneSocketPerStream, CountIsBounded, MayMiss, Slept, Sockets, Live
<1>4. ASSUME NEW i \in Streams, Reconnect(i) PROVE TypeOK'
  BY <1>4 DEF Reconnect, Fired, starterVars, priceVars, SocketInv, OrphansAreCounted,
     OneSocketPerStream, Sockets, Live
<1>5. CASE StartFirst
  BY <1>5 DEF StartFirst, Replace, Replaced, priceVars, SocketInv, TerminatedFirst, Live
<1>6. ASSUME NEW p \in Starters, StartSecond(p) PROVE TypeOK'
  BY <1>6 DEF StartSecond, Replace, Replaced, priceVars, Slept, Live
<1>7. ASSUME NEW p \in Starters, StartEnds(p) PROVE TypeOK'
  BY <1>7 DEF StartEnds, socketVars, priceVars
<1>8. CASE Tick
  BY <1>8, TickTypes
<1> USE DEF Price, Requests
<1>9. ASSUME NEW i \in Streams, Message(i) PROVE TypeOK'
  BY <1>9 DEF Message, Quote, Oldest, socketVars, starterVars
<1>10. ASSUME NEW c \in Calls, Call(c) PROVE TypeOK'
  BY <1>10 DEF Call, Asked, Served, socketVars, starterVars
<1>11. ASSUME NEW r \in Requests, Quoted(r) PROVE TypeOK'
  BY <1>11 DEF Quoted, Quote, NoPrice, Oldest, socketVars, starterVars
<1>12. ASSUME NEW r \in Requests, Answered(r) PROVE TypeOK'
  BY <1>12 DEF Answered, Stored, NoPrice, Idle, Served, Oldest, socketVars, starterVars
<1>13. ASSUME NEW c \in Calls, Fails(c) PROVE TypeOK'
  BY <1>13 DEF Fails, Idle, socketVars, starterVars
<1>14. CASE Crash
  BY <1>14 DEF Crash, StreamsAtStart, NoneYet, StartingAtStart, RequestAtStart, NoPrice, Asked,
     Idle, Oldest
<1>15. CASE UNCHANGED vars
  BY <1>15 DEF vars, socketVars, starterVars, priceVars
<1> QED
  BY <1>1, <1>2, <1>3, <1>4, <1>5, <1>6, <1>7, <1>8, <1>9, <1>10, <1>11, <1>12, <1>13, <1>14,
     <1>15 DEF Next, SocketStep, StarterStep, CallStep

LEMMA InvInit == Init => IInv
<1> USE PriceFeedAssumption DEF Init, StreamsAtStart, NoneYet, StartingAtStart, RequestAtStart,
        NoPrice, Asked, Idle, Streams, Starters, Requests
<1>1. Init => TypeOK
  BY DEF TypeOK, Price, Oldest
<1>2. Init => SocketInv
  BY DEF SocketInv, OneSocketPerStream, SomebodyReconnects, OrphansAreCounted, TerminatedFirst,
     CountIsBounded, MayMiss, Slept, Sockets, Live
<1>3. ASSUME Init PROVE PriceInv
  <2>1. lastPrice.age <= lastUpdated + Slack(lastPrice)
    BY <1>3 DEF Slack
  <2>2. ASSUME NEW r \in Requests
        PROVE  request[r].price = None /\ request[r].pc # "served"
    <3>1. request[r] = Asked \/ request[r] = Idle
      BY <1>3, <2>2
    <3> QED
      BY <3>1
  <2>3. QuoteIsRecent
    BY <2>2 DEF QuoteIsRecent
  <2> QED
    BY <2>1, <2>2, <2>3 DEF PriceInv
<1> QED
  BY <1>1, <1>2, <1>3 DEF IInv

-----------------------------------------------------------------------------
(* The invariant holds of every behaviour of the feed. *)
THEOREM Invariant == Spec => []IInv
<1>1. IInv /\ [Next]_vars => IInv'
  BY SocketStepInv, PriceStepInv, TypeStep DEF IInv
<1> QED
  BY InvInit, <1>1, PTL DEF Spec

(* Every variable of the feed keeps its type (PriceService). *)
THEOREM TypeCorrect == Spec => []TypeOK
  BY Invariant, PTL DEF IInv

(* However often streams close and are replaced, a socket is only left over *)
(* for a replacement that met a pending reconnect (startStreams).           *)
THEOREM NoOtherSocket == Spec => []OneSocketPerStream
  BY Invariant, PTL DEF IInv, SocketInv

(* A stream that closed is being reconnected, or closed while startStreams  *)
(* ran (the close handlers).                                                *)
THEOREM ClosedIsReconnected == Spec => []SomebodyReconnects
  BY Invariant, PTL DEF IInv, SocketInv

(* A price handed out is no older than the window and one request, whatever *)
(* both are (getLastPrice).                                                 *)
THEOREM PricesAreRecent == Spec => []QuoteIsRecent
  BY Invariant, PTL DEF IInv, PriceInv
=============================================================================
