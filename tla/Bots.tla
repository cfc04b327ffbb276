-------------------------------- MODULE Bots --------------------------------
(***************************************************************************)
(* The Telegram bots as a whole: matches against the bot and tips draw on  *)
(* the same accounts, in one process that may crash.  docker starts it     *)
(* again; the crash and the restart are one step.  The queues survive.     *)
(***************************************************************************)
EXTENDS BotMatch, Tips

vars == <<wallet, faults, crashes, matchVars, tipVars>>

TypeOK == StateTypeOK /\ MatchTypeOK /\ TipTypeOK

Init == StateInit /\ MatchInit /\ TipInit

Crash ==
    /\ crashes < MaxCrashes
    /\ crashes' = crashes + 1
    /\ MatchCrash /\ TipCrash
    /\ UNCHANGED <<wallet, faults>>

Work == WorkStep \/ \E m \in Blesses : WorkStart(m)

Next ==
    \/ \E m \in Blesses : (BlessStart(m) \/ BlessStep(m)) /\ UNCHANGED tipVars
    \/ Work /\ UNCHANGED tipVars
    \/ \E t \in Tips : TipStep(t) /\ UNCHANGED matchVars
    \/ Crash

(* Nobody has to send a command, and one that is being served may wait for  *)
(* ever.  The worker takes the jobs whose delay is over and goes on.        *)
Fairness == WF_vars(Work /\ UNCHANGED tipVars)

Spec == Init /\ [][Next]_vars
FairSpec == Spec /\ Fairness

-----------------------------------------------------------------------------
(* Properties. *)

Saved == {pvprooms[i] : i \in DOMAIN pvprooms}

(* No other room of the player has the same open price. *)
Alone(m) == \A r \in Saved : r = m \/ ~(PlayerOf[r] = PlayerOf[m] /\ openPrice[r] = openPrice[m])

(* The last result stored for a match may not have been told: it is about   *)
(* to be, its announcement failed, or the job was given up.                 *)
MayBeUntold(m) ==
    jobs[m] = "failed" \/ (worker.match = m /\ worker.pc \in {"tell", "failing"})

(* A room holds the winner and the close price that its own match had when  *)
(* the chat was last told of it, although the result is stored by players   *)
(* and open price and a crash after the announcement has the match settled  *)
(* and announced again: a room with another match's result has the same     *)
(* players and price, and one with a result nobody was told of has a job    *)
(* that failed.                                                             *)
RoomSaysWhatWasTold ==
    \A m \in Saved :
        Alone(m) /\ told[m] # NotTold /\ ~MayBeUntold(m)
            => /\ result[m].winner = told[m].winner
               /\ result[m].closePrice = told[m].closePrice

(* "It's Pump" or "It's Dump" is what the winner had bet on, although one   *)
(* is found with the rounded price and the other with the exact one, unless *)
(* the price moved by as little as the rounding does.                       *)
AnnouncedAsSettled ==
    \A m \in Blesses :
        told[m] # NotTold /\ told[m].closePrice \notin (openPrice[m] - 5)..(openPrice[m] + 5)
            => (told[m].winner = PlayerOf[m] <=> told[m].result = TargetOf[m])

WonBy(u) == {m \in Saved : result[m].winner = u}
OpenedBy(u) == {m \in Saved \cup {b \in Blesses : bless[b] \in {"save", "unsaved"}} :
                  PlayerOf[m] = u}
SentBy(u) == {t \in tipHistories : SenderOf[t] = u}
SentTo(u) == {t \in tipHistories : message[t].to = u}

(* Nothing of u is on its way, and nothing went wrong without a trace. *)
Accountable(u) ==
    /\ worker.pc \in {"idle", "price", "tell", "end", "failing"}
    /\ \A m \in Blesses : PlayerOf[m] = u => m \notin upset
    /\ \A m \in Saved : PlayerOf[m] = u => Alone(m)
    /\ \A t \in moved \ tipHistories : SenderOf[t] # u /\ message[t].to # u

(* An account is what the database says of it: a player's balance is what   *)
(* he began with, the prizes of the rooms that name him the winner, and the *)
(* tips in the history; locked are the margins of all other challenges he   *)
(* has made, those he lost included, for ever.  A crash in the middle of a  *)
(* settlement, a failed rollback, two rooms of one price and a tip whose    *)
(* record failed are the exceptions.                                        *)
BooksBalance ==
    \A u \in Users : Accountable(u) =>
        /\ wallet[u].balance = InitBalance
               + (totalPrize - amount) * Cardinality(WonBy(u))
               + tipAmount * (Cardinality(SentTo(u)) - Cardinality(SentBy(u)))
        /\ wallet[u].locked = amount * Cardinality(OpenedBy(u) \ WonBy(u))

(* What players are told of a tip is so: "tipped" that it was moved and is  *)
(* in the history, or that the service declined it, which tipHopium passes  *)
(* over; "failed" that it is not in the history, but for a private tip      *)
(* announced before its receiver could not be looked up.                    *)
TipAnswersAreTrue ==
    \A t \in Tips :
        /\ "tipped" \in answers[t] => t \in (moved \cap tipHistories) \cup declined
        /\ "received" \in answers[t] => "tipped" \in answers[t]
        /\ "failed" \in answers[t] =>
              t \notin tipHistories \/ (Private(t) /\ "tipped" \in answers[t])
        /\ t \in tipHistories => t \in moved \ declined

(* A match whose job was queued is settled and its result announced, over a *)
(* crash and whatever other jobs the worker has, unless a call fails or the *)
(* crash came after a wallet call of the player: run again, that job frees  *)
(* a margin once more, and when none is left it or the player's next is     *)
(* refused.                                                                 *)
QueuedIsTold ==
    \A m \in Blesses :
        jobs[m] = "waiting" ~>
            \/ told[m] # NotTold \/ faults > 0
            \/ \E b \in upset : PlayerOf[b] = PlayerOf[m]
=============================================================================
