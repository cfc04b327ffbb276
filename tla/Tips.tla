-------------------------------- MODULE Tips --------------------------------
(***************************************************************************)
(* Tips: in a private chat (telegram-bot.service.ts), or in a group, by    *)
(* name or as a reply (telegram-tip-bot.service.ts).  Both end in          *)
(* tipHopium (wallets.service.ts), which has the wallet service transfer   *)
(* the amount and then writes the tip history.                             *)
(***************************************************************************)
EXTENDS BotState

CONSTANTS
    Tips,           \* /tip commands
    SenderOf        \* the player who sends each

ASSUME TipsAssumption == SenderOf \in [Tips -> Users]

VARIABLES
    tip,            \* where each command is
    message,        \* the way each was sent and the player it is for
    moved,          \* tips whose money the wallet service moved
    declined,       \* tips it answered with success = false
    tipHistories,   \* tips in the collection
    answers         \* what players were told of each tip

tipVars == <<tip, message, moved, declined, tipHistories, answers>>

(* The amount of every tip. *)
tipAmount == 5

Message == [via : {"PRIVATE", "GROUP"}, to : Users]
TipAnswers == {"tipped", "received", "failed", "unregistered"}

TipTypeOK ==
    /\ tip \in [Tips -> {"idle", "find", "check", "transfer", "record", "notify", "done",
                         "refused", "lost"}]
    /\ message \in [Tips -> Message]
    /\ moved \subseteq Tips /\ declined \subseteq Tips /\ tipHistories \subseteq Tips
    /\ answers \in [Tips -> SUBSET TipAnswers]

TipInit ==
    /\ tip = [t \in Tips |-> "idle"]
    /\ message = [t \in Tips |-> [via |-> "PRIVATE", to |-> SenderOf[t]]]
    /\ moved = {} /\ declined = {} /\ tipHistories = {}
    /\ answers = [t \in Tips |-> {}]

-----------------------------------------------------------------------------
Private(t) == message[t].via = "PRIVATE"
TipTo(t, pc) == tip' = [tip EXCEPT ![t] = pc]
Answer(t, what) == answers' = [answers EXCEPT ![t] = @ \cup what]
ledgers == <<moved, declined, tipHistories>>

(* Refused: an amount that is not positive (or, by name, below one), a      *)
(* group that is not on the list, a reply to nobody, to the owner or to     *)
(* oneself.  A reply in a group names its receiver by id, which nobody has  *)
(* to find.                                                                 *)
TipStart(t) ==
    /\ tip[t] = "idle"
    /\ \/ TipTo(t, "refused") /\ UNCHANGED message
       \/ \E msg \in Message :
             /\ message' = [message EXCEPT ![t] = msg]
             /\ \/ TipTo(t, "find")
                \/ msg.via = "GROUP" /\ msg.to # SenderOf[t] /\ TipTo(t, "check")
    /\ UNCHANGED <<wallet, ledgers, answers, faults, crashes>>

(* getUserByUsername swallows its errors, so that a failed call is a user   *)
(* who is not registered.  Only groups refuse a tip to oneself.             *)
TipFind(t) ==
    /\ tip[t] = "find"
    /\ \/ /\ TipTo(t, IF Private(t) THEN "transfer"
                       ELSE IF message[t].to = SenderOf[t] THEN "refused" ELSE "check")
          /\ UNCHANGED <<answers, faults>>
       \/ Fault /\ TipTo(t, "refused") /\ Answer(t, {"unregistered"})
    /\ UNCHANGED <<wallet, message, ledgers, crashes>>

(* processTip of the tip bot looks both users up; when that fails it says   *)
(* so and goes on.                                                          *)
TipCheck(t) ==
    /\ tip[t] = "check"
    /\ TipTo(t, "transfer")
    /\ \/ UNCHANGED <<answers, faults>>
       \/ Fault /\ Answer(t, {"unregistered"})
    /\ UNCHANGED <<wallet, message, ledgers, crashes>>

(* tipHopium is over: the sender is told, and the receiver, in a private    *)
(* chat after another look at his record.                                   *)
Tipped(t) ==
    /\ TipTo(t, IF Private(t) THEN "notify" ELSE "done")
    /\ Answer(t, IF Private(t) THEN {"tipped"} ELSE {"tipped", "received"})

(* tipHopium, after the transfer. *)
(* Mutant: whether it succeeded is not asked. *)
TransferredBlindly(t, success) == TipTo(t, "record") /\ UNCHANGED answers
AfterTransfer(t, success) ==
    IF success THEN TipTo(t, "record") /\ UNCHANGED answers ELSE Tipped(t)

TipTransfer(t) ==
    LET s == SenderOf[t] IN
    /\ tip[t] = "transfer"
    /\ \/ /\ CanTransfer(wallet[s], tipAmount)
          /\ wallet' = Transferred(wallet, s, message[t].to, tipAmount)
          /\ moved' = moved \cup {t}
          /\ UNCHANGED declined
          /\ AfterTransfer(t, TRUE)
       \/ /\ declined' = declined \cup {t}
          /\ UNCHANGED <<wallet, moved>>
          /\ AfterTransfer(t, FALSE)
    /\ UNCHANGED <<message, tipHistories, faults, crashes>>

TipRecord(t) ==
    /\ tip[t] = "record"
    /\ tipHistories' = tipHistories \cup {t}
    /\ Tipped(t)
    /\ UNCHANGED <<wallet, message, moved, declined, faults, crashes>>

(* The transfer or the record failed: either way the sender is told he has *)
(* not enough.                                                             *)
TipFails(t) ==
    /\ \/ tip[t] = "transfer" /\ Refused(CanTransfer(wallet[SenderOf[t]], tipAmount))
       \/ tip[t] = "record" /\ Fault
    /\ TipTo(t, "done")
    /\ Answer(t, {"failed"})
    /\ UNCHANGED <<wallet, message, ledgers, crashes>>

TipNotify(t) ==
    /\ tip[t] = "notify"
    /\ TipTo(t, "done")
    /\ \/ Answer(t, {"received"}) /\ UNCHANGED faults
       \/ Answer(t, {"failed"}) /\ Fault
    /\ UNCHANGED <<wallet, message, ledgers, crashes>>

TipStep(t) ==
    \/ TipStart(t) \/ TipFind(t) \/ TipCheck(t) \/ TipTransfer(t) \/ TipRecord(t) \/ TipFails(t)
    \/ TipNotify(t)

TipCrash ==
    /\ tip' = [t \in Tips |->
                 IF tip[t] \in {"idle", "done", "refused"} THEN tip[t] ELSE "lost"]
    /\ UNCHANGED <<message, ledgers, answers>>
=============================================================================
