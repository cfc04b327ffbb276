------------------------------- MODULE MCPvP --------------------------------
(***************************************************************************)
(* The first player opens a challenge in the chat, which the second may    *)
(* accept, tapping twice; the second opens one on the web, which the first *)
(* and a third may accept.  The cfgs choose which requests there are.      *)
(***************************************************************************)
EXTENDS PvP

CONSTANTS u1, u2, u3,       \* the players
          chat1, web1,      \* the challenges
          tap1, tap2,       \* acceptances of chat1
          put1, put2        \* acceptances of web1

MCCreatorOf == [c \in Challenges |-> IF c = chat1 THEN u1 ELSE u2]
MCTypeOf == [c \in Challenges |-> IF c = chat1 THEN "CHAT" ELSE "WEB"]
MCTargetOf == [c \in Challenges |-> IF c = chat1 THEN "PUMP" ELSE "DUMP"]
MCChallengeOf == [a \in Accepts |-> IF a \in {tap1, tap2} THEN chat1 ELSE web1]
MCAcceptorOf ==
    [a \in Accepts |-> IF a = put1 THEN u1 ELSE IF a = put2 THEN u3 ELSE u2]
MCIdPrefixOf == [u \in Users |-> {u}]
=============================================================================
