-------------------------- MODULE MCChannelManager --------------------------
(* Two boards, one with an E-Stop and one with a gpio output: of the two   *)
(* channels registered only "board" has entities, and the pins of the      *)
(* other are still.                                                        *)
EXTENDS ChannelManager, FiniteSets

Boards    == <<"estop", "gpio">>
AnyParams == {[period_ms |-> 2, enabled |-> e, invert_logic |-> b] : e, b \in BOOLEAN}

VARIABLE board

Alone ==
  /\ pubActive \cup subActive \subseteq {board}
  /\ \A p \in Pin : p[1] # board => ~level[p] /\ ~latched[p]

(* What is unusual about a channel: of the board's at most one thing, as   *)
(* none of the three ever changes.                                         *)
Unusual(c) ==
  {x \in {"disabled", "inverted", "unarmed"} :
     \/ x = "disabled" /\ ~states[c].enabled
     \/ x = "inverted" /\ states[c].invert_logic
     \/ x = "unarmed"  /\ \E p \in Pin \ armed : p[1] = c}

BoardInit ==
  /\ Init /\ board \in Channel /\ Alone
  /\ \A c \in Channel : Cardinality(Unusual(c)) <= IF c = board THEN 1 ELSE 0

BoardNext == Next /\ UNCHANGED board /\ Alone'

BoardSpec == BoardInit /\ [][BoardNext]_<<vars, board>> /\ Fairness
=============================================================================
