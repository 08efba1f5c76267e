---------------------------- MODULE SampledTopic ----------------------------
(***************************************************************************)
(* What a sensor topic promises the host: a value reaches the host only if *)
(* the input really had it at one instant, values arrive in the order they *)
(* were sampled, and a sample may be lost.  Nothing is said here of how    *)
(* soon an input is sampled.                                               *)
(***************************************************************************)
CONSTANT None
VARIABLES input, taken, host

TopicVars == <<input, taken, host>>

TopicInit == taken = None /\ host = None

Change  == UNCHANGED <<taken, host>>
Sample  == taken = None /\ taken' = input /\ UNCHANGED <<input, host>>
Deliver == taken # None /\ host' = taken /\ taken' = None /\ UNCHANGED input
Lose    == taken # None /\ taken' = None /\ UNCHANGED <<input, host>>

TopicNext == Change \/ Sample \/ Deliver \/ Lose
TopicSpec == TopicInit /\ [][TopicNext]_TopicVars
=============================================================================
