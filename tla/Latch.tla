-------------------------------- MODULE Latch --------------------------------
(***************************************************************************)
(* What cpptb::coro::Event promises: a flag that coroutines wait for.      *)
(* Setting it lets all of them go, in one step and whatever has become of  *)
(* the others; nobody waits while it is set; a coroutine that is cancelled *)
(* leaves alone.                                                           *)
(***************************************************************************)
EXTENDS FiniteSets

CONSTANT Clients

VARIABLES
  flag,     \* whether the latch is set
  waiting   \* the clients that wait for it

vars == <<flag, waiting>>

TypeOK == flag \in BOOLEAN /\ waiting \subseteq Clients

Init == flag = FALSE /\ waiting = {}

Wait(c) ==
  /\ ~flag
  /\ c \notin waiting
  /\ waiting' = waiting \cup {c}
  /\ UNCHANGED flag

Leave(c) ==
  /\ c \in waiting
  /\ waiting' = waiting \ {c}
  /\ UNCHANGED flag

Set == flag' = TRUE /\ waiting' = {}

Clear == flag' = FALSE /\ UNCHANGED waiting

Next == (\E c \in Clients : Wait(c) \/ Leave(c)) \/ Set \/ Clear

Spec == Init /\ [][Next]_vars
=============================================================================
