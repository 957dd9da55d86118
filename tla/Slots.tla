------------------------------- MODULE Slots -------------------------------
(***************************************************************************)
(* What the locks of a Runner promise to the goroutines Enqueue starts:    *)
(* the goroutines of one chat work one after the other, at most one        *)
(* mutating goroutine works at a time, at most MaxReadOnly others do, and  *)
(* every goroutine gets its turn.                                          *)
(***************************************************************************)
EXTENDS Naturals, FiniteSets

CONSTANTS Goroutines, Keys, NoKey, MaxReadOnly

VARIABLES request,  \* what each goroutine was started for; never changes
          phase     \* how far it has come

Requests == [key: Keys \cup {NoKey}, mutating: BOOLEAN]

InChat == {"entered", "working", "leaving"}

Working(mutating) == {g \in Goroutines : phase[g] = "working" /\ request[g].mutating = mutating}

Init == /\ request \in [Goroutines -> Requests]
        /\ phase = [g \in Goroutines |-> "waiting"]

Move(g, from, to) == phase[g] = from /\ phase' = [phase EXCEPT ![g] = to]

\* A request without a chat id takes no lock.
EnterChat(g) ==
  /\ Move(g, "waiting", "entered")
  /\ request[g].key # NoKey =>
       \A h \in Goroutines : request[h].key = request[g].key => phase[h] \notin InChat

StartWork(g) ==
  /\ Move(g, "entered", "working")
  /\ IF request[g].mutating THEN Working(TRUE) = {}
                            ELSE Cardinality(Working(FALSE)) < MaxReadOnly

EndWork(g) == Move(g, "working", "leaving")

LeaveChat(g) == Move(g, "leaving", "done")

Next == /\ \E g \in Goroutines : EnterChat(g) \/ StartWork(g) \/ EndWork(g) \/ LeaveChat(g)
        /\ UNCHANGED request

SlotsSpec == Init /\ [][Next]_<<request, phase>>
=============================================================================
