----------------------------- MODULE InputFocus -----------------------------
(***************************************************************************)
(* What the server promises about the keyboard and the mouse, with no      *)
(* queues, commands or messages: one screen owns them, the server's own or *)
(* one that is reachable; and a screen that stops being reachable loses    *)
(* them to the server in that very step, never to another screen.          *)
(***************************************************************************)
CONSTANTS Names, Local

VARIABLES
  owner,     \* the screen the input goes to
  reachable  \* the screens it may go to

focusVars == <<owner, reachable>>

Init == owner = Local /\ reachable = {}

\* A screen becomes reachable; the input stays where it is.
Arrive(n) == reachable' = reachable \cup {n} /\ UNCHANGED owner

\* A screen is lost, and with it the input it had.
Lose(n) ==
  /\ reachable' = reachable \ {n}
  /\ owner' = IF owner = n THEN Local ELSE owner

\* The user moves the input to a screen that is reachable, or takes it home.
Move(n) == n \in reachable \cup {Local} /\ owner' = n /\ UNCHANGED reachable

Next == \E n \in Names : Arrive(n) \/ Lose(n) \/ Move(n) \/ Move(Local)

Spec == Init /\ [][Next]_focusVars
=============================================================================
