----------------------------- MODULE UciProtocol -----------------------------
(***************************************************************************)
(* What the GUI may rely on, whatever runs inside the engine: a go is      *)
(* owed exactly one bestmove, no second search starts while one is owed,   *)
(* an urged search is resolved, only a closing engine leaves a go without  *)
(* its bestmove, and a closed one has resolved it.                         *)
(***************************************************************************)

VARIABLES
  session,   \* "open", "closing" (quit or end of input was read), "closed"
  reply,     \* to the latest go: "none", "owed", "answered" or "dropped"
  urged      \* the running search was told to stop or ran into a limit

vars == <<session, reply, urged>>

Init == session = "open" /\ reply = "none" /\ urged = FALSE

Go ==
  /\ session = "open" /\ reply # "owed"
  /\ reply' = "owed"
  /\ UNCHANGED <<session, urged>>

Urge ==
  /\ reply = "owed" /\ ~urged
  /\ urged' = TRUE
  /\ UNCHANGED <<session, reply>>

\* The bestmove line. A quit may overtake a line that is being written.
Answer ==
  /\ reply = "owed"
  /\ reply' = "answered" /\ urged' = FALSE
  /\ UNCHANGED session

\* The search ends without a bestmove.
Drop ==
  /\ session = "closing" /\ reply = "owed"
  /\ reply' = "dropped" /\ urged' = FALSE
  /\ UNCHANGED session

Quit == session = "open" /\ session' = "closing" /\ UNCHANGED <<reply, urged>>

Close ==
  /\ session = "closing" /\ reply # "owed"
  /\ session' = "closed"
  /\ UNCHANGED <<reply, urged>>

Next == Go \/ Urge \/ Answer \/ Drop \/ Quit \/ Close

SafeSpec == Init /\ [][Next]_vars

Resolve == urged /\ (Answer \/ Drop)

Spec == SafeSpec /\ WF_vars(Resolve) /\ WF_vars(Close)

=============================================================================
