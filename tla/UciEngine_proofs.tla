-------------------------- MODULE UciEngine_proofs --------------------------
(***************************************************************************)
(* Safety of the two engine threads for every amount of work, every node   *)
(* limit and every set of go commands; and that each of their steps is a   *)
(* step, or a stutter, of UciProtocol.                                     *)
(***************************************************************************)
EXTENDS UciEngine, TLAPS

(* The parts of the invariant hold before the first command is read.       *)
LEMMA InitIInv == Init => IInv
<1> SUFFICES ASSUME Init PROVE IInv
  OBVIOUS
<1> USE DEF Init
<1>0. /\ stopped \in BOOLEAN /\ ponderhit \in BOOLEAN /\ suppress \in BOOLEAN
      /\ callback \in BOOLEAN /\ hitSeen \in BOOLEAN
      /\ told \in BOOLEAN /\ overtaken \in BOOLEAN
  BY Zenon
<1>1. TypeOK
  <2>1. limits \in [infinite: BOOLEAN, ponder: BOOLEAN, movetime: BOOLEAN,
                    hittime: BOOLEAN, nodes: BOOLEAN, searchmoves: BOOLEAN]
    BY DEF NoLimits
  <2>2. work \in 0..MaxWork
    BY WorkAssumption
  <2> QED
    BY <1>0, <2>1, <2>2 DEF TypeOK, Root, Core
<1>2. ExclusiveSteps /\ StopIsNotLost /\ HandlerOK
  BY DEF ExclusiveSteps, NeedsQuiet, StopIsNotLost, HandlerOK
<1>3. OneBestmovePerGo /\ SearchIsHeard /\ OutputOwned
  BY DEF OneBestmovePerGo, SearchIsHeard, OutputOwned, Running
<1>4. WaitInv /\ QuitIsSilent /\ SuppressOK
  BY DEF WaitInv, QuitIsSilent, NoLimits, Running, SuppressOK
<1> QED
  BY <1>1, <1>2, <1>3, <1>4 DEF IInv

(* Only the step sequences of Engine::loop matter to the UCI thread's      *)
(* place: where it goes next, and that "launch" is reached by go alone.    *)
LEMMA ReadLineIInv ==
  ASSUME IInv, NEW c \in Command, ReadLine(c)
  PROVE  IInv'
<1> USE DEF IInv
<1>1. /\ pc' \in {"suppress", "lock", "ponderhit", "stop"}
      /\ pc' = "suppress" <=> c \in Quitting
      /\ pc' = "lock" => c \in {"uci", "isready", "help"}
      /\ pc' \in {"suppress", "stop"} => c \notin {"uci", "isready", "help", "ponderhit"}
  BY DEF ReadLine, First, Quitting
<1>2. /\ cmd' = c /\ pc = "read"
      /\ UNCHANGED <<output, control, suppress, engine, search, history>>
  BY DEF ReadLine
<1>3. TypeOK'
  BY <1>1, <1>2 DEF TypeOK, control, engine, search, history
<1>4. ExclusiveSteps'
  BY <1>1, <1>2 DEF ExclusiveSteps, NeedsQuiet, Inspection
<1>5. HandlerOK' /\ StopIsNotLost'
  BY <1>1, <1>2 DEF HandlerOK, StopIsNotLost
<1>6. OneBestmovePerGo' /\ SearchIsHeard' /\ OutputOwned'
  BY <1>1, <1>2 DEF OneBestmovePerGo, SearchIsHeard, OutputOwned, Running, engine, search
<1>7. WaitInv' /\ QuitIsSilent'
  BY <1>2 DEF WaitInv, QuitIsSilent, Running, Undecidable, MayBeForced, control, engine, search, history
<1>8. SuppressOK'
  BY <1>1, <1>2 DEF SuppressOK
<1> QED
  BY <1>3, <1>4, <1>5, <1>6, <1>7, <1>8

(* The steps of the UCI thread keep the invariant. Only join, reset and    *)
(* launch touch what the search thread's conjuncts speak of, and the last  *)
(* two run with no search thread.                                          *)
LEMMA UiStepIInv ==
  ASSUME IInv, UiStep
  PROVE  IInv'
<1> USE DEF IInv
<1>0. SuppressOK'
  <2>1. CASE Suppress
    BY <2>1 DEF Suppress, Step, Then, SuppressOK
  <2>2. CASE RequestStop
    BY <2>2 DEF RequestStop, Step, Then, SuppressOK
  <2>3. CASE Join
    <3>1. /\ pc = "join" /\ pc' = AfterJoin(cmd) /\ suppress' = suppress
          /\ cmd' = (IF pc' = "read" THEN "none" ELSE cmd)
          /\ cmd \in Command \ {"uci", "isready", "help", "ponderhit"}
      BY <2>3 DEF Join, Step, Then, HandlerOK
    <3>2. pc' = "exit" <=> cmd \in Quitting
      BY <3>1 DEF AfterJoin, Command, Quitting, Inspection
    <3>3. pc' \notin {"stop", "join", "suppress"}
      BY <3>1 DEF AfterJoin, Command, Quitting, Inspection, HandlerOK
    <3> QED
      BY <3>1, <3>2, <3>3 DEF SuppressOK, Quitting
  <2>4. CASE Reset \/ SetCallback \/ (\E g \in GoRequest : Launch(g)) \/ Lock
    <3>1. pc \in {"reset", "callback", "launch", "lock"}
      BY <2>4 DEF Reset, SetCallback, Launch, Lock, Step
    <3>2. pc' \in {"callback", "launch", "lock", "read", "write"}
      BY <2>4 DEF Reset, SetCallback, Launch, Lock, Step, Then
    <3>3. suppress' = suppress \/ suppress' = FALSE
      BY <2>4 DEF Reset, SetCallback, Launch, Lock
    <3> QED
      BY <3>1, <3>2, <3>3 DEF SuppressOK
  <2>5. CASE PonderHit \/ SetPosition \/ SetOption \/ NewGame \/ Perft \/ Write
    <3>1. pc \in {"ponderhit", "position", "setoption", "ucinewgame", "perft", "write"}
      BY <2>5 DEF PonderHit, SetPosition, SetOption, NewGame, Perft, Write, Step
    <3>2. pc' = "read" /\ suppress' = suppress
      BY <2>5 DEF PonderHit, SetPosition, SetOption, NewGame, Perft, Write, Step, Then
    <3> QED
      BY <3>1, <3>2 DEF SuppressOK
  <2> QED
    BY <2>1, <2>2, <2>3, <2>4, <2>5 DEF UiStep
<1>1. CASE Suppress
  <2>1. pc = "suppress" /\ pc' = "stop" /\ cmd' = cmd
    BY <1>1 DEF Suppress, Step, Then
  <2>2. /\ suppress' = TRUE /\ overtaken' = Undecided
        /\ UNCHANGED <<output, control, engine, search, told, outcome>>
    BY <1>1 DEF Suppress
  <2>3. TypeOK'
    BY <2>1, <2>2 DEF TypeOK, control, engine, search, Undecided
  <2>4. ExclusiveSteps' /\ StopIsNotLost' /\ HandlerOK'
    BY <2>1, <2>2 DEF ExclusiveSteps, NeedsQuiet, StopIsNotLost, HandlerOK, search, control
  <2>5. OneBestmovePerGo' /\ SearchIsHeard' /\ OutputOwned'
    BY <2>1, <2>2 DEF OneBestmovePerGo, SearchIsHeard, OutputOwned, Running, engine, search
  <2>6. WaitInv' /\ QuitIsSilent'
    BY <2>2 DEF WaitInv, QuitIsSilent, Running, Undecidable, MayBeForced, Undecided, control, engine, search
  <2> QED
    BY <1>0, <2>3, <2>4, <2>5, <2>6
<1>2. CASE RequestStop
  <2>1. pc = "stop" /\ pc' = "join" /\ cmd' = cmd
    BY <1>2 DEF RequestStop, Step, Then
  <2>2. /\ stopped' = TRUE /\ told' = TRUE
        /\ UNCHANGED <<output, deadline, ponderhit, suppress, engine, search, overtaken, outcome>>
    BY <1>2 DEF RequestStop
  <2>3. TypeOK'
    BY <2>1, <2>2 DEF TypeOK, engine, search
  <2>4. ExclusiveSteps' /\ StopIsNotLost' /\ HandlerOK'
    BY <2>1, <2>2 DEF ExclusiveSteps, NeedsQuiet, StopIsNotLost, HandlerOK, search
  <2>5. OneBestmovePerGo' /\ SearchIsHeard' /\ OutputOwned'
    BY <2>1, <2>2 DEF OneBestmovePerGo, SearchIsHeard, OutputOwned, Running, engine, search
  <2>6. WaitInv' /\ QuitIsSilent'
    BY <2>2 DEF WaitInv, QuitIsSilent, Running, Undecidable, MayBeForced, engine, search
  <2> QED
    BY <1>0, <2>3, <2>4, <2>5, <2>6
<1>3. CASE Join
  <2>1. pc = "join" /\ pc' = AfterJoin(cmd) /\ cmd' = (IF pc' = "read" THEN "none" ELSE cmd)
    BY <1>3 DEF Join, Step, Then
  <2>2. cmd \in Command \ {"uci", "isready", "help", "ponderhit"}
    BY <2>1 DEF HandlerOK
  <2>3. pc' \in {"exit", "reset", "lock", "read", "position", "setoption", "ucinewgame", "perft"}
    BY <2>1, <2>2 DEF AfterJoin, Command, Quitting, Inspection
  <2>4. pc' = "reset" => cmd \in {"go", "badgo"}
    BY <2>1, <2>2 DEF AfterJoin, Command, Quitting, Inspection
  <2>5. /\ worker \in {"none", "done"} /\ worker' = "none" /\ callback' = FALSE
        /\ UNCHANGED <<output, control, suppress, root, core, limits, work, hitSeen, owed, history>>
    BY <1>3 DEF Join
  <2>6. TypeOK'
    <3>1. callback' \in BOOLEAN
      BY <2>5, Zenon
    <3> QED
      BY <2>1, <2>2, <2>3, <2>5, <3>1 DEF TypeOK, control, history
  <2>7. ExclusiveSteps' /\ StopIsNotLost' /\ HandlerOK'
    BY <2>1, <2>3, <2>4, <2>5 DEF ExclusiveSteps, StopIsNotLost, HandlerOK
  <2>8. OneBestmovePerGo' /\ SearchIsHeard' /\ OutputOwned'
    BY <2>1, <2>3, <2>5 DEF OneBestmovePerGo, SearchIsHeard, OutputOwned, Running
  <2>9. WaitInv' /\ QuitIsSilent'
    BY <2>5 DEF WaitInv, QuitIsSilent, Running, control, history
  <2> QED
    BY <1>0, <2>6, <2>7, <2>8, <2>9
<1>4. CASE Reset
  <2>1. pc = "reset" /\ pc' = "callback" /\ cmd' = cmd /\ worker = "none"
    BY <1>4 DEF Reset, Step, Then, ExclusiveSteps, NeedsQuiet
  <2>2. /\ stopped' = FALSE /\ deadline' = "off" /\ ponderhit' = FALSE
        /\ UNCHANGED <<output, suppress, engine, search, history>>
    BY <1>4 DEF Reset
  <2>3. TypeOK'
    <3>1. stopped' \in BOOLEAN /\ ponderhit' \in BOOLEAN
      BY <2>2, Zenon
    <3> QED
      BY <2>1, <2>2, <3>1 DEF TypeOK, engine, search, history
  <2>4. ExclusiveSteps' /\ StopIsNotLost' /\ HandlerOK'
    BY <2>1, <2>2 DEF ExclusiveSteps, StopIsNotLost, HandlerOK, search
  <2>5. OneBestmovePerGo' /\ SearchIsHeard' /\ OutputOwned'
    BY <2>1, <2>2 DEF OneBestmovePerGo, SearchIsHeard, OutputOwned, Running, engine, search
  <2>6. WaitInv' /\ QuitIsSilent'
    BY <2>1, <2>2 DEF WaitInv, QuitIsSilent, Running, search, history
  <2> QED
    BY <1>0, <2>3, <2>4, <2>5, <2>6
<1>5. CASE SetCallback
  <2>1. /\ pc = "callback" /\ pc' \in {"launch", "lock"} /\ cmd' = cmd /\ worker = "none"
        /\ cmd \in {"go", "badgo"}
    BY <1>5 DEF SetCallback, Step, Then, ExclusiveSteps, NeedsQuiet, HandlerOK
  <2>2. /\ callback' = TRUE
        /\ UNCHANGED <<output, control, suppress, root, core, search, history>>
    BY <1>5 DEF SetCallback
  <2>3. TypeOK'
    BY <2>1, <2>2 DEF TypeOK, control, search, history
  <2>4. ExclusiveSteps' /\ StopIsNotLost' /\ HandlerOK'
    BY <2>1, <2>2 DEF ExclusiveSteps, StopIsNotLost, HandlerOK, search, control
  <2>5. OneBestmovePerGo' /\ SearchIsHeard' /\ OutputOwned'
    BY <2>1, <2>2 DEF OneBestmovePerGo, SearchIsHeard, OutputOwned, Running, search
  <2>6. WaitInv' /\ QuitIsSilent'
    BY <2>1, <2>2 DEF WaitInv, QuitIsSilent, Running, control, search, history
  <2> QED
    BY <1>0, <2>3, <2>4, <2>5, <2>6
<1>6. ASSUME NEW g \in GoRequest, Launch(g) PROVE IInv'
  <2>1. /\ pc = "launch" /\ pc' = "read" /\ cmd' = "none" /\ worker = "none"
        /\ callback /\ ~stopped /\ deadline = "off" /\ ~ponderhit
    BY <1>6 DEF Launch, Step, Then, ExclusiveSteps, NeedsQuiet, HandlerOK
  <2>2. /\ limits' = GoLimits(g) /\ suppress' = FALSE /\ worker' = "start"
        /\ owed' = owed + 1 /\ told' = FALSE /\ overtaken' = FALSE
        /\ UNCHANGED <<output, control, engine, work, hitSeen, outcome>>
    BY <1>6 DEF Launch
  <2>3. g \in GoCommand
    BY GoAssumption
  <2>4. TypeOK'
    <3>1. suppress' \in BOOLEAN /\ told' \in BOOLEAN /\ overtaken' \in BOOLEAN
      BY <2>2, Zenon
    <3>2. limits' \in [infinite: BOOLEAN, ponder: BOOLEAN, movetime: BOOLEAN,
                       hittime: BOOLEAN, nodes: BOOLEAN, searchmoves: BOOLEAN]
      BY <2>2, <2>3 DEF GoLimits, GoCommand
    <3> QED
      BY <2>1, <2>2, <3>1, <3>2 DEF TypeOK, control, engine
  <2>5. ExclusiveSteps' /\ StopIsNotLost' /\ HandlerOK'
    BY <2>1, <2>2 DEF ExclusiveSteps, NeedsQuiet, StopIsNotLost, HandlerOK
  <2>6. OneBestmovePerGo' /\ SearchIsHeard' /\ OutputOwned'
    BY <2>1, <2>2 DEF OneBestmovePerGo, SearchIsHeard, OutputOwned, Running, engine
  <2>7. WaitInv' /\ QuitIsSilent'
    BY <2>1, <2>2, <2>3 DEF WaitInv, QuitIsSilent, GoLimits, GoCommand, control
  <2> QED
    BY <1>0, <2>4, <2>5, <2>6, <2>7
<1>7. CASE PonderHit
  <2>1. pc = "ponderhit" /\ pc' = "read" /\ cmd' = "none"
    BY <1>7 DEF PonderHit, Step, Then
  <2>2. /\ ponderhit' = TRUE /\ told' = (told \/ limits.hittime)
        /\ UNCHANGED <<output, stopped, deadline, suppress, engine, search, overtaken, outcome>>
    BY <1>7 DEF PonderHit
  <2>3. TypeOK'
    BY <2>1, <2>2 DEF TypeOK, engine, search
  <2>4. ExclusiveSteps' /\ StopIsNotLost' /\ HandlerOK'
    BY <2>1, <2>2 DEF ExclusiveSteps, NeedsQuiet, StopIsNotLost, HandlerOK
  <2>5. OneBestmovePerGo' /\ SearchIsHeard' /\ OutputOwned'
    BY <2>1, <2>2 DEF OneBestmovePerGo, SearchIsHeard, OutputOwned, Running, engine, search
  <2>6. WaitInv' /\ QuitIsSilent'
    BY <2>2 DEF WaitInv, QuitIsSilent, Running, Undecidable, MayBeForced, engine, search
  <2> QED
    BY <1>0, <2>3, <2>4, <2>5, <2>6
<1>8. CASE SetPosition \/ SetOption \/ NewGame
  <2>1. /\ pc \in {"position", "setoption", "ucinewgame"} /\ pc' = "read" /\ cmd' = "none"
        /\ worker = "none"
    BY <1>8 DEF SetPosition, SetOption, NewGame, Step, Then, ExclusiveSteps, NeedsQuiet
  <2>2. /\ root' \in Root /\ core' \in Core
        /\ UNCHANGED <<output, control, suppress, callback, search, history>>
    BY <1>8 DEF SetPosition, SetOption, NewGame, TypeOK, Root
  <2>3. TypeOK'
    BY <2>1, <2>2 DEF TypeOK, control, search, history
  <2>4. ExclusiveSteps' /\ StopIsNotLost' /\ HandlerOK'
    BY <2>1, <2>2 DEF ExclusiveSteps, StopIsNotLost, HandlerOK, search
  <2>5. OneBestmovePerGo' /\ SearchIsHeard' /\ OutputOwned'
    BY <2>1, <2>2 DEF OneBestmovePerGo, SearchIsHeard, OutputOwned, Running, search
  <2>6. WaitInv' /\ QuitIsSilent'
    BY <2>1, <2>2 DEF WaitInv, QuitIsSilent, Running, control, search, history
  <2> QED
    BY <1>0, <2>3, <2>4, <2>5, <2>6
<1>9. CASE Perft
  <2>1. /\ pc = "perft" /\ pc' = "read" /\ cmd' = "none"
        /\ UNCHANGED <<output, control, suppress, engine, search, history>>
    BY <1>9 DEF Perft, Step, Then
  <2>2. TypeOK' /\ ExclusiveSteps' /\ StopIsNotLost' /\ HandlerOK'
    BY <2>1 DEF TypeOK, ExclusiveSteps, NeedsQuiet, StopIsNotLost, HandlerOK,
                control, engine, search, history
  <2>3. OneBestmovePerGo' /\ SearchIsHeard' /\ OutputOwned'
    BY <2>1 DEF OneBestmovePerGo, SearchIsHeard, OutputOwned, Running, engine, search
  <2>4. WaitInv' /\ QuitIsSilent'
    BY <2>1 DEF WaitInv, QuitIsSilent, Running, Undecidable, MayBeForced, control, engine, search, history
  <2> QED
    BY <1>0, <2>2, <2>3, <2>4
<1>10. CASE Lock
  <2>1. /\ pc = "lock" /\ pc' = "write" /\ cmd' = cmd /\ output = "free" /\ output' = "ui"
        /\ UNCHANGED <<control, suppress, engine, search, history>>
    BY <1>10 DEF Lock, Step, Then
  <2>2. TypeOK' /\ StopIsNotLost' /\ HandlerOK'
    BY <2>1 DEF TypeOK, StopIsNotLost, HandlerOK, control, engine, search, history
  <2>3. ExclusiveSteps'
    BY <2>1 DEF ExclusiveSteps, NeedsQuiet, search
  <2>4. OneBestmovePerGo' /\ SearchIsHeard' /\ OutputOwned'
    BY <2>1 DEF OneBestmovePerGo, SearchIsHeard, OutputOwned, Running, engine, search
  <2>5. WaitInv' /\ QuitIsSilent'
    BY <2>1 DEF WaitInv, QuitIsSilent, Running, Undecidable, MayBeForced, control, engine, search, history
  <2> QED
    BY <1>0, <2>2, <2>3, <2>4, <2>5
<1>11. CASE Write
  <2>1. /\ pc = "write" /\ pc' = "read" /\ cmd' = "none" /\ output' = "free"
        /\ callback' = (callback /\ cmd # "badgo")
        /\ UNCHANGED <<control, suppress, root, core, search, history>>
    BY <1>11 DEF Write, Step, Then
  <2>2. output = "ui" /\ worker # "print"
    BY <2>1 DEF OutputOwned
  <2>3. cmd = "badgo" => worker = "none"
    BY <2>1 DEF ExclusiveSteps, NeedsQuiet
  <2>4. TypeOK' /\ ExclusiveSteps' /\ StopIsNotLost' /\ HandlerOK'
    BY <2>1 DEF TypeOK, ExclusiveSteps, NeedsQuiet, StopIsNotLost, HandlerOK,
                control, search, history
  <2>5. OneBestmovePerGo' /\ SearchIsHeard' /\ OutputOwned'
    BY <2>1, <2>2, <2>3 DEF OneBestmovePerGo, SearchIsHeard, OutputOwned, Running, search
  <2>6. WaitInv' /\ QuitIsSilent'
    BY <2>1 DEF WaitInv, QuitIsSilent, Running, Undecidable, MayBeForced, control, search, history
  <2> QED
    BY <1>0, <2>4, <2>5, <2>6
<1> QED
  BY <1>1, <1>2, <1>3, <1>4, <1>5, <1>6, <1>7, <1>8, <1>9, <1>10, <1>11 DEF UiStep

(* The steps of the search thread keep the invariant: none of them clears  *)
(* the stop token, and none but the report resolves the go.                *)
LEMMA WorkerStepIInv ==
  ASSUME IInv, WorkerStep
  PROVE  IInv'
<1> USE DEF IInv
<1>a. /\ Running /\ worker # "none"
      /\ UNCHANGED <<ui, suppress, engine, limits, told, overtaken, ponderhit>>
  BY DEF WorkerStep, ProbeRoot, BeginSearch, SeeStop, SeeLimit, SeePonderHit, Work, Idle,
         Finish, Emit, Report, PrintBestmove, GoesOn, Running, control, history
<1>b. outcome' \in {"none", "answered", "dropped"}
  BY DEF WorkerStep, ProbeRoot, BeginSearch, SeeStop, SeeLimit, SeePonderHit, Work, Idle,
         Finish, Emit, Report, PrintBestmove, history, TypeOK
<1>0. /\ Running /\ worker # "none" /\ outcome' \in {"none", "answered", "dropped"}
      /\ UNCHANGED <<ui, suppress, engine, limits, told, overtaken, ponderhit>>
  BY <1>a, <1>b
<1>1. ExclusiveSteps' /\ HandlerOK' /\ SuppressOK'
  <2>1. ~NeedsQuiet
    BY <1>0 DEF ExclusiveSteps
  <2>2. ~NeedsQuiet'
    BY <2>1, <1>0 DEF NeedsQuiet, ui
  <2>3. HandlerOK'
    BY <2>1, <1>0 DEF HandlerOK, NeedsQuiet, ui
  <2>4. SuppressOK'
    BY <1>0 DEF SuppressOK, ui
  <2> QED
    BY <2>2, <2>3, <2>4 DEF ExclusiveSteps
<1>2. CASE ProbeRoot
  <2>1. /\ worker = "start" /\ worker' = "report" /\ ~limits.infinite
        /\ UNCHANGED <<output, control, limits, work, hitSeen, owed>>
    BY <1>2 DEF ProbeRoot, FromTablebase
  <2>2. TypeOK' /\ StopIsNotLost' /\ OneBestmovePerGo' /\ SearchIsHeard' /\ OutputOwned'
    BY <1>0, <2>1 DEF TypeOK, StopIsNotLost, OneBestmovePerGo, SearchIsHeard, OutputOwned,
                      Running, ui, control, engine, history
  <2>3. WaitInv' /\ QuitIsSilent'
    BY <1>0, <2>1 DEF WaitInv, QuitIsSilent, Running, control, history
  <2> QED
    BY <1>1, <2>2, <2>3
<1>3. CASE BeginSearch
  <2>1. /\ worker = "start" /\ worker' \in {"report", "search"}
        /\ worker' = "report" => Immediate \/ MayBeForced
        /\ deadline' = (IF limits.ponder THEN deadline
                        ELSE IF limits.movetime THEN "armed" ELSE "off")
        /\ work' = 0 /\ hitSeen' = FALSE
        /\ UNCHANGED <<output, stopped, ponderhit, owed>>
    BY <1>3 DEF BeginSearch
  <2>2. work' \in 0..MaxWork /\ hitSeen' \in BOOLEAN
    <3>1. hitSeen' \in BOOLEAN
      BY <2>1, Zenon
    <3> QED
      BY <2>1, <3>1, WorkAssumption
  <2>3. TypeOK'
    BY <1>0, <2>1, <2>2 DEF TypeOK, ui, engine, history
  <2>4. StopIsNotLost' /\ OneBestmovePerGo' /\ SearchIsHeard' /\ OutputOwned'
    BY <1>0, <2>1 DEF StopIsNotLost, OneBestmovePerGo, SearchIsHeard, OutputOwned,
                      Running, ui, engine
  <2>5. worker' = "report" => ~Undecidable'
    BY <1>0, <2>1 DEF Immediate, MayBeForced, Undecidable, engine, TypeOK, Root, Core
  <2>6. WaitInv' /\ QuitIsSilent'
    BY <1>0, <2>1, <2>5 DEF WaitInv, QuitIsSilent, Running, history
  <2> QED
    BY <1>1, <2>3, <2>4, <2>6
<1>4. CASE SeeStop
  <2>1. /\ worker = "search" /\ stopped /\ worker' = "report"
        /\ UNCHANGED <<output, control, work, hitSeen, owed>>
    BY <1>4 DEF SeeStop
  <2>2. TypeOK' /\ StopIsNotLost' /\ OneBestmovePerGo' /\ SearchIsHeard' /\ OutputOwned'
    BY <1>0, <2>1 DEF TypeOK, StopIsNotLost, OneBestmovePerGo, SearchIsHeard, OutputOwned,
                      Running, ui, control, engine, history
  <2>3. WaitInv' /\ QuitIsSilent'
    BY <1>0, <2>1 DEF WaitInv, QuitIsSilent, Running, control, history
  <2> QED
    BY <1>1, <2>2, <2>3
<1>5. CASE SeeLimit
  <2>1. /\ worker = "search" /\ LimitReached /\ worker' = "report" /\ stopped' = TRUE
        /\ UNCHANGED <<output, deadline, ponderhit, work, hitSeen, owed>>
    BY <1>5 DEF SeeLimit
  <2>2. TypeOK' /\ StopIsNotLost' /\ OneBestmovePerGo' /\ SearchIsHeard' /\ OutputOwned'
    BY <1>0, <2>1 DEF TypeOK, StopIsNotLost, OneBestmovePerGo, SearchIsHeard, OutputOwned,
                      Running, ui, engine, history
  <2>3. WaitInv' /\ QuitIsSilent'
    BY <1>0, <2>1 DEF WaitInv, QuitIsSilent, Running, LimitReached, history
  <2> QED
    BY <1>1, <2>2, <2>3
<1>6. CASE SeePonderHit
  <2>1. /\ worker = "search" /\ limits.ponder /\ ponderhit /\ hitSeen' = TRUE
        /\ deadline' = (IF limits.hittime THEN "armed" ELSE "off")
        /\ UNCHANGED <<output, stopped, worker, work, owed>>
    BY <1>6 DEF SeePonderHit, GoesOn, HitPending
  <2>2. TypeOK' /\ StopIsNotLost' /\ OneBestmovePerGo' /\ SearchIsHeard' /\ OutputOwned'
    BY <1>0, <2>1 DEF TypeOK, StopIsNotLost, OneBestmovePerGo, SearchIsHeard, OutputOwned,
                      Running, ui, engine, history
  <2>3. WaitInv' /\ QuitIsSilent'
    BY <1>0, <2>1 DEF WaitInv, QuitIsSilent, Running, history
  <2> QED
    BY <1>1, <2>2, <2>3
<1>7. CASE Work
  <2>1. /\ worker = "search" /\ worker' \in {"search", "emit"}
        /\ work < MaxWork /\ work' = work + 1
        /\ UNCHANGED <<output, control, hitSeen, owed>>
    BY <1>7 DEF Work, GoesOn
  <2>2. work \in Nat /\ work' \in 0..MaxWork
    BY <2>1, WorkAssumption DEF TypeOK
  <2>3. TypeOK' /\ StopIsNotLost' /\ OneBestmovePerGo' /\ SearchIsHeard' /\ OutputOwned'
    BY <1>0, <2>1, <2>2 DEF TypeOK, StopIsNotLost, OneBestmovePerGo, SearchIsHeard, OutputOwned,
                            Running, ui, control, engine, history
  <2>4. work >= NodeLimit => work' >= NodeLimit
    BY <2>1, <2>2, WorkAssumption
  <2>5. WaitInv' /\ QuitIsSilent'
    BY <1>0, <2>1, <2>4 DEF WaitInv, QuitIsSilent, Running, control, history
  <2> QED
    BY <1>1, <2>3, <2>5
<1>8. CASE Idle \/ Emit
  <2>1. /\ worker \in {"search", "emit"} /\ worker' \in {"search", "emit"}
        /\ UNCHANGED <<output, control, work, hitSeen, owed>>
    BY <1>8 DEF Idle, Emit, GoesOn
  <2>2. TypeOK' /\ StopIsNotLost' /\ OneBestmovePerGo' /\ SearchIsHeard' /\ OutputOwned'
    BY <1>0, <2>1 DEF TypeOK, StopIsNotLost, OneBestmovePerGo, SearchIsHeard, OutputOwned,
                      Running, ui, control, engine, history
  <2>3. WaitInv' /\ QuitIsSilent'
    BY <1>0, <2>1 DEF WaitInv, QuitIsSilent, Running, control, history
  <2> QED
    BY <1>1, <2>2, <2>3
<1>9. CASE Finish
  <2>1. /\ worker = "search" /\ worker' = "report"
        /\ ~limits.infinite \/ (root = "mating" /\ core = "modern")
        /\ UNCHANGED <<output, control, work, hitSeen, owed>>
    BY <1>9 DEF Finish, GoesOn
  <2>2. TypeOK' /\ StopIsNotLost' /\ OneBestmovePerGo' /\ SearchIsHeard' /\ OutputOwned'
    BY <1>0, <2>1 DEF TypeOK, StopIsNotLost, OneBestmovePerGo, SearchIsHeard, OutputOwned,
                      Running, ui, control, engine, history
  <2>3. limits.infinite => ~Undecidable'
    BY <1>0, <2>1 DEF Undecidable, MayBeForced, engine
  <2>4. WaitInv' /\ QuitIsSilent'
    BY <1>0, <2>1, <2>3 DEF WaitInv, QuitIsSilent, Running, control, history
  <2> QED
    BY <1>1, <2>2, <2>4
<1>10. CASE Report
  <2>1. /\ worker = "report" /\ output = "free"
        /\ UNCHANGED <<control, work, hitSeen>>
    BY <1>10 DEF Report
  <2>2. CASE suppress
    <3>1. worker' = "done" /\ owed' = owed - 1 /\ output' = output
      BY <1>10, <2>2 DEF Report
    <3>2. TypeOK' /\ StopIsNotLost' /\ OneBestmovePerGo' /\ SearchIsHeard' /\ OutputOwned'
      BY <1>0, <2>1, <3>1 DEF TypeOK, StopIsNotLost, OneBestmovePerGo, SearchIsHeard, OutputOwned,
                              Running, ui, control, engine, history
    <3>3. WaitInv' /\ QuitIsSilent'
      BY <1>0, <2>1, <3>1 DEF WaitInv, QuitIsSilent, Running, control, history
    <3> QED
      BY <1>1, <3>2, <3>3
  <2>3. CASE ~suppress
    <3>1. worker' = "print" /\ owed' = owed /\ output' = "worker"
      BY <1>10, <2>3 DEF Report
    <3>2. TypeOK' /\ StopIsNotLost' /\ OneBestmovePerGo' /\ SearchIsHeard' /\ OutputOwned'
      BY <1>0, <2>1, <3>1 DEF TypeOK, StopIsNotLost, OneBestmovePerGo, SearchIsHeard, OutputOwned,
                              Running, ui, control, engine, history
    <3>3. WaitInv' /\ QuitIsSilent'
      BY <1>0, <2>1, <2>3, <3>1 DEF WaitInv, QuitIsSilent, Running, Undecidable, MayBeForced,
                                    control, engine, history
    <3> QED
      BY <1>1, <3>2, <3>3
  <2> QED
    BY <2>2, <2>3
<1>11. CASE PrintBestmove
  <2>1. /\ worker = "print" /\ worker' = "done" /\ owed' = owed - 1 /\ output' = "free"
        /\ UNCHANGED <<control, work, hitSeen>>
    BY <1>11 DEF PrintBestmove
  <2>2. TypeOK' /\ StopIsNotLost' /\ OneBestmovePerGo' /\ SearchIsHeard' /\ OutputOwned'
    BY <1>0, <2>1 DEF TypeOK, StopIsNotLost, OneBestmovePerGo, SearchIsHeard, OutputOwned,
                      Running, ui, control, engine, history
  <2>3. WaitInv' /\ QuitIsSilent'
    BY <1>0, <2>1 DEF WaitInv, QuitIsSilent, Running, control, history
  <2> QED
    BY <1>1, <2>2, <2>3
<1> QED
  BY <1>2, <1>3, <1>4, <1>5, <1>6, <1>7, <1>8, <1>9, <1>10, <1>11 DEF WorkerStep

(* The clock and the exit keep the invariant.                              *)
LEMMA QuietStepIInv ==
  ASSUME IInv, DeadlinePasses \/ UNCHANGED vars
  PROVE  IInv'
<1> USE DEF IInv
<1>1. /\ UNCHANGED <<ui, output, stopped, ponderhit, suppress, engine, search, history>>
      /\ deadline' = deadline \/ (deadline = "armed" /\ deadline' = "passed")
  BY DEF DeadlinePasses, vars, control
<1>2. TypeOK' /\ StopIsNotLost' /\ OneBestmovePerGo' /\ SearchIsHeard' /\ OutputOwned'
  BY <1>1 DEF TypeOK, StopIsNotLost, OneBestmovePerGo, SearchIsHeard, OutputOwned,
              Running, ui, engine, search, history
<1>3. ExclusiveSteps' /\ HandlerOK' /\ SuppressOK'
  BY <1>1 DEF ExclusiveSteps, HandlerOK, SuppressOK, NeedsQuiet, ui, engine, search
<1>4. WaitInv' /\ QuitIsSilent'
  BY <1>1 DEF WaitInv, QuitIsSilent, Running, Undecidable, MayBeForced, engine, search, history
<1> QED
  BY <1>2, <1>3, <1>4

(* Every step of the two threads keeps the invariant.                      *)
LEMMA NextIInv == IInv /\ [Next]_vars => IInv'
BY ReadLineIInv, UiStepIInv, WorkerStepIInv, QuietStepIInv DEF Next, Exited

(* The engine's threads never step on each other: the shared state is only *)
(* touched with the search joined, every go is owed one bestmove, no stop  *)
(* is lost, and a search overtaken by quit stays silent.                   *)
THEOREM EngineInvariant == Spec => []IInv
BY InitIInv, NextIInv, PTL DEF Spec

(* Whatever a running search reads without a lock is replaced only between *)
(* searches, and no thread is launched over another.                       *)
THEOREM EngineExclusiveSteps == Spec => []ExclusiveSteps
<1>1. IInv => ExclusiveSteps
  BY DEF IInv
<1> QED
  BY <1>1, EngineInvariant, PTL

(* One bestmove is owed while, and only while, a search is running.        *)
THEOREM EngineOneBestmove == Spec => []OneBestmovePerGo
<1>1. IInv => OneBestmovePerGo
  BY DEF IInv
<1> QED
  BY <1>1, EngineInvariant, PTL

(* A running search is heard: its callback is installed.                   *)
THEOREM EngineSearchIsHeard == Spec => []SearchIsHeard
<1>1. IInv => SearchIsHeard
  BY DEF IInv
<1> QED
  BY <1>1, EngineInvariant, PTL

(* join never waits for a search whose stop was lost.                      *)
THEOREM EngineStopIsNotLost == Spec => []StopIsNotLost
<1>1. IInv => StopIsNotLost
  BY DEF IInv
<1> QED
  BY <1>1, EngineInvariant, PTL

(* go infinite and go ponder wait for the GUI, for every set of requests.  *)
THEOREM EngineInfiniteWaits == Spec => []InfiniteWaits
<1>1. IInv => InfiniteWaits
  BY DEF IInv, WaitInv, InfiniteWaits
<1> QED
  BY <1>1, EngineInvariant, PTL

(* quit answers no search that was still thinking.                         *)
THEOREM EngineQuitIsSilent == Spec => []QuitIsSilent
<1>1. IInv => QuitIsSilent
  BY DEF IInv
<1> QED
  BY <1>1, EngineInvariant, PTL

-----------------------------------------------------------------------------
\* What a step of the engine means to the GUI.
GuiState == <<session, reply, stopped /\ owed = 1>>

(* A handler leads to the exit of the loop only for quit, or at the end of *)
(* the input, and no step leads back from it.                              *)
LEMMA ExitIsFinal ==
  ASSUME IInv, UiStep
  PROVE  /\ pc # "exit"
         /\ pc' = "exit" => Join /\ cmd \in Quitting /\ suppress
<1> USE DEF IInv
<1>1. pc # "exit"
  BY DEF UiStep, Suppress, RequestStop, Join, Reset, SetCallback, Launch, PonderHit,
         SetPosition, SetOption, NewGame, Perft, Lock, Write, Step
<1>2. CASE Join
  <2>1. pc = "join" /\ pc' = AfterJoin(cmd)
    BY <1>2 DEF Join, Step, Then
  <2>2. pc' = "exit" => cmd \in Quitting
    BY <2>1 DEF AfterJoin, HandlerOK, Command, Quitting, Inspection
  <2> QED
    BY <1>1, <1>2, <2>1, <2>2 DEF SuppressOK
<1>3. CASE ~Join
  BY <1>1, <1>3 DEF UiStep, Suppress, RequestStop, Reset, SetCallback, Launch, PonderHit,
         SetPosition, SetOption, NewGame, Perft, Lock, Write, Step, Then
<1> QED
  BY <1>2, <1>3

(* Seen from the GUI, a step of the UCI thread is a Go, an Urge, a Quit, a *)
(* Close or nothing.                                                       *)
LEMMA UiStepRefines ==
  ASSUME IInv, UiStep
  PROVE  Protocol!Next \/ UNCHANGED GuiState
<1> USE DEF IInv, Protocol!Next, GuiState, reply
<1>1. pc # "exit" /\ (pc' = "exit" => Join /\ cmd \in Quitting /\ suppress)
  BY ExitIsFinal
<1>2. CASE Suppress
  <2>1. ~suppress /\ suppress' = TRUE /\ pc' = "stop" /\ UNCHANGED <<owed, outcome, stopped>>
    BY <1>2 DEF Suppress, Step, Then, SuppressOK, control, search
  <2>2. session = "open" /\ session' = "closing"
    BY <1>1, <2>1 DEF session
  <2> QED
    BY <2>1, <2>2 DEF Protocol!Quit
<1>3. CASE RequestStop
  <2>1. stopped' = TRUE /\ owed' = owed /\ outcome' = outcome /\ session' = session
    BY <1>1, <1>3 DEF RequestStop, Step, Then, search, session
  <2>2. CASE owed = 1 /\ ~stopped
    BY <2>1, <2>2 DEF Protocol!Urge
  <2>3. CASE ~(owed = 1 /\ ~stopped)
    BY <2>1, <2>3 DEF TypeOK
  <2> QED
    BY <2>2, <2>3
<1>4. CASE Join
  <2>1. owed = 0 /\ owed' = 0 /\ UNCHANGED <<stopped, suppress, outcome>>
    BY <1>4 DEF Join, OneBestmovePerGo, Running, control, history
  <2>2. CASE pc' = "exit"
    <3>1. session = "closing" /\ session' = "closed"
      BY <1>1, <2>1, <2>2 DEF session
    <3>2. reply # "owed"
      BY <2>1 DEF TypeOK
    <3> QED
      BY <2>1, <3>1, <3>2 DEF Protocol!Close
  <2>3. CASE pc' # "exit"
    BY <1>1, <2>1, <2>3 DEF session
  <2> QED
    BY <2>2, <2>3
<1>5. CASE Reset
  <2>1. owed = 0 /\ owed' = 0 /\ UNCHANGED <<outcome, suppress>> /\ pc' # "exit"
    BY <1>1, <1>5 DEF Reset, Step, Then, ExclusiveSteps, NeedsQuiet, OneBestmovePerGo, Running,
                      search, history
  <2> QED
    BY <1>1, <2>1 DEF session
<1>6. ASSUME NEW g \in GoRequest, Launch(g)
      PROVE  Protocol!Next \/ UNCHANGED GuiState
  <2>1. /\ pc = "launch" /\ pc' = "read" /\ owed = 0 /\ owed' = 1
        /\ ~stopped /\ stopped' = stopped /\ suppress' = FALSE /\ ~suppress
    BY <1>6 DEF Launch, Step, Then, ExclusiveSteps, NeedsQuiet, OneBestmovePerGo, Running,
                HandlerOK, SuppressOK, control
  <2>2. session = "open" /\ session' = "open"
    BY <2>1 DEF session
  <2>3. reply # "owed" /\ reply' = "owed"
    BY <2>1 DEF TypeOK
  <2> QED
    BY <2>1, <2>2, <2>3 DEF Protocol!Go
<1>7. CASE SetCallback \/ PonderHit \/ SetPosition \/ SetOption \/ NewGame \/ Perft \/ Lock \/ Write
  <2>1. UNCHANGED <<stopped, suppress, owed, outcome>> /\ pc' # "exit"
    BY <1>1, <1>7 DEF SetCallback, PonderHit, SetPosition, SetOption, NewGame, Perft, Lock, Write,
                      Step, Then, control, search, history
  <2> QED
    BY <1>1, <2>1 DEF session
<1> QED
  BY <1>2, <1>3, <1>4, <1>5, <1>6, <1>7 DEF UiStep

(* Seen from the GUI, a step of the search thread is an Urge, an Answer, a *)
(* Drop or nothing.                                                        *)
LEMMA WorkerStepRefines ==
  ASSUME IInv, WorkerStep
  PROVE  Protocol!Next \/ UNCHANGED GuiState
<1> USE DEF IInv, Protocol!Next, GuiState, reply
<1>1. /\ owed = 1 /\ pc # "exit"
      /\ session' = session
  <2>1. Running /\ worker # "none" /\ UNCHANGED <<ui, suppress>>
    BY DEF WorkerStep, ProbeRoot, BeginSearch, SeeStop, SeeLimit, SeePonderHit, Work, Idle,
           Finish, Emit, Report, PrintBestmove, GoesOn, Running
  <2> QED
    BY <2>1 DEF OneBestmovePerGo, ExclusiveSteps, NeedsQuiet, session, ui
<1>2. CASE SeeLimit
  <2>1. ~stopped /\ stopped' = TRUE /\ owed' = owed
    BY <1>2 DEF SeeLimit
  <2> QED
    BY <1>1, <2>1 DEF Protocol!Urge
<1>3. CASE Report
  <2>1. stopped' = stopped
    BY <1>3 DEF Report, control
  <2>2. CASE suppress
    <3>1. owed' = 0 /\ outcome' = "dropped"
      BY <1>1, <1>3, <2>2 DEF Report
    <3>2. session = "closing"
      BY <1>1, <2>2 DEF session
    <3> QED
      BY <1>1, <3>1, <3>2 DEF Protocol!Drop
  <2>3. CASE ~suppress
    BY <1>1, <1>3, <2>1, <2>3 DEF Report
  <2> QED
    BY <2>2, <2>3
<1>4. CASE PrintBestmove
  <2>1. owed' = 0 /\ outcome' = "answered"
    BY <1>1, <1>4 DEF PrintBestmove
  <2> QED
    BY <1>1, <2>1 DEF Protocol!Answer
<1>5. CASE ProbeRoot \/ BeginSearch \/ SeeStop \/ SeePonderHit \/ Work \/ Idle \/ Finish \/ Emit
  <2>1. UNCHANGED <<stopped, owed, outcome>>
    BY <1>5 DEF ProbeRoot, BeginSearch, SeeStop, SeePonderHit, Work, Idle, Finish, Emit, control, history
  <2> QED
    BY <1>1, <2>1
<1> QED
  BY <1>2, <1>3, <1>4, <1>5 DEF WorkerStep

(* The engine implements the safety part of UciProtocol: exactly one       *)
(* bestmove between two searches, and none without a go, unless quit drops *)
(* it (Engine::loop, Engine::report_result).                               *)
THEOREM EngineRefinesProtocol == Spec => Protocol!SafeSpec
<1>1. Init => Protocol!Init
  BY DEF Init, Protocol!Init, session, reply
<1>2. IInv /\ [Next]_vars => [Protocol!Next]_GuiState
  <2> SUFFICES ASSUME IInv, [Next]_vars PROVE Protocol!Next \/ UNCHANGED GuiState
    OBVIOUS
  <2>1. ASSUME NEW c \in Command, ReadLine(c) PROVE UNCHANGED GuiState
    <3>1. pc = "read" /\ pc' # "exit" /\ UNCHANGED <<stopped, suppress, owed, outcome>>
      BY <2>1 DEF ReadLine, First, control, search, history
    <3> QED
      BY <3>1 DEF GuiState, session, reply
  <2>2. CASE DeadlinePasses \/ UNCHANGED vars
    BY <2>2 DEF DeadlinePasses, vars, ui, control, search, history, GuiState, session, reply
  <2> QED
    BY <2>1, <2>2, UiStepRefines, WorkerStepRefines DEF Next, Exited
<1> QED
  BY <1>1, <1>2, EngineInvariant, PTL DEF Spec, Protocol!SafeSpec, Protocol!vars, GuiState

=============================================================================
