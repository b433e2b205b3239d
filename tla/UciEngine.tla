------------------------------ MODULE UciEngine ------------------------------
(***************************************************************************)
(* The two threads of the engine: the UCI thread that reads commands       *)
(* (uci.cpp) and the search thread that a go launches (search.cpp), with   *)
(* the stop token, the deadline, the ponderhit flag, the suppression flag  *)
(* and the output mutex they share. The search itself is cut down to units *)
(* of work; what it decides about a position is another module's subject.  *)
(***************************************************************************)
EXTENDS Integers

CONSTANTS
  MaxWork,     \* bound: units of work until the proof tree, or the depth cap, is exhausted
  NodeLimit,   \* units of work that exhaust a "go nodes" limit
  GoRequest    \* the go commands the GUI may send

ASSUME WorkAssumption == MaxWork \in Nat /\ NodeLimit \in Nat

(* A go command by what changes control: "time" is the clock of the side   *)
(* to move or a movetime.                                                  *)
GoCommand == [infinite: BOOLEAN, ponder: BOOLEAN, time: BOOLEAN,
              nodes: BOOLEAN, searchmoves: BOOLEAN]

ASSUME GoAssumption == GoRequest \subseteq GoCommand

Root == {"open",       \* two moves or more and nothing decided
         "mating",     \* open, and the search can prove a mate
         "forced",     \* one legal move, or a draw by rule
         "over",       \* checkmate or stalemate
         "tablebase"}  \* open, and covered by the tablebases
Core == {"modern", "classic"}

Quitting == {"quit", "eof"}
Inspection == {"d", "eval", "backend", "syzygy", "leelaprobe", "nnueverify"}
Command == {"uci", "isready", "help", "ponderhit", "stop", "position", "setoption",
            "ucinewgame", "perft", "go", "badgo"} \cup Quitting \cup Inspection

VARIABLES
  pc, cmd,     \* UCI thread: its next step, and the command it belongs to
  worker,      \* search thread: its next step, or "none" when not joinable
  output,      \* output_mutex_: "free" or its owner
  stopped,     \* SearchControl: the stop token
  deadline,    \* SearchControl: "off", "armed" or "passed"
  ponderhit,   \* SearchControl: ponderhit_requested
  suppress,    \* suppress_bestmove_
  callback,    \* info_callback_ is set
  root, core,  \* pos_ and the selected search core
  limits,      \* the Limits of the latest search
  work, hitSeen,  \* the search thread's progress and ponderhit_active_
  owed,        \* history: go commands accepted minus searches resolved
  told,        \* history: since the latest launch came a stop, or the ponderhit it waits for
  overtaken,   \* history: quit was read while the result was not yet due
  outcome      \* history: the search last resolved was "answered" or "dropped"

control == <<stopped, deadline, ponderhit>>
ui == <<pc, cmd>>
engine == <<root, core, callback>>
search == <<worker, limits, work, hitSeen, owed>>
history == <<told, overtaken, outcome>>
vars == <<ui, output, control, suppress, engine, search, history>>

-----------------------------------------------------------------------------
\* The handlers of Engine::loop, as the sequence of steps each one takes.

\* Fault: inspection commands take the output mutex beside the search.
FirstLocks(c) ==
  CASE c \in Quitting -> "suppress"
    [] c \in {"uci", "isready", "help"} \cup Inspection -> "lock"
    [] c = "ponderhit" -> "ponderhit"
    [] OTHER -> "stop"

\* stop_search(true) comes first in every handler that touches what the
\* search uses; uci, isready, help and ponderhit run beside the search.
First(c) ==
  CASE c \in Quitting -> "suppress"
    [] c \in {"uci", "isready", "help"} -> "lock"
    [] c = "ponderhit" -> "ponderhit"
    [] OTHER -> "stop"

AfterJoin(c) ==
  CASE c \in Quitting -> "exit"
    [] c \in {"go", "badgo"} -> "reset"
    [] c \in Inspection -> "lock"
    [] c = "stop" -> "read"
    [] OTHER -> c

Then(c, step) ==
  CASE step = "suppress" -> "stop"
    [] step = "stop" -> "join"
    [] step = "join" -> AfterJoin(c)
    [] step = "reset" -> "callback"
    [] step = "callback" -> IF c = "go" THEN "launch" ELSE "lock"
    [] step = "lock" -> "write"
    [] OTHER -> "read"

\* What go makes of its tokens: infinite and ponder searches get no deadline
\* of their own, a ponder search gets one at ponderhit.
GoLimits(g) ==
  [infinite |-> g.infinite \/ g.ponder,
   ponder   |-> g.ponder,
   movetime |-> g.time /\ ~(g.infinite \/ g.ponder),
   hittime  |-> g.time /\ g.ponder,
   nodes    |-> g.nodes,
   searchmoves |-> g.searchmoves]

NoLimits == [infinite |-> FALSE, ponder |-> FALSE, movetime |-> FALSE,
             hittime |-> FALSE, nodes |-> FALSE, searchmoves |-> FALSE]

-----------------------------------------------------------------------------

Init ==
  /\ pc = "read" /\ cmd = "none"
  /\ worker = "none" /\ limits = NoLimits /\ work = 0 /\ hitSeen = FALSE
  /\ output = "free"
  /\ stopped = FALSE /\ deadline = "off" /\ ponderhit = FALSE
  /\ suppress = FALSE
  /\ root = "open" /\ core = "modern" /\ callback = FALSE
  /\ owed = 0 /\ told = FALSE /\ overtaken = FALSE /\ outcome = "none"

\* std::getline and the dispatch on the first token.
ReadLine(c) ==
  /\ pc = "read"
  /\ cmd' = c
  /\ pc' = First(c)
  /\ UNCHANGED <<output, control, suppress, engine, search, history>>

\* The UCI thread takes a step of its handler and goes on to the next one.
\* The tokens of a line are local to the loop's body.
Step(s) ==
  /\ pc = s
  /\ pc' = Then(cmd, s)
  /\ cmd' = IF pc' = "read" THEN "none" ELSE cmd

\* A search that has not decided to print by now will read the flag.
Undecided == worker \in {"start", "search", "emit"}

Suppress ==
  /\ Step("suppress")
  /\ suppress' = TRUE
  /\ overtaken' = Undecided
  /\ UNCHANGED <<output, control, engine, search, told, outcome>>

RequestStop ==
  /\ Step("stop")
  /\ stopped' = TRUE
  /\ told' = TRUE
  /\ UNCHANGED <<output, deadline, ponderhit, suppress, engine, search, overtaken, outcome>>

\* Fault: the thread is abandoned instead of joined.
JoinDetaches ==
  /\ Step("join")
  /\ worker' = "none"
  /\ callback' = FALSE
  /\ UNCHANGED <<output, control, suppress, root, core, limits, work, hitSeen, owed, history>>

\* search_thread_.join() returns when the thread function has; then the info
\* callback is dropped.
Join ==
  /\ Step("join")
  /\ worker \in {"none", "done"}
  /\ worker' = "none"
  /\ callback' = FALSE
  /\ UNCHANGED <<output, control, suppress, root, core, limits, work, hitSeen, owed, history>>

\* Fault: the ponderhit of an earlier search survives.
ResetKeepsPonderhit ==
  /\ Step("reset")
  /\ stopped' = FALSE /\ deadline' = "off"
  /\ UNCHANGED <<output, ponderhit, suppress, engine, search, history>>

\* Searcher::reset_stop.
Reset ==
  /\ Step("reset")
  /\ stopped' = FALSE /\ deadline' = "off" /\ ponderhit' = FALSE
  /\ UNCHANGED <<output, suppress, engine, search, history>>

SetCallback ==
  /\ Step("callback")
  /\ callback' = TRUE
  /\ UNCHANGED <<output, control, suppress, root, core, search, history>>

\* run_search_async.
Launch(g) ==
  /\ Step("launch")
  /\ limits' = GoLimits(g)
  /\ suppress' = FALSE
  /\ worker' = "start"
  /\ owed' = owed + 1
  /\ told' = FALSE /\ overtaken' = FALSE
  /\ UNCHANGED <<output, control, engine, work, hitSeen, outcome>>

PonderHit ==
  /\ Step("ponderhit")
  /\ ponderhit' = TRUE
  /\ told' = (told \/ limits.hittime)
  /\ UNCHANGED <<output, stopped, deadline, suppress, engine, search, overtaken, outcome>>

\* set_position, setoption and ucinewgame; a bad command changes nothing.
SetPosition ==
  /\ Step("position")
  /\ root' \in Root
  /\ UNCHANGED <<output, control, suppress, core, callback, search, history>>

SetOption ==
  /\ Step("setoption")
  /\ core' \in Core
  /\ root' \in (IF root \in {"open", "tablebase"} THEN {"open", "tablebase"} ELSE {root})
  /\ UNCHANGED <<output, control, suppress, callback, search, history>>

NewGame ==
  /\ Step("ucinewgame")
  /\ root' = "open"
  /\ UNCHANGED <<output, control, suppress, core, callback, search, history>>

\* perft and divide print without the mutex.
Perft ==
  /\ Step("perft")
  /\ UNCHANGED <<output, control, suppress, engine, search, history>>

Lock ==
  /\ Step("lock")
  /\ output = "free"
  /\ output' = "ui"
  /\ UNCHANGED <<control, suppress, engine, search, history>>

\* Fault: every reply drops the callback.
WriteDropsCallback ==
  /\ Step("write")
  /\ output' = "free"
  /\ callback' = FALSE
  /\ UNCHANGED <<control, suppress, root, core, search, history>>

\* The reply, and the end of the lock_guard. An ignored go also drops the
\* callback it had just installed.
Write ==
  /\ Step("write")
  /\ output' = "free"
  /\ callback' = (callback /\ cmd # "badgo")
  /\ UNCHANGED <<control, suppress, root, core, search, history>>

Exited == pc = "exit" /\ UNCHANGED vars

UiStep ==
  \/ Suppress \/ RequestStop \/ Join \/ Reset \/ SetCallback
  \/ \E g \in GoRequest : Launch(g)
  \/ PonderHit \/ SetPosition \/ SetOption \/ NewGame \/ Perft \/ Lock \/ Write

-----------------------------------------------------------------------------
\* The search thread: Searcher::think, then Engine::report_result.

\* A DTZ-covered root is answered from the tablebases.
FromTablebase == root = "tablebase" /\ ~limits.infinite /\ ~limits.searchmoves

\* Roots the selected core answers, or may answer, without a search loop:
\* searchmoves can leave a single move to ModernBStar.
Immediate == root = "over" \/ (root = "forced" /\ core = "modern")
MayBeForced == core = "modern" /\ limits.searchmoves

ProbeRoot ==
  /\ worker = "start" /\ FromTablebase
  /\ worker' = "report"
  /\ UNCHANGED <<ui, output, control, suppress, engine, limits, work, hitSeen, owed, history>>

\* Fault: the search thread resets the stop token when it starts.
BeginSearchResets ==
  /\ worker = "start" /\ ~FromTablebase
  /\ stopped' = FALSE
  /\ deadline' = IF limits.movetime THEN "armed" ELSE "off"
  /\ work' = 0 /\ hitSeen' = FALSE
  /\ worker' = IF Immediate THEN "report" ELSE "search"
  /\ UNCHANGED <<ui, output, ponderhit, suppress, engine, limits, owed, history>>

BeginSearch ==
  /\ worker = "start" /\ ~FromTablebase
  /\ deadline' = IF limits.ponder THEN deadline
                 ELSE IF limits.movetime THEN "armed" ELSE "off"
  /\ work' = 0 /\ hitSeen' = FALSE
  /\ worker' \in (IF Immediate THEN {"report"}
                  ELSE IF MayBeForced THEN {"report", "search"} ELSE {"search"})
  /\ UNCHANGED <<ui, output, stopped, ponderhit, suppress, engine, limits, owed, history>>

\* should_stop, in the order it looks.
LimitReached == (limits.nodes /\ work >= NodeLimit) \/ deadline = "passed"
HitPending == limits.ponder /\ ponderhit /\ ~hitSeen
GoesOn == worker = "search" /\ ~stopped /\ ~LimitReached

SeeStop ==
  /\ worker = "search" /\ stopped
  /\ worker' = "report"
  /\ UNCHANGED <<ui, output, control, suppress, engine, limits, work, hitSeen, owed, history>>

SeeLimit ==
  /\ worker = "search" /\ ~stopped /\ LimitReached
  /\ stopped' = TRUE
  /\ worker' = "report"
  /\ UNCHANGED <<ui, output, deadline, ponderhit, suppress, engine, limits, work, hitSeen, owed, history>>

\* Fault: ponderhit arms nothing.
SeePonderHitIdly ==
  /\ GoesOn /\ HitPending
  /\ hitSeen' = TRUE
  /\ UNCHANGED <<ui, output, control, suppress, engine, worker, limits, work, owed, history>>

SeePonderHit ==
  /\ GoesOn /\ HitPending
  /\ hitSeen' = TRUE
  /\ deadline' = IF limits.hittime THEN "armed" ELSE "off"
  /\ UNCHANGED <<ui, output, stopped, ponderhit, suppress, engine, worker, limits, work, owed, history>>

\* One unit of work, perhaps followed by an info line. When there is no work
\* left an infinite search idles; only ModernBStar reports as it goes.
Work ==
  /\ GoesOn /\ ~HitPending
  /\ work < MaxWork
  /\ work' = work + 1
  /\ worker' \in {"search"} \cup (IF core = "modern" THEN {"emit"} ELSE {})
  /\ UNCHANGED <<ui, output, control, suppress, engine, limits, hitSeen, owed, history>>

Idle ==
  /\ GoesOn /\ ~HitPending
  /\ work = MaxWork /\ limits.infinite /\ core = "modern"
  /\ worker' = "emit"
  /\ UNCHANGED <<ui, output, control, suppress, engine, limits, work, hitSeen, owed, history>>

\* Fault: an exhausted finite search waits like an infinite one.
FinishOnMate ==
  /\ GoesOn /\ ~HitPending
  /\ root = "mating" /\ core = "modern"
  /\ worker' = "report"
  /\ UNCHANGED <<ui, output, control, suppress, engine, limits, work, hitSeen, owed, history>>

\* A finite search ends when its tree or depth is exhausted, or earlier on a
\* proof; ModernBStar ends on a proved mate whatever the limits.
Finish ==
  /\ GoesOn /\ ~HitPending
  /\ ~limits.infinite \/ (root = "mating" /\ core = "modern")
  /\ worker' = "report"
  /\ UNCHANGED <<ui, output, control, suppress, engine, limits, work, hitSeen, owed, history>>

\* emit_info: the callback prints under the output mutex.
Emit ==
  /\ worker = "emit"
  /\ callback => output = "free"
  /\ worker' = "search"
  /\ UNCHANGED <<ui, output, control, suppress, engine, limits, work, hitSeen, owed, history>>

\* Fault: a stopped search has nothing to say.
ReportDropsStopped ==
  /\ worker = "report" /\ output = "free"
  /\ IF suppress \/ stopped
     THEN worker' = "done" /\ owed' = owed - 1 /\ outcome' = "dropped" /\ UNCHANGED output
     ELSE worker' = "print" /\ output' = "worker" /\ UNCHANGED <<owed, outcome>>
  /\ UNCHANGED <<ui, control, suppress, engine, limits, work, hitSeen, told, overtaken>>

\* report_result, up to the test of suppress_bestmove_ under the mutex.
Report ==
  /\ worker = "report" /\ output = "free"
  /\ IF suppress
     THEN worker' = "done" /\ owed' = owed - 1 /\ outcome' = "dropped" /\ UNCHANGED output
     ELSE worker' = "print" /\ output' = "worker" /\ UNCHANGED <<owed, outcome>>
  /\ UNCHANGED <<ui, control, suppress, engine, limits, work, hitSeen, told, overtaken>>

\* The bestmove line; the thread function returns.
PrintBestmove ==
  /\ worker = "print"
  /\ output' = "free"
  /\ worker' = "done"
  /\ owed' = owed - 1 /\ outcome' = "answered"
  /\ UNCHANGED <<ui, control, suppress, engine, limits, work, hitSeen, told, overtaken>>

WorkerStep ==
  \/ ProbeRoot \/ BeginSearch \/ SeeStop \/ SeeLimit \/ SeePonderHit \/ Work
  \/ Idle \/ Finish \/ Emit \/ Report \/ PrintBestmove

\* steady_clock reaches the armed deadline.
DeadlinePasses ==
  /\ deadline = "armed"
  /\ deadline' = "passed"
  /\ UNCHANGED <<ui, output, stopped, ponderhit, suppress, engine, search, history>>

Next ==
  \/ \E c \in Command : ReadLine(c)
  \/ UiStep \/ WorkerStep \/ DeadlinePasses \/ Exited

Spec == Init /\ [][Next]_vars

\* The threads are scheduled and time passes; the GUI may stay silent. The
\* search thread wins the output mutex now and then, even against a GUI that
\* never pauses between its isready's.
FairSpec ==
  /\ Spec
  /\ WF_vars(UiStep) /\ WF_vars(WorkerStep) /\ WF_vars(DeadlinePasses)
  /\ SF_vars(Emit) /\ SF_vars(Report)

-----------------------------------------------------------------------------
TypeOK ==
  /\ pc \in {"read", "suppress", "stop", "join", "reset", "callback", "launch", "ponderhit",
             "position", "setoption", "ucinewgame", "perft", "lock", "write", "exit"}
  /\ cmd \in Command \cup {"none"}
  /\ worker \in {"none", "start", "search", "emit", "report", "print", "done"}
  /\ output \in {"free", "ui", "worker"}
  /\ deadline \in {"off", "armed", "passed"}
  /\ root \in Root /\ core \in Core
  /\ limits \in [infinite: BOOLEAN, ponder: BOOLEAN, movetime: BOOLEAN,
                 hittime: BOOLEAN, nodes: BOOLEAN, searchmoves: BOOLEAN]
  /\ work \in 0..MaxWork
  /\ owed \in Int
  /\ stopped \in BOOLEAN /\ ponderhit \in BOOLEAN /\ suppress \in BOOLEAN
  /\ callback \in BOOLEAN /\ hitSeen \in BOOLEAN
  /\ told \in BOOLEAN /\ overtaken \in BOOLEAN
  /\ outcome \in {"none", "answered", "dropped"}

\* The search thread exists and has not yet resolved its go.
Running == worker \in {"start", "search", "emit", "report", "print"}

\* The step changes, or prints, what the search thread uses without a lock.
NeedsQuiet ==
  \/ pc \in {"reset", "callback", "launch", "position", "setoption", "ucinewgame", "perft", "exit"}
  \/ pc \in {"lock", "write"} /\ cmd \in Inspection \cup {"badgo"}

(* The position, the options, the transposition table, the networks and    *)
(* the search control are replaced, and unlocked output written, only when *)
(* no search thread exists, and a thread is launched only over a joined    *)
(* one: std::thread assignment over a joinable thread would terminate the  *)
(* engine (Engine::loop, stop_search).                                     *)
ExclusiveSteps == NeedsQuiet => worker = "none"

(* Every accepted go is owed one bestmove exactly as long as its thread is *)
(* running: never two, never none (report_result, run_search_async).       *)
OneBestmovePerGo == owed = IF Running THEN 1 ELSE 0

(* The UCI thread never waits in join for a search that was not told to    *)
(* stop: a stop sent right after go is not erased by the launch (the       *)
(* comment in Engine::go).                                                 *)
StopIsNotLost == pc = "join" => worker \in {"none", "done"} \/ stopped

(* A running search can always reach the GUI: the callback that go         *)
(* installed is still there.                                               *)
SearchIsHeard == Running => callback

(* The mutex is owned by the thread that is about to write under it.       *)
OutputOwned ==
  /\ output = "ui" <=> pc = "write"
  /\ output = "worker" <=> worker = "print"

\* Which commands stop the search, and what go has prepared when it launches.
HandlerOK ==
  /\ pc \in {"suppress", "stop", "join"}
       => cmd \in Command \ {"uci", "isready", "help", "ponderhit"}
  /\ pc = "callback" => ~stopped /\ deadline = "off" /\ ~ponderhit
  /\ pc = "launch" => callback /\ ~stopped /\ deadline = "off" /\ ~ponderhit
  /\ pc \in {"reset", "callback", "launch"} => cmd \in {"go", "badgo"}

\* The root needs a search and the selected core cannot decide it early.
Undecidable ==
  /\ ~MayBeForced
  /\ root \in {"open", "tablebase"} \/ (core = "classic" /\ root # "over")

(* An infinite or ponder search of an undecided root does not volunteer a  *)
(* bestmove: it waits for a stop, for its node limit, or, if it ponders    *)
(* with a clock, for a ponderhit (one sent before this go does not count). *)
InfiniteWaits ==
  worker = "print" /\ limits.infinite /\ Undecidable
    => told \/ (limits.nodes /\ work >= NodeLimit)

\* Output is suppressed from the moment a quit is acted on, and never before.
SuppressOK ==
  /\ suppress <=> pc \in {"stop", "join", "exit"} /\ cmd \in Quitting
  /\ pc = "suppress" => cmd \in Quitting

\* Why it holds: each way to end such a search is traced back to its cause.
WaitInv ==
  LET nodesUsed == limits.nodes /\ work >= NodeLimit IN
  /\ limits.movetime => ~limits.infinite
  /\ limits.hittime => limits.ponder
  /\ limits.ponder => limits.infinite
  /\ Running /\ limits.hittime /\ ponderhit => told
  /\ Running /\ limits.infinite /\ deadline # "off" => told
  /\ worker = "start" /\ stopped => told
  /\ Running /\ limits.infinite /\ stopped => told \/ nodesUsed
  /\ worker \in {"report", "print"} /\ limits.infinite /\ Undecidable => told \/ nodesUsed
  /\ overtaken => suppress

(* Quit overtakes a search that is still thinking without a bestmove line  *)
(* (docs/ModernBStar_manifest.md: "quit joins without one").               *)
QuitIsSilent == worker = "print" => ~overtaken

(* The invariant that carries the others through every step.               *)
IInv ==
  /\ TypeOK /\ ExclusiveSteps /\ OneBestmovePerGo /\ StopIsNotLost
  /\ SearchIsHeard /\ OutputOwned /\ HandlerOK /\ SuppressOK /\ WaitInv /\ QuitIsSilent

(* A handler that waits for the search to end always gets to go on: the    *)
(* search notices the stop wherever it is, and no lock is in the way.      *)
JoinEnds == pc = "join" ~> pc # "join"

(* A finite search is answered, with no help from the GUI.                 *)
FiniteSearchEnds == Running /\ ~limits.infinite ~> ~Running

(* After ponderhit, a ponder search with a clock is answered.              *)
PonderhitEndsSearch == Running /\ limits.ponder /\ limits.hittime /\ ponderhit ~> ~Running

-----------------------------------------------------------------------------

session == IF pc = "exit" THEN "closed" ELSE IF suppress THEN "closing" ELSE "open"

reply == IF owed = 1 THEN "owed" ELSE outcome

Protocol == INSTANCE UciProtocol WITH urged <- stopped /\ owed = 1

(* The engine keeps the promises of UciProtocol: between one go and its    *)
(* bestmove there is no second of either, and an urged search is resolved. *)
ImplementsProtocol == Protocol!Spec

-----------------------------------------------------------------------------
(* What the documentation says, and the code does not do.                  *)

(* docs/Syzygy.md: go infinite gets no early bestmove, even a fully solved *)
(* root position waits for stop.                                           *)
SolvedRootWaits ==
  worker = "print" /\ limits.infinite /\ ~limits.ponder /\ ~limits.nodes => told

=============================================================================
