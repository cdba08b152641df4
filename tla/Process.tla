------------------------------ MODULE Process ------------------------------
(***************************************************************************)
(* A gnofacilitator process (cmd/gnofacilitator/main.go): the chain-id check  *)
(* it starts with, the requests it serves, and the drain it stops with.       *)
(* Facilitator says what its requests do; here a request is its timers.       *)
(*                                                                          *)
(* The check is two goroutines: one asks the node until it answers, and main  *)
(* waits for it, or for the watchdog.  Main forgets it then, and it runs on.  *)
(* A request is two as well: net/http answers for the handler when            *)
(* TimeoutHandler's time is up or the seller hangs up, and the handler runs   *)
(* on behind that answer.                                                     *)
(*                                                                          *)
(* Timers fire when they are due: Tick waits for them, and for a node that    *)
(* answers or refuses at once.  Two that are due together fire in any order.  *)
(***************************************************************************)
EXTENDS Integers

CONSTANTS
  Window,         \* chainIDCheckWindow, in ticks, of the watchdog and of the retries
  Interval,       \* chainIDCheckInterval
  CallTimeout,    \* the RPC client's own timeout
  HeaderTimeout,  \* readHeaderTimeout
  AnswerTimeout,  \* answerTimeout
  Drain,          \* writeTimeout, which main gives the drain too
  Requests        \* the requests a process may serve

ASSUME ProcessAssumption ==
  /\ {Window, Interval, CallTimeout, HeaderTimeout, AnswerTimeout, Drain} \subseteq Nat \ {0}
  /\ Interval < Window /\ Interval <= CallTimeout
  /\ HeaderTimeout < Drain /\ AnswerTimeout < Drain
  /\ Drain <= CallTimeout

VARIABLES
  main,     \* where the process is, and how it exited
  clock,    \* ticks since the start, up to one past Window
  query,    \* the goroutine that asks for the chain id
  node,     \* how the node would take a call made now
  ready,    \* history: for how long the node has answered calls, with none left hanging
  request,  \* request[r]: the connection and the handler of r
  drained   \* ticks since the drain began

vars == <<main, clock, query, node, ready, request, drained>>

Stages == {"checking", "starting", "serving", "draining", "exited"}

Exits == {"none", "mismatch", "listen", "signal", "serve", "clean", "drain"}

\* "asks": a call the node takes at once; "hangs": one that ends when it ends.
Asking == {"asks", "hangs", "sleeps", "returned"}

\* "new": its headers are read; "open": its handler runs and nobody has answered;
\* "behind": it was answered 503, or its seller is gone, and its handler runs on.
Handling == {"none", "new", "open", "behind", "over"}

TypeOK ==
  /\ main \in [stage : Stages, exit : Exits, confirmed : BOOLEAN]
  /\ clock \in 0 .. Window + 1
  /\ query \in [at : Asking, for : 0 .. CallTimeout, got : {"none", "mine", "other", "error"},
                when : 0 .. Window + 1]
  /\ node \in {"mine", "other", "down", "slow"}
  /\ ready \in 0 .. Window
  /\ request \in [Requests -> [at : Handling, for : 0 .. CallTimeout]]
  /\ drained \in 0 .. Drain

Up == node \in {"mine", "other"}

\* A call to the node made now.
Call == [at |-> IF node = "slow" THEN "hangs" ELSE "asks", for |-> 0, got |-> "none", when |-> 0]

Init ==
  /\ node \in {"mine", "other", "down", "slow"}
  /\ main = [stage |-> "checking", exit |-> "none", confirmed |-> FALSE]
  /\ clock = 0
  /\ query = Call
  /\ ready = 0
  /\ request = [r \in Requests |-> [at |-> "none", for |-> 0]]
  /\ drained = 0

Running == main.stage # "exited"

\* The process ends, and everything in it.
Exit(how) ==
  /\ main' = [main EXCEPT !.stage = "exited", !.exit = how]
  /\ UNCHANGED <<clock, query, node, ready, request, drained>>

-----------------------------------------------------------------------------

\* retryChainID returns: its answer waits in a channel that main may read.
Returned(got) == [query EXCEPT !.at = "returned", !.got = got, !.when = clock]

\* The call is answered with the chain the node serves.
QueryAnswered ==
  /\ Running
  /\ query.at \in {"asks", "hangs"}
  /\ Up
  /\ query' = Returned(node)
  /\ UNCHANGED <<main, clock, node, ready, request, drained>>

\* Variant: the first failure ends the check.
FailedOnce == {Returned("error")}

\* A call failed: asked again after chainIDCheckInterval, unless the window is spent.
Failed ==
  IF clock > Window THEN {Returned("error")}
  ELSE {[query EXCEPT !.at = "sleeps", !.for = 0]}
       \cup (IF clock = Window THEN {Returned("error")} ELSE {})

\* The call fails: at once, at a node that is down; or at any time, if it hangs.
QueryFails ==
  /\ Running
  /\ \/ query.at = "asks" /\ node # "slow" /\ ~Up
     \/ query.at = "hangs"
  /\ query' \in Failed
  /\ UNCHANGED <<main, clock, node, ready, request, drained>>

\* The call is made again.
QueryAgain ==
  /\ Running
  /\ query.at = "sleeps"
  /\ query.for >= Interval
  /\ query' = Call
  /\ UNCHANGED <<main, clock, node, ready, request, drained>>

\* Variant: a chain id is compared only if it was the first answer.
HearFirstOnly ==
  /\ main.stage = "checking"
  /\ query.at = "returned"
  /\ IF query.got = "other" /\ query.when = 0
       THEN Exit("mismatch")
       ELSE /\ main' = [main EXCEPT !.stage = "starting", !.confirmed = query.got = "mine"]
            /\ UNCHANGED <<clock, query, node, ready, request, drained>>

\* Main hears the check's answer. Another chain's is fatal; an error is not.
Hear ==
  /\ main.stage = "checking"
  /\ query.at = "returned"
  /\ IF query.got = "other"
       THEN Exit("mismatch")
       ELSE /\ main' = [main EXCEPT !.stage = "starting", !.confirmed = query.got = "mine"]
            /\ UNCHANGED <<clock, query, node, ready, request, drained>>

\* Variant: nothing bounds a call that never returns but the client's own timeout.
WatchdogNeverDue == FALSE

WatchdogDue == clock >= Window

\* The watchdog fires: main warns and goes on, and the query is left running.
Watchdog ==
  /\ main.stage = "checking"
  /\ WatchdogDue
  /\ main' = [main EXCEPT !.stage = "starting"]
  /\ UNCHANGED <<clock, query, node, ready, request, drained>>

\* Main listens, or cannot.
Listen ==
  /\ main.stage = "starting"
  /\ \/ /\ main' = [main EXCEPT !.stage = "serving"]
        /\ UNCHANGED <<clock, query, node, ready, request, drained>>
     \/ Exit("listen")

\* A signal: it drains a process that serves, and kills one that does not yet.
Signal ==
  \/ main.stage \in {"checking", "starting"} /\ Exit("signal")
  \/ /\ main.stage = "serving"
     /\ main' = [main EXCEPT !.stage = "draining"]
     /\ UNCHANGED <<clock, query, node, ready, request, drained>>

\* Serve returns on its own: the listener failed.
ServeFails == main.stage = "serving" /\ Exit("serve")

-----------------------------------------------------------------------------

Handle(r, from, to) ==
  /\ Running
  /\ request[r].at = from
  /\ request' = [request EXCEPT ![r] = [at |-> to, for |-> 0]]
  /\ UNCHANGED <<main, clock, query, node, ready, drained>>

\* A seller connects; net/http reads its headers, in a drain too, and the handler begins.
Connect(r) == main.stage = "serving" /\ Handle(r, "none", "new")
Begin(r) == Handle(r, "new", "open")

\* The handler answers.
Finish(r) == Handle(r, "open", "over")

\* The handler is answered for: its seller hangs up, or its time is up.
AnswerFor(r) == Handle(r, "open", "behind")

\* A handler nobody waits for ends.
EndBehind(r) == Handle(r, "behind", "over")

\* The headers did not come, or not in time: net/http closes the connection.
CloseUnread(r) == Handle(r, "new", "over")

\* Variant: a request may take as long as the connection allows.
AnswerDueAtWriteTimeout(r) == request[r].at = "open" /\ request[r].for >= Drain

AnswerDue(r) == request[r].at = "open" /\ request[r].for >= AnswerTimeout

\* Shutdown waits for these.
InFlight == {r \in Requests : request[r].at \in {"new", "open"}}

\* The drain ends: nothing is in flight, or its time is up.
Stop ==
  /\ main.stage = "draining"
  /\ \/ InFlight = {} /\ Exit("clean")
     \/ InFlight # {} /\ drained >= Drain /\ Exit("drain")

\* The node starts, stops, hangs, or is replaced by one of another chain.
NodeChanges ==
  /\ Running
  /\ node' \in {"mine", "other", "down", "slow"} \ {node}
  /\ ready' = 0
  /\ query' = IF query.at = "asks" /\ node' = "slow" THEN [query EXCEPT !.at = "hangs"] ELSE query
  /\ UNCHANGED <<main, clock, request, drained>>

\* Nothing is due, and time passes.
NothingDue ==
  /\ query.at # "asks"
  /\ query.at = "hangs" => query.for < CallTimeout
  /\ query.at = "sleeps" => query.for < Interval
  /\ main.stage = "checking" => ~WatchdogDue /\ query.at # "returned"
  /\ main.stage # "starting"
  /\ main.stage = "draining" => InFlight # {} /\ drained < Drain
  /\ \A r \in Requests :
       /\ ~AnswerDue(r)
       /\ request[r].at = "new" => request[r].for < HeaderTimeout
       /\ request[r].at = "behind" => request[r].for < CallTimeout

Capped(x, bound) == IF x < bound THEN x + 1 ELSE bound

Tick ==
  /\ Running
  /\ NothingDue
  /\ clock' = Capped(clock, Window + 1)
  /\ ready' = IF Up /\ query.at # "hangs" THEN Capped(ready, Window) ELSE 0
  /\ query' = IF query.at \in {"hangs", "sleeps"} THEN [query EXCEPT !.for = @ + 1] ELSE query
  /\ request' = [r \in Requests |->
       IF request[r].at \in {"new", "open", "behind"} THEN [request[r] EXCEPT !.for = @ + 1]
                                                      ELSE request[r]]
  /\ drained' = IF main.stage = "draining" THEN drained + 1 ELSE drained
  /\ UNCHANGED <<main, node>>

CheckChain == QueryAnswered \/ QueryFails \/ QueryAgain \/ Hear \/ Watchdog

Next ==
  \/ CheckChain \/ Listen \/ Signal \/ ServeFails \/ Stop \/ NodeChanges \/ Tick
  \/ \E r \in Requests :
       \/ Connect(r) \/ Begin(r) \/ Finish(r) \/ AnswerFor(r) \/ EndBehind(r) \/ CloseUnread(r)

Spec == Init /\ [][Next]_vars

-----------------------------------------------------------------------------

(***************************************************************************)
(* A process does not serve a chain other than the one it was told to, when  *)
(* its node said so before the watchdog fired, whatever failed or hung        *)
(* before: every payment would be refused as badly signed.                   *)
(***************************************************************************)
MismatchCaught ==
  main.stage \in {"serving", "draining"} /\ query.got = "other" => query.when >= Window

(***************************************************************************)
(* The window bounds the whole check, a single query that never returns      *)
(* included (chainIDCheckWindow).                                            *)
(***************************************************************************)
StartsInTime == main.stage = "checking" => clock <= Window

(***************************************************************************)
(* A process started beside its node does not give up on the first query:    *)
(* it serves unconfirmed only after the whole window, and only if the node   *)
(* has not been answering for longer than the retries wait.                  *)
(***************************************************************************)
GivesUpOnlyOnSilence ==
  [][main.stage = "checking" /\ main'.stage = "starting" /\ ~main'.confirmed
       => clock >= Window /\ ready <= Interval]_vars

(***************************************************************************)
(* The drain covers every request in flight when the signal came, as its     *)
(* answer timeout is below the drain: one that runs out cuts off only        *)
(* requests whose headers were still being read.                             *)
(***************************************************************************)
DrainCoversRequests ==
  main.exit = "drain" => \A r \in InFlight : request[r].for < drained

=============================================================================
