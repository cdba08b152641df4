--------------------------- MODULE ProcessProofs ---------------------------
(***************************************************************************)
(* Theorems about Process, for any number of requests, any node and any      *)
(* durations: the chain-id check ends in its window, hears a mismatch that    *)
(* comes in it, and gives up on nothing but silence; the drain covers the     *)
(* requests in flight.                                                       *)
(***************************************************************************)
EXTENDS Process, TLAPS

\* A request's own timers have not run out unseen.
RequestOK(r) ==
  /\ request[r].at = "new" => request[r].for <= HeaderTimeout
  /\ request[r].at = "open" => request[r].for <= AnswerTimeout

\* What the check knows: an answer that waits has come now, if main still waits for
\* it; and how long the node may have been up without being asked.
CheckOK ==
  /\ query.at # "returned" <=> query.got = "none"
  /\ query.at = "sleeps" => query.for <= Interval
  /\ ~Up => ready = 0
  /\ query.at = "hangs" => ready = 0
  /\ query.at = "asks" => node # "slow"
  /\ main.stage = "checking" =>
       /\ clock <= Window
       /\ query.at = "returned" => query.when = clock
       /\ query.at = "sleeps" => ready <= query.for
       /\ ready <= Interval
       /\ query.got = "error" => clock >= Window
  /\ main.stage \in {"starting", "serving", "draining"} =>
       /\ query.at # "returned" => clock >= Window
       /\ query.got = "other" => query.when >= Window

ProcessInv ==
  /\ TypeOK
  /\ CheckOK
  /\ \A r \in Requests : RequestOK(r)
  /\ main.stage # "exited" => main.exit = "none"
  /\ DrainCoversRequests

\* The durations, as numbers.
LEMMA Durations ==
  /\ Window \in Nat \ {0} /\ Interval \in Nat \ {0} /\ CallTimeout \in Nat \ {0}
  /\ HeaderTimeout \in Nat \ {0} /\ AnswerTimeout \in Nat \ {0} /\ Drain \in Nat \ {0}
  /\ Interval < Window /\ Interval <= CallTimeout
  /\ HeaderTimeout < Drain /\ AnswerTimeout < Drain /\ Drain <= CallTimeout
  BY ProcessAssumption

LEMMA InitOK == Init => ProcessInv
<1> SUFFICES ASSUME Init PROVE ProcessInv
  OBVIOUS
<1>1. TypeOK
  BY Durations DEF Init, TypeOK, Call, Stages, Exits, Asking, Handling
<1>2. CheckOK
  BY Durations DEF Init, CheckOK, Call
<1>3. \A r \in Requests : RequestOK(r)
  BY DEF Init, RequestOK
<1> QED BY <1>1, <1>2, <1>3 DEF Init, ProcessInv, DrainCoversRequests

\* A step that leaves the requests and the drain alone keeps what is said of them,
\* unless it ends the process.
LEMMA RequestsRest ==
  ASSUME ProcessInv, UNCHANGED <<request, drained>>
  PROVE  /\ \A r \in Requests : RequestOK(r)'
         /\ main'.exit # "drain" \/ main' = main => DrainCoversRequests'
  BY DEF ProcessInv, RequestOK, DrainCoversRequests, InFlight

\* The process ends: nothing is said of the check any more.
LEMMA ExitOK ==
  ASSUME ProcessInv, NEW how \in Exits, Exit(how),
         how = "drain" => \A r \in InFlight : request[r].for < drained
  PROVE  ProcessInv'
<1>1. main' = [stage |-> "exited", exit |-> how, confirmed |-> main.confirmed]
  BY DEF Exit, ProcessInv, TypeOK
<1>2. UNCHANGED <<clock, query, node, ready, request, drained>>
  BY DEF Exit
<1>3. TypeOK'
  BY <1>1, <1>2 DEF ProcessInv, TypeOK, Stages
<1>4. CheckOK'
  BY <1>1, <1>2 DEF ProcessInv, CheckOK, Up
<1>5. DrainCoversRequests'
  BY <1>1, <1>2 DEF DrainCoversRequests, InFlight
<1> QED BY <1>1, <1>2, <1>3, <1>4, <1>5, RequestsRest DEF ProcessInv

LEMMA CheckChainOK == ProcessInv /\ CheckChain => ProcessInv'
<1> SUFFICES ASSUME ProcessInv, CheckChain PROVE ProcessInv'
  OBVIOUS
<1>0. /\ query \in [at : Asking, for : 0 .. CallTimeout, got : {"none", "mine", "other", "error"},
                    when : 0 .. Window + 1]
      /\ clock \in 0 .. Window + 1 /\ ready \in 0 .. Window
      /\ main \in [stage : Stages, exit : Exits, confirmed : BOOLEAN]
      /\ node \in {"mine", "other", "down", "slow"}
  BY DEF ProcessInv, TypeOK
<1>1. CASE QueryAnswered
  <2>1. /\ query' = [query EXCEPT !.at = "returned", !.got = node, !.when = clock]
        /\ UNCHANGED <<main, clock, node, ready, request, drained>>
        /\ node \in {"mine", "other"} /\ query.at # "returned"
    BY <1>1 DEF QueryAnswered, Returned, Up
  <2>2. /\ query'.at = "returned" /\ query'.got = node /\ query'.when = clock /\ query'.for = query.for
        /\ query' \in [at : Asking, for : 0 .. CallTimeout, got : {"none", "mine", "other", "error"},
                       when : 0 .. Window + 1]
    BY <1>0, <2>1 DEF Asking
  <2>3. TypeOK'
    BY <2>1, <2>2 DEF ProcessInv, TypeOK
  <2>4. CheckOK'
    BY <2>1, <2>2 DEF ProcessInv, CheckOK, Up
  <2> QED BY <2>1, <2>3, <2>4, RequestsRest DEF ProcessInv
<1>2. CASE QueryFails
  <2>1. /\ query' \in Failed
        /\ UNCHANGED <<main, clock, node, ready, request, drained>>
        /\ (query.at = "asks" /\ ~Up) \/ query.at = "hangs"
    BY <1>2 DEF QueryFails
  <2>2. ready = 0
    BY <2>1 DEF ProcessInv, CheckOK
  <2>3. \/ query' = [query EXCEPT !.at = "sleeps", !.for = 0]
        \/ clock >= Window /\ query' = [query EXCEPT !.at = "returned", !.got = "error", !.when = clock]
    BY <1>0, <2>1, Durations DEF Failed, Returned
  <2>4. CASE query' = [query EXCEPT !.at = "sleeps", !.for = 0]
    <3>0. 0 \in 0 .. CallTimeout
      BY Durations
    <3>1. /\ query'.at = "sleeps" /\ query'.for = 0 /\ query'.got = query.got /\ query'.when = query.when
          /\ query' \in [at : Asking, for : 0 .. CallTimeout, got : {"none", "mine", "other", "error"},
                         when : 0 .. Window + 1]
      BY <1>0, <2>4, <3>0 DEF Asking
    <3>2. TypeOK'
      BY <2>1, <3>1 DEF ProcessInv, TypeOK
    <3>3. CheckOK'
      BY <1>0, <2>1, <2>2, <3>1, Durations DEF ProcessInv, CheckOK, Up
    <3> QED BY <2>1, <3>2, <3>3, RequestsRest DEF ProcessInv
  <2>5. CASE clock >= Window /\ query' = [query EXCEPT !.at = "returned", !.got = "error", !.when = clock]
    <3>1. /\ query'.at = "returned" /\ query'.got = "error" /\ query'.when = clock /\ query'.for = query.for
          /\ query' \in [at : Asking, for : 0 .. CallTimeout, got : {"none", "mine", "other", "error"},
                         when : 0 .. Window + 1]
      BY <1>0, <2>5 DEF Asking
    <3>2. TypeOK'
      BY <2>1, <3>1 DEF ProcessInv, TypeOK
    <3>3. CheckOK'
      BY <1>0, <2>1, <2>2, <2>5, <3>1, Durations DEF ProcessInv, CheckOK, Up
    <3> QED BY <2>1, <3>2, <3>3, RequestsRest DEF ProcessInv
  <2> QED BY <2>3, <2>4, <2>5
<1>3. CASE QueryAgain
  <2>1. /\ query' = Call /\ query.at = "sleeps" /\ query.for <= Interval
        /\ UNCHANGED <<main, clock, node, ready, request, drained>>
    BY <1>3 DEF QueryAgain, ProcessInv, CheckOK
  <2>2. TypeOK'
    BY <2>1, Durations DEF ProcessInv, TypeOK, Call, Asking
  <2>3. CheckOK'
    BY <1>0, <2>1, Durations DEF ProcessInv, CheckOK, Up, Call
  <2> QED BY <2>1, <2>2, <2>3, RequestsRest DEF ProcessInv
<1>4. CASE Hear
  <2>1. CASE query.got = "other"
    BY <1>4, <2>1, ExitOK DEF Hear, Exits
  <2>2. CASE query.got # "other"
    <3>1. /\ main' = [main EXCEPT !.stage = "starting", !.confirmed = query.got = "mine"]
          /\ UNCHANGED <<clock, query, node, ready, request, drained>>
          /\ query.at = "returned" /\ main.stage = "checking"
      BY <1>4, <2>2 DEF Hear
    <3>2. (query.got = "mine") \in BOOLEAN
      OBVIOUS
    <3>3. main'.stage = "starting" /\ main'.exit = main.exit
          /\ main' \in [stage : Stages, exit : Exits, confirmed : BOOLEAN]
      BY <1>0, <3>1, <3>2 DEF Stages
    <3>4. TypeOK'
      BY <3>1, <3>3 DEF ProcessInv, TypeOK
    <3>5. CheckOK'
      BY <2>2, <3>1, <3>3 DEF ProcessInv, CheckOK, Up
    <3>6. DrainCoversRequests'
      BY <3>1, <3>3 DEF ProcessInv, DrainCoversRequests, InFlight
    <3> QED BY <3>1, <3>3, <3>4, <3>5, <3>6, RequestsRest DEF ProcessInv
  <2> QED BY <2>1, <2>2
<1>5. CASE Watchdog
  <2>1. /\ main' = [main EXCEPT !.stage = "starting"]
        /\ UNCHANGED <<clock, query, node, ready, request, drained>>
        /\ main.stage = "checking" /\ clock >= Window
    BY <1>5 DEF Watchdog, WatchdogDue
  <2>2. main'.stage = "starting" /\ main'.exit = main.exit
        /\ main' \in [stage : Stages, exit : Exits, confirmed : BOOLEAN]
    BY <1>0, <2>1 DEF Stages
  <2>3. TypeOK'
    BY <2>1, <2>2 DEF ProcessInv, TypeOK
  <2>4. CheckOK'
    BY <2>1, <2>2 DEF ProcessInv, CheckOK, Up
  <2>5. DrainCoversRequests'
    BY <2>1, <2>2 DEF ProcessInv, DrainCoversRequests, InFlight
  <2> QED BY <2>1, <2>3, <2>4, <2>5, RequestsRest DEF ProcessInv
<1> QED BY <1>1, <1>2, <1>3, <1>4, <1>5 DEF CheckChain

\* The process goes from one stage to the next, with its check behind it.
LEMMA StageOK ==
  ASSUME ProcessInv, NEW stage \in {"serving", "draining"},
         main.stage \in {"starting", "serving"},
         main' = [main EXCEPT !.stage = stage],
         UNCHANGED <<clock, query, node, ready, request, drained>>
  PROVE  ProcessInv'
<1>1. /\ main'.stage = stage /\ main'.exit = main.exit
      /\ main' \in [stage : Stages, exit : Exits, confirmed : BOOLEAN]
  BY DEF ProcessInv, TypeOK, Stages
<1>2. TypeOK'
  BY <1>1 DEF ProcessInv, TypeOK
<1>3. CheckOK'
  BY <1>1 DEF ProcessInv, CheckOK, Up
<1>4. DrainCoversRequests'
  BY <1>1 DEF ProcessInv, DrainCoversRequests, InFlight
<1> QED BY <1>2, <1>3, <1>4, RequestsRest DEF ProcessInv

LEMMA MainOK == ProcessInv /\ (Listen \/ Signal \/ ServeFails \/ Stop) => ProcessInv'
<1> SUFFICES ASSUME ProcessInv, Listen \/ Signal \/ ServeFails \/ Stop PROVE ProcessInv'
  OBVIOUS
<1>1. CASE Listen
  BY <1>1, StageOK, ExitOK DEF Listen, Exits
<1>2. CASE Signal
  BY <1>2, StageOK, ExitOK DEF Signal, Exits
<1>3. CASE ServeFails
  BY <1>3, ExitOK DEF ServeFails, Exits
<1>4. CASE Stop
  <2>1. CASE Exit("clean")
    BY <2>1, ExitOK DEF Exits
  <2>2. CASE drained >= Drain /\ Exit("drain")
    <3>1. ASSUME NEW r \in InFlight PROVE request[r].for < drained
      <4>1. r \in Requests /\ request[r].at \in {"new", "open"} /\ RequestOK(r)
        BY DEF InFlight, ProcessInv
      <4>2. request[r].for \in Nat /\ drained \in Nat
        BY <4>1, Durations DEF ProcessInv, TypeOK
      <4>3. request[r].for <= HeaderTimeout \/ request[r].for <= AnswerTimeout
        BY <4>1 DEF RequestOK
      <4> QED BY <2>2, <4>2, <4>3, Durations
    <3> QED BY <2>2, <3>1, ExitOK DEF Exits
  <2> QED BY <1>4, <2>1, <2>2 DEF Stop
<1> QED BY <1>1, <1>2, <1>3, <1>4

LEMMA HandleOK ==
  ASSUME ProcessInv, NEW r \in Requests, NEW from \in Handling, NEW to \in Handling, Handle(r, from, to)
  PROVE  ProcessInv'
<1>1. /\ request' = [request EXCEPT ![r] = [at |-> to, for |-> 0]]
      /\ UNCHANGED <<main, clock, query, node, ready, drained>>
      /\ main.stage # "exited"
  BY DEF Handle, Running
<1>2. request \in [Requests -> [at : Handling, for : 0 .. CallTimeout]]
  BY DEF ProcessInv, TypeOK
<1>3. TypeOK'
  BY <1>1, <1>2, Durations DEF ProcessInv, TypeOK
<1>4. CheckOK'
  BY <1>1 DEF ProcessInv, CheckOK, Up
<1>5. ASSUME NEW q \in Requests PROVE RequestOK(q)'
  BY <1>1, <1>2, Durations DEF ProcessInv, RequestOK
<1>6. DrainCoversRequests'
  BY <1>1 DEF ProcessInv, DrainCoversRequests
<1> QED BY <1>1, <1>3, <1>4, <1>5, <1>6 DEF ProcessInv

LEMMA NodeChangesOK == ProcessInv /\ NodeChanges => ProcessInv'
<1> SUFFICES ASSUME ProcessInv, NodeChanges PROVE ProcessInv'
  OBVIOUS
<1>0. query \in [at : Asking, for : 0 .. CallTimeout, got : {"none", "mine", "other", "error"},
                 when : 0 .. Window + 1]
  BY DEF ProcessInv, TypeOK
<1>1. /\ node' \in {"mine", "other", "down", "slow"} \ {node} /\ ready' = 0
      /\ UNCHANGED <<main, clock, request, drained>>
      /\ \/ query.at = "asks" /\ node' = "slow" /\ query' = [query EXCEPT !.at = "hangs"]
         \/ /\ ~(query.at = "asks" /\ node' = "slow")
            /\ query' = query
  BY DEF NodeChanges
<1>2. /\ query' \in [at : Asking, for : 0 .. CallTimeout, got : {"none", "mine", "other", "error"},
                     when : 0 .. Window + 1]
      /\ query'.got = query.got /\ query'.when = query.when /\ query'.for = query.for
      /\ query'.at = query.at \/ (query.at = "asks" /\ query'.at = "hangs")
      /\ query'.at = "asks" => node' # "slow"
  BY <1>0, <1>1 DEF Asking
<1>3. TypeOK'
  BY <1>1, <1>2, Durations DEF ProcessInv, TypeOK
<1>4. CheckOK'
  BY <1>0, <1>1, <1>2, Durations DEF ProcessInv, CheckOK, Up
<1> QED BY <1>1, <1>3, <1>4, RequestsRest DEF ProcessInv

LEMMA TickOK == ProcessInv /\ Tick => ProcessInv'
<1> SUFFICES ASSUME ProcessInv, Tick PROVE ProcessInv'
  OBVIOUS
<1>0. /\ query \in [at : Asking, for : 0 .. CallTimeout, got : {"none", "mine", "other", "error"},
                    when : 0 .. Window + 1]
      /\ clock \in 0 .. Window + 1 /\ ready \in 0 .. Window /\ drained \in 0 .. Drain
      /\ request \in [Requests -> [at : Handling, for : 0 .. CallTimeout]]
  BY DEF ProcessInv, TypeOK
<1>1. main' = main /\ node' = node /\ main.stage \notin {"exited", "starting"}
  BY DEF Tick, Running, NothingDue
<1>2. /\ clock' \in 0 .. Window + 1 /\ clock' >= clock
      /\ main.stage = "checking" => clock' <= Window
  BY <1>0, Durations DEF Tick, Capped, NothingDue, WatchdogDue
<1>3. /\ ready' \in 0 .. Window /\ ready' <= ready + 1
      /\ query.at = "hangs" \/ ~Up => ready' = 0
  BY <1>0, Durations DEF Tick, Capped
<1>4. drained' \in 0 .. Drain
  BY <1>0, Durations DEF Tick, NothingDue
<1>5. /\ query' \in [at : Asking, for : 0 .. CallTimeout, got : {"none", "mine", "other", "error"},
                     when : 0 .. Window + 1]
      /\ query'.got = query.got /\ query'.when = query.when /\ query'.at = query.at
      /\ query.at = "sleeps" => query'.for = query.for + 1 /\ query.for < Interval
      /\ query.at # "asks"
      /\ main.stage = "checking" => query.at # "returned"
  <2>1. CASE query.at \in {"hangs", "sleeps"}
    <3>1. query.for + 1 \in 0 .. CallTimeout
      BY <1>0, <2>1, Durations DEF Tick, NothingDue
    <3>2. query' = [query EXCEPT !.for = @ + 1]
      BY <2>1 DEF Tick
    <3>3. query.at = "sleeps" => query.for < Interval
      BY DEF Tick, NothingDue
    <3> QED BY <1>0, <2>1, <3>1, <3>2, <3>3
  <2>2. CASE query.at \notin {"hangs", "sleeps"}
    BY <1>0, <2>2 DEF Tick, NothingDue
  <2> QED BY <2>1, <2>2
<1>6. ASSUME NEW r \in Requests
      PROVE  /\ request'[r].at \in Handling /\ request'[r].for \in 0 .. CallTimeout
             /\ request'[r] \in [at : Handling, for : 0 .. CallTimeout]
             /\ RequestOK(r)'
  <2>1. request[r].at \in Handling /\ request[r].for \in 0 .. CallTimeout
    BY <1>0
  <2>2. CASE request[r].at \in {"new", "open", "behind"}
    <3>1. request'[r] = [request[r] EXCEPT !.for = @ + 1]
      BY <2>2 DEF Tick
    <3>2. /\ request[r].at = "new" => request[r].for < HeaderTimeout
          /\ request[r].at = "open" => ~(request[r].for >= AnswerTimeout)
          /\ request[r].at = "behind" => request[r].for < CallTimeout
      BY DEF Tick, NothingDue, AnswerDue
    <3>3. request[r].for + 1 \in 0 .. CallTimeout
      BY <2>1, <2>2, <3>2, Durations
    <3>4. request'[r].at = request[r].at /\ request'[r].for = request[r].for + 1
          /\ request'[r] \in [at : Handling, for : 0 .. CallTimeout]
      BY <1>0, <3>1, <3>3
    <3> QED BY <2>1, <3>2, <3>3, <3>4, Durations DEF RequestOK
  <2>3. CASE request[r].at \notin {"new", "open", "behind"}
    <3>1. request'[r] = request[r]
      BY <2>3 DEF Tick
    <3> QED BY <1>0, <2>3, <3>1 DEF RequestOK
  <2> QED BY <2>2, <2>3
<1>7. request' \in [Requests -> [at : Handling, for : 0 .. CallTimeout]]
  BY <1>6 DEF Tick
<1>8. TypeOK'
  BY <1>1, <1>2, <1>3, <1>4, <1>5, <1>7 DEF ProcessInv, TypeOK
<1>9. CheckOK'
  <2>1. /\ query'.at # "returned" <=> query'.got = "none"
        /\ ~Up' => ready' = 0
        /\ query'.at = "hangs" => ready' = 0
        /\ query'.at = "asks" => node' # "slow"
    BY <1>1, <1>3, <1>5 DEF ProcessInv, CheckOK, Up
  <2>2. query'.at = "sleeps" => query'.for <= Interval
    BY <1>0, <1>5, Durations
  <2>3. ASSUME main.stage = "checking"
        PROVE  /\ query.at \in {"hangs", "sleeps"}
               /\ query'.at = "sleeps" => ready' <= query'.for
               /\ ready' <= Interval
               /\ query'.got = "none"
    <3>1. query.at \in {"hangs", "sleeps"} /\ query.got = "none"
      BY <1>0, <1>5, <2>3 DEF Asking, ProcessInv, CheckOK
    <3>2. query.at = "sleeps" => ready <= query.for
      BY <2>3 DEF ProcessInv, CheckOK
    <3> QED BY <1>0, <1>3, <1>5, <2>2, <3>1, <3>2, Durations
  <2>4. main.stage \in {"serving", "draining"} =>
          /\ query'.at # "returned" => clock' >= Window
          /\ query'.got = "other" => query'.when >= Window
    BY <1>0, <1>2, <1>5, Durations DEF ProcessInv, CheckOK
  <2> QED BY <1>1, <1>2, <1>5, <2>1, <2>2, <2>3, <2>4 DEF CheckOK
<1>10. DrainCoversRequests'
  BY <1>1 DEF ProcessInv, DrainCoversRequests
<1> QED BY <1>1, <1>6, <1>8, <1>9, <1>10 DEF ProcessInv

LEMMA RequestsOK ==
  ASSUME ProcessInv, NEW r \in Requests,
         Connect(r) \/ Begin(r) \/ Finish(r) \/ AnswerFor(r) \/ EndBehind(r) \/ CloseUnread(r)
  PROVE  ProcessInv'
  BY HandleOK DEF Handling, Connect, Begin, Finish, AnswerFor, EndBehind, CloseUnread

LEMMA ProcessInvariant == Spec => []ProcessInv
<1>1. ProcessInv /\ [Next]_vars => ProcessInv'
  <2> SUFFICES ASSUME ProcessInv, [Next]_vars PROVE ProcessInv'
    OBVIOUS
  <2>1. CASE UNCHANGED vars
    BY <2>1 DEF vars, ProcessInv, TypeOK, CheckOK, Up, RequestOK, DrainCoversRequests, InFlight
  <2> QED BY <2>1, CheckChainOK, MainOK, NodeChangesOK, TickOK, RequestsOK DEF Next
<1> QED BY <1>1, InitOK, PTL DEF Spec

-----------------------------------------------------------------------------

\* Every reachable state is well typed: no timer runs past its end.
THEOREM TypeCorrect == Spec => []TypeOK
  BY ProcessInvariant, PTL DEF ProcessInv

\* A mismatch heard before the watchdog fires (nodeChainID) ends the process: none
\* serves a chain that its node named in time.
THEOREM MismatchIsCaught == Spec => []MismatchCaught
<1>1. ProcessInv => MismatchCaught
  BY DEF ProcessInv, CheckOK, MismatchCaught
<1> QED BY <1>1, ProcessInvariant, PTL

\* The check ends within chainIDCheckWindow, a query that never returns included.
THEOREM CheckEndsInTime == Spec => []StartsInTime
<1>1. ProcessInv => StartsInTime
  BY DEF ProcessInv, CheckOK, StartsInTime
<1> QED BY <1>1, ProcessInvariant, PTL

\* A process serves unconfirmed only after the window, and a node that did not answer.
THEOREM SilenceOnly == Spec => GivesUpOnlyOnSilence
<1>1. ProcessInv /\ [Next]_vars =>
        [main.stage = "checking" /\ main'.stage = "starting" /\ ~main'.confirmed
           => clock >= Window /\ ready <= Interval]_vars
  <2> SUFFICES ASSUME ProcessInv, Next, main.stage = "checking", main'.stage = "starting",
                      ~main'.confirmed
               PROVE  clock >= Window /\ ready <= Interval
    OBVIOUS
  <2>0. main \in [stage : Stages, exit : Exits, confirmed : BOOLEAN]
        /\ query.got \in {"none", "mine", "other", "error"}
    BY DEF ProcessInv, TypeOK
  <2>1. ready <= Interval
    BY DEF ProcessInv, CheckOK
  <2>2. CASE Hear
    <3>1. query.got # "other"
      BY <2>0, <2>2 DEF Hear, Exit
    <3>2. main'.confirmed = (query.got = "mine") /\ query.at = "returned"
      BY <2>0, <2>2, <3>1 DEF Hear
    <3>3. query.got = "error"
      BY <2>0, <3>1, <3>2 DEF ProcessInv, CheckOK
    <3> QED BY <2>1, <3>3 DEF ProcessInv, CheckOK
  <2>3. CASE Watchdog
    BY <2>1, <2>3 DEF Watchdog, WatchdogDue
  <2>4. ~Listen /\ ~ServeFails /\ ~Stop /\ ~Signal
    BY <2>0 DEF Listen, ServeFails, Stop, Signal, Exit
  <2>5. main' # main
    OBVIOUS
  <2>6. ~QueryAnswered /\ ~QueryFails /\ ~QueryAgain /\ ~NodeChanges /\ ~Tick
    BY <2>5 DEF QueryAnswered, QueryFails, QueryAgain, NodeChanges, Tick
  <2>7. ASSUME NEW r \in Requests
        PROVE  ~(Connect(r) \/ Begin(r) \/ Finish(r) \/ AnswerFor(r) \/ EndBehind(r) \/ CloseUnread(r))
    BY <2>5 DEF Connect, Begin, Finish, AnswerFor, EndBehind, CloseUnread, Handle
  <2> QED BY <2>2, <2>3, <2>4, <2>6, <2>7 DEF Next, CheckChain
<1> QED BY <1>1, ProcessInvariant, PTL DEF Spec, GivesUpOnlyOnSilence

\* A drain (serve, writeTimeout) that runs out cuts off no request that was in flight
\* when it began, because answerTimeout and readHeaderTimeout are shorter.
THEOREM DrainCovers == Spec => []DrainCoversRequests
  BY ProcessInvariant, PTL DEF ProcessInv

=============================================================================
