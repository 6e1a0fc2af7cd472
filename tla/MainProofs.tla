------------------------------ MODULE MainProofs ------------------------------
(***************************************************************************)
(* Theorems about Main, and with it about the Server it contains: the      *)
(* program runs the Server as Server specifies it, so that everything      *)
(* ServerProofs shows holds in the program, and the threads of the Server  *)
(* end one after the other, before the objects they use are destroyed.     *)
(***************************************************************************)
EXTENDS Main, ServerProofs

-----------------------------------------------------------------------------
(* A step of the program is one of the Server or leaves it alone: main()   *)
(* constructs it and calls its destructor, its threads run by themselves,  *)
(* and a signal handler that interrupts them touches nothing of it.        *)
LEMMA StepOfServer == [MainNext]_mainAll => [Next]_vars
<1> SUFFICES ASSUME [MainNext]_mainAll PROVE [Next]_vars
  OBVIOUS
<1>1. CASE DestroyServer
  BY <1>1 DEF DestroyServer, Next
<1>2. CASE ServerRuns
  BY <1>2 DEF ServerRuns, Next
<1>3. CASE ~DestroyServer /\ ~ServerRuns
  BY <1>3 DEF MainNext, main, InstallHandlers, ClearStop, Build, BuildFails, LockStop, TestStop,
       JoinServer, DestroyRest, WakeUp, SignalArrives, SignalHandler, Halted, mainAll
<1> QED BY <1>1, <1>2, <1>3

(* The program runs the Server as specified: every theorem about Server is *)
(* one about the program, at whatever moment it is built, interrupted by   *)
(* signals and destroyed.                                                  *)
THEOREM RunsServer == MainSpec => Spec
<1>1. MainInit => Init
  BY DEF MainInit
<1> QED BY <1>1, StepOfServer, PTL DEF MainSpec, Spec

-----------------------------------------------------------------------------
(* main() is in one of its steps, and the handler in one of its own. *)
MainTypes ==
  /\ mainAt \in {"install", "clear", "build", "built", "test", "asleep", "woken", "exit",
                 "join", "adapter", "reader", "exited", "failed"}
  /\ mainStop \in BOOLEAN
  /\ handlerAt \in {"none", "store", "notify", "stuck"}
  /\ handlerOn \in {"main", "other"}
  /\ signals \in 0..MaxSignals

(* The type invariant of the program, the Server's included, for any       *)
(* clients and any number of signals.                                      *)
THEOREM MainTypeCorrect == MainSpec => []MainTypeOK
<1>1. MainInit => MainTypes
  <2> SUFFICES ASSUME MainInit PROVE MainTypes
    OBVIOUS
  <2>1. 0 \in 0..MaxSignals
    BY MainAssumption
  <2> QED BY <2>1 DEF MainInit, MainTypes
<1>2. MainTypes /\ [MainNext]_mainAll => MainTypes'
  <2> SUFFICES ASSUME MainTypes, [MainNext]_mainAll PROVE MainTypes'
    OBVIOUS
  <2> USE DEF MainTypes
  <2>1. CASE main
    BY <2>1 DEF main, InstallHandlers, ClearStop, Build, BuildFails, LockStop, TestStop,
         DestroyServer, JoinServer, DestroyRest, MainGoto, handlerVars
  <2>2. CASE WakeUp
    BY <2>2 DEF WakeUp, MainGoto, handlerVars
  <2>3. CASE SignalArrives
    BY <2>3, MainAssumption DEF SignalArrives, mainVars
  <2>4. CASE SignalHandler
    BY <2>4 DEF SignalHandler, HandlerGoto
  <2>5. CASE ServerRuns \/ Halted \/ UNCHANGED mainAll
    BY <2>5 DEF ServerRuns, Halted, mainAll, mainVars, handlerVars
  <2> QED BY <2>1, <2>2, <2>3, <2>4, <2>5 DEF MainNext
<1>3. MainTypes /\ TypeOK => MainTypeOK
  BY DEF MainTypes, MainTypeOK
<1> QED BY <1>1, <1>2, <1>3, RunsServer, TypeCorrect, PTL DEF MainSpec

-----------------------------------------------------------------------------
(* main() goes on to the other objects when serverTask is done. *)
JoinedFirst == mainAt \in {"adapter", "reader", "exited"} => serverAt = "done"

(* The Server's threads are gone before anything is destroyed that they    *)
(* use, for any clients and any number of signals.                         *)
THEOREM DestroyedLast == MainSpec => []DestroyedInOrder
<1> USE DEF JoinedFirst
<1>1. MainInit => JoinedFirst
  BY DEF MainInit
<1>2. JoinedFirst /\ [MainNext]_mainAll => JoinedFirst'
  <2> SUFFICES ASSUME JoinedFirst, [MainNext]_mainAll PROVE JoinedFirst'
    OBVIOUS
  <2>1. CASE ServerRuns
    BY <2>1 DEF ServerRuns, ServerLives, mainVars
  <2>2. CASE main \/ WakeUp
    <3>1. serverAt' = serverAt
      BY <2>2 DEF main, InstallHandlers, ClearStop, Build, BuildFails, LockStop, TestStop,
           DestroyServer, Destroy, JoinServer, DestroyRest, WakeUp, vars
    <3> QED BY <2>2, <3>1 DEF main, InstallHandlers, ClearStop, Build, BuildFails,
         LockStop, TestStop, DestroyServer, JoinServer, DestroyRest, WakeUp, MainGoto
  <2>3. CASE SignalArrives \/ SignalHandler
    BY <2>3 DEF SignalArrives, SignalHandler, HandlerGoto, mainVars, vars
  <2>4. CASE Halted \/ UNCHANGED mainAll
    BY <2>4 DEF Halted, mainAll, mainVars, vars
  <2> QED BY <2>1, <2>2, <2>3, <2>4 DEF MainNext
<1>3. ThreadHeld /\ JoinedFirst => DestroyedInOrder
  BY DEF ThreadHeld, DestroyedInOrder
<1> QED BY <1>1, <1>2, <1>3, RunsServer, ThreadIsHeld, PTL DEF MainSpec

=============================================================================
