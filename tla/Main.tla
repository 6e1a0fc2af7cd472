---------------------------------- MODULE Main ----------------------------------
(***************************************************************************)
(* The whole program: main() of src/main.cpp, the handler of SIGINT and    *)
(* SIGTERM, and the Server that is constructed and destroyed in between.   *)
(* The reader and the adapter are built before the Server and destroyed    *)
(* after it.                                                               *)
(*                                                                         *)
(* The handler runs on any thread and interrupts it.  It logs a line and   *)
(* sets the flag under stopMutex; when the interrupted thread holds the    *)
(* mutex of the log, or is main and holds stopMutex, neither gets any      *)
(* further ("stuck").                                                      *)
(***************************************************************************)
EXTENDS Server

CONSTANT MaxSignals   \* bound: number of signals

ASSUME MainAssumption == MaxSignals \in Nat

VARIABLES
  mainAt,      \* where main() is
  mainStop,    \* the variable `stop` of main.cpp
  handlerAt,   \* where SignalHandler is
  handlerOn,   \* the thread SignalHandler has interrupted
  signals      \* number of signals so far

mainVars    == <<mainAt, mainStop>>
handlerVars == <<handlerAt, handlerOn, signals>>

MainTypeOK ==
  /\ TypeOK
  /\ mainAt \in {"install", "clear", "build", "built", "test", "asleep", "woken", "exit",
                 "join", "adapter", "reader", "exited", "failed"}
  /\ mainStop \in BOOLEAN
  /\ handlerAt \in {"none", "store", "notify", "stuck"}
  /\ handlerOn \in {"main", "other"}
  /\ signals \in 0..MaxSignals

MainInit ==
  /\ Init
  /\ mainAt = "install" /\ mainStop = FALSE
  /\ handlerAt = "none" /\ handlerOn = "main" /\ signals = 0

Interrupted == handlerOn = "main" /\ handlerAt # "none"

MainGoto(from, to) == ~Interrupted /\ mainAt = from /\ mainAt' = to

(* There is a Server, and with it threads beside main. *)
ServerLives ==
  mainAt \notin {"install", "clear", "build", "failed"} /\ serverAt # "done"

-----------------------------------------------------------------------------
(* main() *)

InstallHandlers ==
  /\ MainGoto("install", "clear")
  /\ UNCHANGED <<mainStop, handlerVars, vars>>

(* A signal that was handled before this is forgotten. *)
ClearStop ==
  /\ MainGoto("clear", "build")
  /\ mainStop' = FALSE
  /\ UNCHANGED <<handlerVars, vars>>

(* HidDevReader, CemuhookAdapter and Server, whose constructor starts      *)
(* serverTask.                                                             *)
Build ==
  /\ MainGoto("build", "built")
  /\ UNCHANGED <<mainStop, handlerVars, vars>>

(* The socket cannot be created or bound: an exception leaves main(). *)
BuildFails ==
  /\ MainGoto("build", "failed")
  /\ UNCHANGED <<mainStop, handlerVars, vars>>

(* stopMutex is taken for the wait; a handler takes it and lets go of it   *)
(* in one step, so it is free.                                             *)
LockStop ==
  /\ MainGoto("built", "test")
  /\ UNCHANGED <<mainStop, handlerVars, vars>>

(* The predicate of the wait, under stopMutex. *)
TestStop ==
  /\ MainGoto("test", IF mainStop THEN "exit" ELSE "asleep")
  /\ UNCHANGED <<mainStop, handlerVars, vars>>

(* Back from the wait; a condition variable may also wake up by itself. *)
WakeUp ==
  /\ MainGoto("woken", "test") \/ MainGoto("asleep", "test")
  /\ UNCHANGED <<mainStop, handlerVars, vars>>

DestroyServer ==
  /\ MainGoto("exit", "join")
  /\ Destroy
  /\ UNCHANGED <<mainStop, handlerVars>>

\* Slip: ~Server does not join serverTask.
JoinServerNoWait ==
  /\ MainGoto("join", "adapter")
  /\ UNCHANGED <<mainStop, handlerVars, vars>>

JoinServer ==
  /\ serverAt = "done"
  /\ MainGoto("join", "adapter")
  /\ UNCHANGED <<mainStop, handlerVars, vars>>

(* ~CemuhookAdapter, ~HidDevReader, and return. *)
DestroyRest ==
  /\ MainGoto("adapter", "reader") \/ MainGoto("reader", "exited")
  /\ UNCHANGED <<mainStop, handlerVars, vars>>

main ==
  \/ InstallHandlers \/ ClearStop \/ Build \/ BuildFails \/ LockStop \/ TestStop
  \/ DestroyServer \/ JoinServer \/ DestroyRest

-----------------------------------------------------------------------------
(* SignalHandler *)

(* Where main logs; the other threads may be logging at any time. *)
MainLogs == {"build", "built", "exit", "reader"}

SignalArrives ==
  /\ signals < MaxSignals /\ signals' = signals + 1
  /\ handlerAt = "none" /\ mainAt \notin {"install", "exited", "failed"}
  /\ \E on \in {"main", "other"}, logging \in BOOLEAN :
       /\ on = "other" => ServerLives
       /\ on = "main" /\ logging => mainAt \in MainLogs
       /\ handlerOn' = on
       /\ handlerAt' = IF logging \/ (on = "main" /\ mainAt = "test")
                       THEN "stuck" ELSE "store"
  /\ UNCHANGED <<mainVars, vars>>

HandlerGoto(from, to) == handlerAt = from /\ handlerAt' = to

\* Slip: main is notified before the flag is set.
SignalHandlerNotifyFirst ==
  /\ \/ /\ HandlerGoto("store", "notify")
        /\ mainAt' = IF mainAt = "asleep" THEN "woken" ELSE mainAt
        /\ UNCHANGED mainStop
     \/ /\ HandlerGoto("notify", "none")
        /\ mainStop' = TRUE
        /\ UNCHANGED mainAt
  /\ UNCHANGED <<handlerOn, signals, vars>>

(* main holds stopMutex only between the test and the sleep, where the     *)
(* handler on another thread waits for it.                                 *)
SignalHandler ==
  /\ \/ /\ mainAt # "test"
        /\ HandlerGoto("store", "notify")
        /\ mainStop' = TRUE
        /\ UNCHANGED mainAt
     \/ /\ HandlerGoto("notify", "none")
        /\ mainAt' = IF mainAt = "asleep" THEN "woken" ELSE mainAt
        /\ UNCHANGED mainStop
  /\ UNCHANGED <<handlerOn, signals, vars>>

-----------------------------------------------------------------------------
(* The program as a whole *)

ServerRuns ==
  /\ ServerLives
  /\ serverTask \/ sendTask
  /\ UNCHANGED <<mainVars, handlerVars>>

Halted ==
  /\ mainAt \in {"exited", "failed"} \/ handlerAt = "stuck"
  /\ UNCHANGED <<mainVars, handlerVars, vars>>

MainNext == main \/ WakeUp \/ SignalArrives \/ SignalHandler \/ ServerRuns \/ Halted

mainAll == <<mainVars, handlerVars, vars>>

Step(task) == ServerLives /\ task /\ UNCHANGED <<mainVars, handlerVars>>

(* The fairness of Server, and every other thread keeps running.  A sleep  *)
(* is only sure to end when there was a notification.                      *)
MainFairness ==
  /\ WF_mainAll(main) /\ WF_mainAll(mainAt = "woken" /\ WakeUp)
  /\ WF_mainAll(SignalHandler)
  /\ WF_mainAll(Step(serverTask)) /\ WF_mainAll(Step(sendTask))
  /\ SF_mainAll(Step(TouchClient)) /\ SF_mainAll(Step(AddClient))
  /\ SF_mainAll(Step(EraseClients))

MainSpec == MainInit /\ [][MainNext]_mainAll /\ MainFairness

-----------------------------------------------------------------------------
(* A signal that was handled after main() cleared the flag (line 92) ends  *)
(* the program, also one that comes before there is anybody who waits for  *)
(* it, unless a handler has interrupted a thread that holds a mutex it     *)
(* needs (line 65).                                                        *)
SignalStops ==
  (mainStop /\ mainAt # "clear") ~>
    (mainAt \in {"exited", "failed"} \/ handlerAt = "stuck")

(* The adapter and the reader are references in the threads of the Server  *)
(* (main.cpp:125-127): they go only when these threads are no more.        *)
DestroyedInOrder ==
  mainAt \in {"adapter", "reader", "exited"} => serverAt = "done" /\ sendAt = "none"

=============================================================================
