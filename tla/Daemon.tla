------------------------------- MODULE Daemon -------------------------------
(***************************************************************************)
(* The life of `whatsmeow-api serve` around the session: what is opened in *)
(* which order, when requests and messages are taken, how the server is    *)
(* shut down and in which order the deferred functions close what was      *)
(* opened.  A request is a login or an open event stream; a message of a   *)
(* peer is handed to the service, whose store call fails when the app      *)
(* store is closed, and is never handed over again.                        *)
(***************************************************************************)
EXTENDS Session, FiniteSets

CONSTANTS
  Clients,      \* clients of GET /v1/events
  MaxMessages,  \* bound: messages handed over
  MaxRuns       \* bound: times the daemon is started

ASSUME DaemonAssumption == MaxMessages \in Nat /\ MaxRuns \in Nat \ {0}

VARIABLES
  phase,      \* where serveCmd is
  appStore,   \* "closed" or "open"
  streaming,  \* the clients with an open event stream
  graceful,   \* Shutdown returned before its 10 s were over
  handed,     \* messages handed to the service
  lost,       \* messages it could not store, by the phase they came in
  runs

daemonVars == <<phase, appStore, streaming, graceful, handed, lost, runs>>
serveVars  == <<phase, appStore, graceful, runs>>
traffic    == <<streaming, handed, lost>>
vars == <<sessionVars, daemonVars>>

Init ==
  /\ SessionInit
  /\ phase = "down" /\ appStore = "closed" /\ streaming = {}
  /\ graceful = FALSE /\ handed = 0 /\ lost = {} /\ runs = 0

-----------------------------------------------------------------------------
(* serveCmd, step by step.                                                 *)

Step(from, to) == phase = from /\ phase' = to

\* Configuration, data directory and session store; any of them may fail.
OpenSession ==
  /\ runs < MaxRuns /\ runs' = runs + 1
  /\ \E to \in {"session", "down"} : Step("down", to)
  /\ UNCHANGED <<sessionVars, appStore, graceful, traffic>>

\* The app store with its migrations, then the service, which registers its
\* handlers.
OpenAppStore ==
  /\ \/ Step("session", "resume") /\ appStore' = "open"
     \/ Step("session", "closeWA") /\ UNCHANGED appStore
  /\ UNCHANGED <<sessionVars, graceful, runs, traffic>>

\* Resume connects a stored device; a failure is only logged.
Resume ==
  /\ Step("resume", "listen")
  /\ \/ linked /\ conn = "down" /\ conn' = "up"
     \/ UNCHANGED conn
  /\ UNCHANGED <<linked, linkCode, qrOpen, qrCh, codes, paired, adapter,
                 request, routine, handler, client, limits, appStore, graceful,
                 runs, traffic>>

Listen ==
  /\ Step("listen", "serving") \/ Step("listen", "closeApp")
  /\ UNCHANGED <<sessionVars, appStore, graceful, runs, traffic>>

\* Fault: what SIGTERM cancels is also the context of the app store.
TerminateStore ==
  /\ Step("serving", "shutdown")
  /\ appStore' = "closed"
  /\ UNCHANGED <<sessionVars, graceful, runs, traffic>>

\* SIGTERM ends the context of Run, which starts Shutdown.
Terminate ==
  /\ Step("serving", "shutdown")
  /\ UNCHANGED <<sessionVars, appStore, graceful, runs, traffic>>

Idle == reading = {} /\ streaming = {}

\* Fault: Shutdown does not wait for event streams.
DrainedOfLogins ==
  /\ reading = {}
  /\ Step("shutdown", "closeApp")
  /\ graceful' = TRUE
  /\ UNCHANGED <<sessionVars, appStore, runs, traffic>>

\* Shutdown waits for the handlers, which it does not cancel.
Drained ==
  /\ Idle
  /\ Step("shutdown", "closeApp")
  /\ graceful' = TRUE
  /\ UNCHANGED <<sessionVars, appStore, runs, traffic>>

\* Fault: Shutdown has a context without a deadline.
NoDeadline ==
  /\ Idle
  /\ Step("shutdown", "closeApp")
  /\ UNCHANGED <<sessionVars, appStore, graceful, runs, traffic>>

\* Its 10 s are over first.
TimedOut ==
  /\ ~Idle
  /\ Step("shutdown", "closeApp")
  /\ UNCHANGED <<sessionVars, appStore, graceful, runs, traffic>>

\* The deferred functions, last first: the app store, then the connection
\* and the session store.
CloseApp ==
  /\ Step("closeApp", "closeWA")
  /\ appStore' = "closed"
  /\ UNCHANGED <<sessionVars, graceful, runs, traffic>>

CloseWA ==
  /\ Unlocked
  /\ Step("closeWA", "exit")
  /\ conn' = "down" /\ linkCode' = FALSE
  /\ UNCHANGED <<linked, qrOpen, qrCh, codes, paired, adapter, request,
                 routine, handler, client, limits, appStore, graceful, runs,
                 traffic>>

\* The process is gone, at the end of main or in the middle of anything.
\* What is left is the device in the session store, and the CLIs.
Exit ==
  /\ phase # "down"
  /\ phase' = "down" /\ appStore' = "closed" /\ graceful' = FALSE
  /\ streaming' = {}
  /\ conn' = "down" /\ linkCode' = FALSE /\ qrOpen' = {}
  /\ loginInProgress' = FALSE /\ pairCh' = NoLogin /\ muHeld' = FALSE
  /\ pc' = [l \in Logins |-> IF pc[l] = "idle" THEN "idle" ELSE "done"]
  /\ reading' = {}
  /\ live' = [l \in Logins |-> live[l] /\ pc[l] = "idle"]
  /\ UNCHANGED <<linked, qrCh, codes, paired, request, item, pair, sent, taken,
                 client, limits, handed, lost, runs>>

-----------------------------------------------------------------------------
(* What happens while it runs.                                             *)

Alive == phase # "down"

\* The server takes requests until Shutdown.
TakeRequest ==
  /\ phase = "serving"
  /\ \/ NewLogin /\ UNCHANGED daemonVars
     \/ Logout /\ UNCHANGED daemonVars
     \/ /\ \E c \in Clients : streaming' = streaming \cup {c}
        /\ UNCHANGED <<sessionVars, serveVars, handed, lost>>

\* An event stream ends when its client leaves.
StreamLeft ==
  /\ \E c \in streaming : streaming' = streaming \ {c}
  /\ UNCHANGED <<sessionVars, serveVars, handed, lost>>

ClientLeaves ==
  /\ \E l \in Logins : HangUp(l)
  /\ UNCHANGED daemonVars

\* handleIncoming: the store's errors are logged.  Once the session store is
\* closed whatsmeow decrypts nothing and hands nothing over.
Deliver ==
  /\ Alive /\ phase # "exit" /\ LoggedIn /\ Unlocked
  /\ handed < MaxMessages /\ handed' = handed + 1
  /\ lost' = IF appStore = "open" THEN lost ELSE lost \cup {phase}
  /\ UNCHANGED <<sessionVars, serveVars, streaming>>

\* whatsmeow connects again by itself what Resume connected.
StayConnected ==
  /\ phase \in {"listen", "serving", "shutdown", "closeApp"}
  /\ Reconnect
  /\ UNCHANGED daemonVars

Work ==
  /\ Alive
  /\ \/ \E l \in Logins : Dialling(l) \/ Routine(l) \/ Handler(l) \/ WhatsApp(l)
     \/ Account \/ LogoutEnds
  /\ UNCHANGED daemonVars

Client == (\E l \in Logins : Cli(l)) /\ UNCHANGED daemonVars

Serve ==
  \/ OpenSession \/ OpenAppStore \/ Resume \/ Listen \/ Terminate
  \/ Drained \/ TimedOut \/ CloseApp \/ CloseWA \/ Exit

Next ==
  \/ Serve \/ TakeRequest \/ StreamLeft \/ ClientLeaves \/ Deliver
  \/ StayConnected \/ Work \/ Client

Spec == Init /\ [][Next]_vars

(***************************************************************************)
(* Goroutines, handlers and the CLI go on when they can; whatsmeow ends a  *)
(* QR channel sooner or later; Logout's call returns; and the steps of     *)
(* serveCmd are taken once it was told to stop.  Nothing is assumed of     *)
(* clients, phones, the network or the operator.                           *)
(***************************************************************************)
Fairness ==
  /\ \A l \in Logins :
       /\ WF_vars(Alive /\ Dialling(l) /\ UNCHANGED daemonVars)
       /\ WF_vars(Alive /\ Routine(l) /\ UNCHANGED daemonVars)
       /\ WF_vars(Alive /\ Handler(l) /\ UNCHANGED daemonVars)
       /\ WF_vars(Alive /\ (CodesRunOut(l) \/ QRCancelled(l)) /\ UNCHANGED daemonVars)
       /\ WF_vars(Cli(l) /\ UNCHANGED daemonVars)
  /\ WF_vars(LogoutEnds /\ UNCHANGED daemonVars)
  /\ WF_vars(Drained \/ TimedOut \/ CloseApp \/ CloseWA)
  /\ WF_vars(phase = "exit" /\ Exit)

FairSpec == Spec /\ Fairness

-----------------------------------------------------------------------------
(* Correctness.                                                            *)

Phases == {"down", "session", "resume", "listen", "serving", "shutdown",
           "closeApp", "closeWA", "exit"}

\* Every variable of the session and of the daemon holds values of its type.
TypeOK ==
  /\ SessionTypeOK
  /\ phase \in Phases /\ appStore \in {"closed", "open"}
  /\ streaming \subseteq Clients /\ graceful \in BOOLEAN
  /\ handed \in Nat /\ lost \subseteq Phases /\ runs \in Nat

\* A message is lost only in the one window the order of the deferred
\* functions leaves: the app store is closed and WhatsApp not yet.
LostOnlyInWindow == lost \subseteq {"closeWA"}

\* After a graceful shutdown no handler is left to meet a closed store.
GracefulLeavesNoHandler == graceful => Idle

\* Every login ends, and gives up the flag, whatever its client does; and
\* every CLI that waits for one gets an answer.
LoginsEnd ==
  \A l \in Logins :
    /\ Holds(l) ~> ~Holds(l)
    /\ (l \in reading /\ via[l] = "cli") ~> cli[l] # "waiting"

\* SIGTERM ends the process although event streams stay open.
ShutdownEnds == phase = "shutdown" ~> phase = "down"
=============================================================================
