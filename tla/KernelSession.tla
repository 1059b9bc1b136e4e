--------------------------- MODULE KernelSession ----------------------------
(***************************************************************************)
(* collect_process_events: an agent is the controller and the consumer of  *)
(* the one kernel-logger session a machine has.  The session is found by   *)
(* its name, outlives the process that started it, and belongs to nobody:  *)
(* every agent on the machine can stop it.  Agents are launched, stopped   *)
(* with Ctrl+C and killed at any point.                                    *)
(*                                                                         *)
(* Sessions are numbered in the order they are started; 0 is no session.   *)
(***************************************************************************)
EXTENDS Naturals, FiniteSets

CONSTANTS
  Agent,          \* agent processes of the machine
  MaxSessions,    \* bound: sessions ever started
  MaxInterrupts,  \* bound: Ctrl+C pressed
  MaxKills        \* bound: agents killed, or crashed

ASSUME KernelSessionAssumption ==
  /\ IsFiniteSet(Agent)
  /\ {MaxSessions, MaxInterrupts, MaxKills} \subseteq Nat

VARIABLES
  session,     \* the running kernel-logger session
  started,     \* how many sessions were started
  pc,          \* where each agent is in collect_process_events
  handle,      \* the session each agent started
  attached,    \* the session each agent's ProcessTrace consumes
  ending,      \* agents in which on_ctrl_c has returned FALSE
  interrupts,  \* Ctrl+C so far
  early,       \* ... of them between StartTraceW and SetConsoleCtrlHandler
  kills

osVars == <<session, started>>
agVars == <<pc, handle, attached, ending>>
vars == <<osVars, agVars, interrupts, early, kills>>

Step == {"down", "stale", "start", "retryStop", "retryStart", "refused",
         "install", "open", "openFailed", "tracing", "cleanup"}

TypeOK ==
  /\ session \in 0..started /\ started \in 0..MaxSessions
  /\ pc \in [Agent -> Step]
  /\ handle \in [Agent -> 0..started] /\ attached \in [Agent -> 0..started]
  /\ ending \subseteq Agent
  /\ interrupts \in 0..MaxInterrupts /\ early \in 0..interrupts
  /\ kills \in 0..MaxKills

Init ==
  /\ session = 0 /\ started = 0
  /\ pc = [a \in Agent |-> "down"]
  /\ handle = [a \in Agent |-> 0] /\ attached = [a \in Agent |-> 0]
  /\ ending = {} /\ interrupts = 0 /\ early = 0 /\ kills = 0

-----------------------------------------------------------------------------
Goto(a, to) == pc' = [pc EXCEPT ![a] = to]

(* The process is gone; what it started is not.                            *)
Ends(a) ==
  /\ Goto(a, "down")
  /\ handle' = [handle EXCEPT ![a] = 0]
  /\ attached' = [attached EXCEPT ![a] = 0]
  /\ ending' = ending \ {a}

(* ControlTraceW with EVENT_TRACE_CONTROL_STOP and the session's name      *)
(* stops the session of that name, also when a handle is given.            *)
StopOwnSession(a) ==  \* only the session the handle denotes
  session' = IF session = handle[a] THEN 0 ELSE session

StopSession(a) == session' = 0

(* main: an agent that is not elevated relaunches itself elevated.  If the *)
(* user declines, nothing is started.                                      *)
Launch(a) ==
  /\ pc[a] = "down" /\ Goto(a, "stale")
  /\ UNCHANGED <<osVars, handle, attached, ending, interrupts, early, kills>>

StopStale(a) ==
  /\ pc[a] = "stale" /\ Goto(a, "start")
  /\ StopSession(a)
  /\ UNCHANGED <<started, handle, attached, ending, interrupts, early, kills>>

Started(a) ==
  /\ session = 0 /\ started < MaxSessions
  /\ session' = started + 1 /\ started' = started + 1
  /\ handle' = [handle EXCEPT ![a] = started + 1]
  /\ Goto(a, "install")
  /\ UNCHANGED <<attached, ending>>

(* StartTraceW, the first time: ERROR_ALREADY_EXISTS is retried.           *)
StartTrace(a) ==
  /\ pc[a] = "start"
  /\ \/ Started(a)
     \/ session # 0 /\ Goto(a, "retryStop") /\ UNCHANGED <<osVars, handle, attached, ending>>
     \/ Ends(a) /\ UNCHANGED osVars  \* any other error
  /\ UNCHANGED <<interrupts, early, kills>>

RetryStop(a) ==
  /\ pc[a] = "retryStop" /\ Goto(a, "retryStart")
  /\ StopSession(a)
  /\ UNCHANGED <<started, handle, attached, ending, interrupts, early, kills>>

RetryStart(a) ==
  /\ pc[a] = "retryStart"
  /\ \/ Started(a)
     \/ session # 0 /\ Goto(a, "refused") /\ UNCHANGED <<osVars, handle, attached, ending>>
     \/ Ends(a) /\ UNCHANGED osVars
  /\ UNCHANGED <<interrupts, early, kills>>

(* The session exists again after the retry: "StartTrace failed".          *)
Refused(a) ==
  /\ pc[a] = "refused" /\ Ends(a)
  /\ UNCHANGED <<osVars, interrupts, early, kills>>

InstallHandler(a) ==
  /\ pc[a] = "install" /\ Goto(a, "open")
  /\ UNCHANGED <<osVars, handle, attached, ending, interrupts, early, kills>>

(* OpenTraceW finds the session by name, whoever started it.               *)
OpenTrace(a) ==
  /\ pc[a] = "open"
  /\ \/ Goto(a, "tracing") /\ attached' = [attached EXCEPT ![a] = session]
     \/ Goto(a, "openFailed") /\ UNCHANGED attached
  /\ UNCHANGED <<osVars, handle, ending, interrupts, early, kills>>

OpenFailedLeaks(a) ==  \* returns without stopping the session
  /\ pc[a] = "openFailed"
  /\ Ends(a) /\ UNCHANGED session
  /\ UNCHANGED <<started, interrupts, early, kills>>

OpenFailed(a) ==
  /\ pc[a] = "openFailed"
  /\ StopSession(a) /\ Ends(a)
  /\ UNCHANGED <<started, interrupts, early, kills>>

(* ProcessTrace returns when the session it consumes is no longer there.   *)
TraceEnds(a) ==
  /\ pc[a] = "tracing" /\ (attached[a] = 0 \/ attached[a] # session)
  /\ Goto(a, "cleanup")
  /\ UNCHANGED <<osVars, handle, attached, ending, interrupts, early, kills>>

CleanupReopens(a) ==  \* listens again instead of returning
  /\ pc[a] = "cleanup" /\ Goto(a, "open")
  /\ attached' = [attached EXCEPT ![a] = 0]
  /\ UNCHANGED <<osVars, handle, ending, interrupts, early, kills>>

(* CloseTrace, and once more ControlTraceW.                                *)
Cleanup(a) ==
  /\ pc[a] = "cleanup"
  /\ StopSession(a) /\ Ends(a)
  /\ UNCHANGED <<started, interrupts, early, kills>>

(* Ctrl+C runs on_ctrl_c on a thread of its own, once it is installed; the *)
(* main thread goes on until the default handler ends the process.         *)
HandledCtrlC(a) ==
  /\ pc[a] \in {"open", "openFailed", "tracing", "cleanup"} /\ a \notin ending
  /\ StopSession(a) /\ ending' = ending \cup {a}
  /\ UNCHANGED <<started, pc, handle, attached, early>>

(* Before that, Ctrl+C ends the process at once.                           *)
EarlyCtrlC(a) ==
  /\ pc[a] \in {"stale", "start", "retryStop", "retryStart", "refused", "install"}
  /\ early' = IF pc[a] = "install" THEN early + 1 ELSE early
  /\ Ends(a) /\ UNCHANGED osVars

CtrlC(a) ==
  /\ interrupts < MaxInterrupts /\ interrupts' = interrupts + 1
  /\ HandledCtrlC(a) \/ EarlyCtrlC(a)
  /\ UNCHANGED kills

Terminate(a) ==
  /\ a \in ending /\ Ends(a)
  /\ UNCHANGED <<osVars, interrupts, early, kills>>

Kill(a) ==
  /\ pc[a] # "down" /\ kills < MaxKills /\ kills' = kills + 1
  /\ Ends(a)
  /\ UNCHANGED <<osVars, interrupts, early>>

Run(a) ==
  \/ StopStale(a) \/ StartTrace(a) \/ RetryStop(a) \/ RetryStart(a) \/ Refused(a)
  \/ InstallHandler(a) \/ OpenTrace(a) \/ OpenFailed(a) \/ TraceEnds(a) \/ Cleanup(a)
  \/ Terminate(a)

Next == \E a \in Agent : Launch(a) \/ Run(a) \/ CtrlC(a) \/ Kill(a)

Spec == Init /\ [][Next]_vars

(* The system runs the agents' threads, and ProcessTrace returns.          *)
FairSpec == Spec /\ \A a \in Agent : WF_vars(Run(a))

-----------------------------------------------------------------------------
AllDown == \A a \in Agent : pc[a] = "down"

Controls(a) == handle[a] = session /\ pc[a] \in {"install", "open", "openFailed", "tracing", "cleanup"}

(* However many agents are launched, stop each other's sessions and exit:  *)
(* when none is running, neither is the kernel logger, unless an agent was *)
(* killed or interrupted before its handler was there.                     *)
NoOrphanSession == kills = 0 /\ early = 0 /\ AllDown => session = 0

(* Why: every running session has a living agent that started it, will     *)
(* stop it and has not yet been told to stop.                              *)
SessionControlled ==
  kills = 0 /\ early = 0 /\ session # 0 => \E a \in Agent : Controls(a)

(* An agent that has been told to stop has stopped what it started, and    *)
(* starts nothing more.                                                    *)
EndingStopped ==
  \A a \in ending :
    /\ pc[a] \in {"open", "openFailed", "tracing", "cleanup"}
    /\ session = 0 \/ handle[a] # session

IInv == TypeOK /\ SessionControlled /\ EndingStopped

(* A session left behind by an agent that was killed, or interrupted too   *)
(* early, does not lock out those after it: an agent that has the machine  *)
(* to itself from some point on is refused no more ("Stop any stale        *)
(* kernel-logger session first", "Retry once if it already exists").       *)
StaleNeverBlocks ==
  \A a \in Agent :
    <>[](\A b \in Agent \ {a} : pc[b] = "down") => <>[](pc[a] # "refused")

(* An agent never goes on listening to nothing: whoever stopped the        *)
(* session it consumes, it exits.                                          *)
NeverDeaf ==
  \A a \in Agent : (pc[a] = "tracing" /\ attached[a] # session) ~> pc[a] = "down"

=============================================================================
