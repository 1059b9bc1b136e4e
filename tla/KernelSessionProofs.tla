------------------------ MODULE KernelSessionProofs -------------------------
(***************************************************************************)
(* Proofs about KernelSession: whatever agents are launched and however    *)
(* they interfere, the kernel logger is left running only by an agent that *)
(* was killed or interrupted before its Ctrl+C handler was installed.      *)
(***************************************************************************)
EXTENDS KernelSession, TLAPS

(* The invariant holds initially.                                          *)
LEMMA InitInv == Init => IInv
  BY KernelSessionAssumption DEF Init, IInv, TypeOK, Step, SessionControlled, EndingStopped

(* A step that stops the session, and at most ends its agent or moves it   *)
(* on, leaves nothing to control.                                          *)
LEMMA StepInv == IInv /\ [Next]_vars => IInv'
<1> SUFFICES ASSUME IInv, [Next]_vars PROVE IInv'
  OBVIOUS
<1> USE KernelSessionAssumption
<1>1. CASE UNCHANGED vars
  BY <1>1 DEF IInv, TypeOK, SessionControlled, EndingStopped, Controls,
              vars, osVars, agVars
<1>2. ASSUME NEW a \in Agent, Launch(a) PROVE IInv'
  BY <1>2 DEF Launch, Goto, IInv, TypeOK, Step, SessionControlled, EndingStopped,
              Controls, osVars
<1>3. ASSUME NEW a \in Agent, StopStale(a) \/ RetryStop(a) PROVE IInv'
  BY <1>3 DEF StopStale, RetryStop, StopSession, Goto, IInv, TypeOK, Step,
              SessionControlled, EndingStopped, Controls, osVars
<1>4. ASSUME NEW a \in Agent, StartTrace(a) \/ RetryStart(a) PROVE IInv'
  <2>1. CASE Started(a) /\ UNCHANGED <<interrupts, early, kills>>
    <3>1. TypeOK'
      BY <2>1 DEF Started, Goto, IInv, TypeOK, Step
    <3>2. Controls(a)'
      BY <2>1 DEF Started, Goto, Controls, IInv, TypeOK
    <3>3. a \notin ending
      BY <1>4 DEF StartTrace, RetryStart, IInv, EndingStopped
    <3>4. EndingStopped'
      BY <2>1, <3>3 DEF Started, Goto, IInv, TypeOK, EndingStopped
    <3>. QED
      BY <3>1, <3>2, <3>4 DEF IInv, SessionControlled
  <2>2. CASE Goto(a, "retryStop") \/ Goto(a, "refused")
    BY <1>4, <2>2 DEF StartTrace, RetryStart, Started, Ends, Goto, IInv, TypeOK, Step,
                      SessionControlled, EndingStopped, Controls, osVars
  <2>3. CASE Ends(a) /\ UNCHANGED osVars
    BY <1>4, <2>3 DEF StartTrace, RetryStart, Ends, Goto, IInv, TypeOK, Step,
                      SessionControlled, EndingStopped, Controls, osVars
  <2>. QED
    BY <1>4, <2>1, <2>2, <2>3 DEF StartTrace, RetryStart
<1>5. ASSUME NEW a \in Agent, Refused(a) PROVE IInv'
  BY <1>5 DEF Refused, Ends, Goto, IInv, TypeOK, Step, SessionControlled,
              EndingStopped, Controls, osVars
<1>6. ASSUME NEW a \in Agent, InstallHandler(a) PROVE IInv'
  BY <1>6 DEF InstallHandler, Goto, IInv, TypeOK, Step, SessionControlled,
              EndingStopped, Controls, osVars
<1>7. ASSUME NEW a \in Agent, OpenTrace(a) PROVE IInv'
  BY <1>7 DEF OpenTrace, Goto, IInv, TypeOK, Step, SessionControlled,
              EndingStopped, Controls, osVars
<1>8. ASSUME NEW a \in Agent, OpenFailed(a) \/ Cleanup(a) PROVE IInv'
  BY <1>8 DEF OpenFailed, Cleanup, StopSession, Ends, Goto, IInv, TypeOK, Step,
              SessionControlled, EndingStopped, Controls, osVars
<1>9. ASSUME NEW a \in Agent, TraceEnds(a) PROVE IInv'
  BY <1>9 DEF TraceEnds, Goto, IInv, TypeOK, Step, SessionControlled,
              EndingStopped, Controls, osVars
<1>10. ASSUME NEW a \in Agent, CtrlC(a) PROVE IInv'
  <2>1. CASE HandledCtrlC(a)
    BY <1>10, <2>1 DEF CtrlC, HandledCtrlC, StopSession, IInv, TypeOK, Step,
                       SessionControlled, EndingStopped, Controls
  <2>2. CASE EarlyCtrlC(a)
    BY <1>10, <2>2 DEF CtrlC, EarlyCtrlC, Ends, Goto, IInv, TypeOK, Step,
                       SessionControlled, EndingStopped, Controls, osVars
  <2>. QED
    BY <1>10, <2>1, <2>2 DEF CtrlC
<1>11. ASSUME NEW a \in Agent, Terminate(a) PROVE IInv'
  BY <1>11 DEF Terminate, Ends, Goto, IInv, TypeOK, Step, SessionControlled,
               EndingStopped, Controls, osVars
<1>12. ASSUME NEW a \in Agent, Kill(a) PROVE IInv'
  BY <1>12 DEF Kill, Ends, Goto, IInv, TypeOK, Step, SessionControlled,
               EndingStopped, Controls, osVars
<1>. QED
  BY <1>1, <1>2, <1>3, <1>4, <1>5, <1>6, <1>7, <1>8, <1>9, <1>10, <1>11, <1>12
     DEF Next, Run

(* In every reachable state a running session has a living controller,     *)
(* unless an agent was killed or interrupted too early.                    *)
THEOREM InvCorrect == Spec => []IInv
  BY InitInv, StepInv, PTL DEF Spec

(* collect_process_events never leaves the kernel logger running behind    *)
(* agents that all came to their own end.                                  *)
THEOREM NoOrphanCorrect == Spec => []NoOrphanSession
<1>1. IInv => NoOrphanSession
  BY DEF IInv, SessionControlled, NoOrphanSession, AllDown, Controls
<1>. QED
  BY <1>1, InvCorrect, PTL
=============================================================================
