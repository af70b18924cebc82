------------------------- MODULE ControlPlaneProofs -------------------------
(***************************************************************************)
(* Proofs about the management API on top of the manager, for any          *)
(* upstreams, addresses, documents, bodies and number of requests.  The    *)
(* lists that reach Apply have unique addresses, so the manager below the  *)
(* API is the one Manager specifies and all that is shown of it first      *)
(* holds here; nothing survives Close; and when requests do not overlap    *)
(* the listeners are those the file asks for.                              *)
(***************************************************************************)
EXTENDS ControlPlane, FiniteSetTheorems, TLAPS

-----------------------------------------------------------------------------
(***************************************************************************)
(* The runtime manager, for any upstreams, addresses, number of calls and  *)
(* of clients, and whether or not calls of Apply overlap                   *)
(***************************************************************************)

(* The process a call will start does not exist before the call starts it. *)
Fresh ==
    \A p \in Procs : call[p[2]].pc # "returned" => proc[p].phase = "unused"

(* A process that was started has the configuration of an upstream. *)
Configured ==
    \A p \in Procs : proc[p].phase # "unused" => proc[p].config \in Config

(* A running upstream has a process that was started, and it is its own. *)
RunningExists ==
    \A i \in Ids : running[i] # None =>
        running[i][1] = i /\ proc[running[i]].phase # "unused"

(***************************************************************************)
(* The inductive invariant of the manager's data.                          *)
(***************************************************************************)
Base == TypeOK /\ Fresh /\ Configured /\ RunningExists

-----------------------------------------------------------------------------
(* A process is a pair, and None is not one. *)
LEMMA ProcPairs ==
    /\ \A i \in Ids, k \in Calls : <<i, k>> \in Procs /\ <<i, k>> # None
    /\ \A p \in Procs : p[1] \in Ids /\ p[2] \in Calls /\ p = <<p[1], p[2]>>
    /\ None \notin Config
BY ManagerAssumption DEF Procs

(* Every variable has its type in the initial states. *)
LEMMA TypeInit == Init => TypeOK
  <1> SUFFICES ASSUME Init PROVE TypeOK
    OBVIOUS
  <1>1. Unused \in Process
    BY ManagerAssumption DEF Unused, Process, Phases, Results
  <1>2. NoItems \in ItemMaps
    BY DEF NoItems, ItemMaps
  <1>3. NoStatus \in Status
    BY DEF NoStatus, Status
  <1>4. \A k \in Calls : call[k] \in Call
    BY <1>2 DEF Init, Call
  <1>5. call \in [Calls -> Call]
    BY <1>4 DEF Init
  <1>6. closer \in Closer
    BY DEF Init, Closer
  <1>7. QED
    BY <1>1, <1>2, <1>3, <1>5, <1>6 DEF Init, TypeOK

(* Cancelling processes keeps them well-typed and changes nothing else. *)
LEMMA CancelType ==
    ASSUME proc \in [Procs -> Process], NEW ps \in SUBSET Procs
    PROVE  /\ Cancel(ps) \in [Procs -> Process]
           /\ \A p \in Procs :
                 /\ Cancel(ps)[p].phase = proc[p].phase
                 /\ Cancel(ps)[p].config = proc[p].config
                 /\ Cancel(ps)[p].result = proc[p].result
                 /\ p \notin ps => Cancel(ps)[p] = proc[p]
                 /\ p \in ps => Cancel(ps)[p].cancelled
BY DEF Cancel, Process

(* Run returning an error changes the phase and the result of its process only. *)
LEMMA FailsFrame ==
    ASSUME TypeOK, NEW p \in Procs, Fails(p)
    PROVE  /\ proc' \in [Procs -> Process]
           /\ \A q \in Procs : q # p => proc'[q] = proc[q]
           /\ proc'[p].config = proc[p].config
           /\ proc'[p].cancelled = proc[p].cancelled
           /\ proc'[p].phase = "returned"
  <1> DEFINE e == [proc[p] EXCEPT !.phase = "returned", !.result = "error"]
  <1>1. proc \in [Procs -> Process] /\ proc[p] \in Process
    BY DEF TypeOK
  <1>2. /\ e \in Process /\ e.config = proc[p].config
        /\ e.cancelled = proc[p].cancelled /\ e.phase = "returned"
    BY <1>1 DEF Process, Phases, Results
  <1>3. proc' = [proc EXCEPT ![p] = e]
    BY <1>1 DEF Fails
  <1> HIDE DEF e
  <1> QED BY <1>1, <1>2, <1>3

(***************************************************************************)
(* What a step of process p changes: nothing of any other process or of    *)
(* the calls, and neither its configuration nor its context.               *)
(***************************************************************************)
LEMMA RunStepFrame ==
    ASSUME TypeOK, NEW p \in Procs, RunStep(p)
    PROVE  /\ proc' \in [Procs -> Process]
           /\ \A q \in Procs : q # p => proc'[q] = proc[q]
           /\ proc'[p].config = proc[p].config
           /\ proc'[p].cancelled = proc[p].cancelled
           /\ proc[p].phase = "unused" <=> proc'[p].phase = "unused"
           /\ UNCHANGED <<call, closer, rootDone, timedOut>>
  <1> USE DEF TypeOK, Process, Phases, Results
  <1>1. CASE Listen(p)
    BY <1>1 DEF Listen, SetPhase
  <1>2. CASE ListenFails(p)
    <2>1. /\ proc[p].phase = "launched" /\ Fails(p)
          /\ UNCHANGED <<call, closer, rootDone, timedOut>>
      BY <1>2 DEF ListenFails
    <2> QED BY <2>1, FailsFrame
  <1>3. CASE TLSFails(p)
    <2>1. /\ proc[p].phase = "bound" /\ Fails(p)
          /\ UNCHANGED <<call, closer, rootDone, timedOut>>
      BY <1>3 DEF TLSFails
    <2> QED BY <2>1, FailsFrame
  <1>4. CASE Ready(p)
    BY <1>4 DEF Ready, SetPhase
  <1>5. CASE CloseListener(p)
    BY <1>5 DEF CloseListener
  <1>6. CASE Accept(p)
    BY <1>6, ManagerAssumption DEF Accept
  <1>7. CASE ClientDone(p)
    BY <1>7, ManagerAssumption DEF ClientDone
  <1>8. CASE AcceptFails(p)
    <2>1. PICK r \in Results :
             proc' = [proc EXCEPT ![p].phase = "draining", ![p].result = r]
      BY <1>8 DEF AcceptFails
    <2>2. /\ proc[p].phase = "serving"
          /\ UNCHANGED <<call, closer, rootDone, timedOut>>
      BY <1>8 DEF AcceptFails
    <2>3. QED
      BY <2>1, <2>2
  <1>9. CASE Drained(p)
    BY <1>9 DEF Drained, SetPhase
  <1>10. CASE RunReturn(p)
    BY <1>10 DEF RunReturn, SetPhase
  <1>11. QED
    BY <1>1, <1>2, <1>3, <1>4, <1>5, <1>6, <1>7, <1>8, <1>9, <1>10,
       RunStep(p) DEF RunStep

(* The changes of phase the steps of a process make. *)
PhaseSteps ==
    {<<"launched", "bound">>, <<"launched", "returned">>,
     <<"bound", "returned">>, <<"bound", "serving">>,
     <<"serving", "draining">>, <<"draining", "returned">>,
     <<"returned", "done">>}

(* A process moves along its phases; only Ready makes it serve. *)
LEMMA RunStepPhase ==
    ASSUME TypeOK, NEW p \in Procs, RunStep(p)
    PROVE  \/ proc'[p].phase = proc[p].phase
           \/ <<proc[p].phase, proc'[p].phase>> \in PhaseSteps
  <1> USE DEF TypeOK, Process, PhaseSteps, SetPhase, Fails
  <1>1. CASE Listen(p)
    BY <1>1 DEF Listen
  <1>2. CASE ListenFails(p)
    BY <1>2 DEF ListenFails
  <1>3. CASE TLSFails(p)
    BY <1>3 DEF TLSFails
  <1>4. CASE Ready(p)
    BY <1>4 DEF Ready
  <1>5. CASE CloseListener(p) \/ Accept(p) \/ ClientDone(p)
    BY <1>5 DEF CloseListener, Accept, ClientDone
  <1>6. CASE AcceptFails(p)
    BY <1>6 DEF AcceptFails
  <1>7. CASE Drained(p)
    BY <1>7 DEF Drained
  <1>8. CASE RunReturn(p)
    BY <1>8 DEF RunReturn
  <1>9. QED
    BY <1>1, <1>2, <1>3, <1>4, <1>5, <1>6, <1>7, <1>8, RunStep(p) DEF RunStep

(* Only Ready takes a process from bound to serving. *)
LEMMA NotReadyNotServing ==
    ASSUME TypeOK, NEW p \in Procs, RunStep(p), ~Ready(p),
           proc[p].phase = "bound"
    PROVE  proc'[p].phase # "serving"
  <1> USE DEF TypeOK, Process, SetPhase, Fails
  <1>1. ~Listen(p) /\ ~ListenFails(p)
    BY DEF Listen, ListenFails
  <1>2. ~CloseListener(p) /\ ~Accept(p) /\ ~AcceptFails(p)
    BY DEF CloseListener, Accept, AcceptFails
  <1>3. ~Drained(p) /\ ~RunReturn(p)
    BY DEF Drained, RunReturn
  <1>4. CASE TLSFails(p)
    BY <1>4 DEF TLSFails
  <1>5. CASE ClientDone(p)
    BY <1>5 DEF ClientDone
  <1>6. QED
    BY <1>1, <1>2, <1>3, <1>4, <1>5, RunStep(p) DEF RunStep

(***************************************************************************)
(* A step of process p writes the status and the entry of its upstream     *)
(* only while it is the current one.                                       *)
(***************************************************************************)
LEMMA RunStepWrites ==
    ASSUME TypeOK, NEW p \in Procs, RunStep(p)
    PROVE  /\ statuses' \in [Ids -> Status]
           /\ running' \in [Ids -> Procs \cup {None}]
           /\ \/ UNCHANGED <<running, statuses>>
              \/ /\ Current(p) /\ UNCHANGED running
                 /\ statuses' = [statuses EXCEPT ![p[1]] =
                                   [state |-> "running", by |-> p]]
                 /\ proc[p].phase = "bound" /\ proc'[p].phase = "serving"
              \/ /\ Current(p)
                 /\ running' = [running EXCEPT ![p[1]] = None]
                 /\ statuses' = [statuses EXCEPT ![p[1]] =
                                   [state |-> "error", by |-> p]]
                 /\ proc[p].phase = "returned" /\ proc'[p].phase = "done"
  <1> USE ProcPairs DEF TypeOK, Status
  <1>1. CASE Ready(p)
    BY <1>1 DEF Ready, SetPhase
  <1>2. CASE RunReturn(p)
    <2>1. proc[p].phase = "returned" /\ proc'[p].phase = "done"
      BY <1>2 DEF RunReturn, SetPhase, Process
    <2>2. CASE proc[p].result = "error" /\ Current(p)
      <3>1. /\ running' = [running EXCEPT ![p[1]] = None]
            /\ statuses' = [statuses EXCEPT ![p[1]] =
                               [state |-> "error", by |-> p]]
        BY <1>2, <2>2 DEF RunReturn
      <3>2. [state |-> "error", by |-> p] \in Status
        OBVIOUS
      <3>3. /\ statuses' \in [Ids -> Status]
            /\ running' \in [Ids -> Procs \cup {None}]
        BY <3>1, <3>2
      <3>4. QED
        BY <2>1, <2>2, <3>1, <3>3
    <2>3. CASE ~(proc[p].result = "error" /\ Current(p))
      BY <1>2, <2>3 DEF RunReturn
    <2>4. QED
      BY <2>2, <2>3
  <1>3. CASE UNCHANGED <<running, statuses>>
    BY <1>3
  <1>4. QED
    BY <1>1, <1>2, <1>3, RunStep(p)
    DEF RunStep, Listen, ListenFails, TLSFails, CloseListener, Accept,
        ClientDone, AcceptFails, Drained

(* The sockets stay owned by processes. *)
LEMMA RunStepBound ==
    ASSUME TypeOK, NEW p \in Procs, RunStep(p)
    PROVE  bound' \in [Addrs -> Procs \cup {None}]
  <1> USE DEF TypeOK
  <1>1. CASE Listen(p)
    BY <1>1 DEF Listen
  <1>2. CASE bound' = bound
    BY <1>2
  <1>3. CASE Release(p)
    BY <1>3 DEF Release
  <1>4. QED
    BY <1>1, <1>2, <1>3, RunStep(p)
    DEF RunStep, Ready, ListenFails, TLSFails, CloseListener, Accept,
        ClientDone, AcceptFails, Drained, RunReturn

-----------------------------------------------------------------------------
(***************************************************************************)
(* Type correctness                                                        *)
(***************************************************************************)

(* The processes that Apply and Close stop are processes. *)
LEMMA StoppedProcs ==
    ASSUME TypeOK, NEW S \in SUBSET {i \in Ids : running[i] # None}
    PROVE  {running[i] : i \in S} \in SUBSET Procs
BY DEF TypeOK

(* Every step of the manager preserves the types. *)
LEMMA TypeStep == TypeOK /\ [Next]_vars => TypeOK'
  <1> SUFFICES ASSUME TypeOK, [Next]_vars PROVE TypeOK'
    OBVIOUS
  <1>1. ASSUME NEW k \in Calls, NEW items \in Requests, ApplyStop(k, items)
        PROVE  TypeOK'
    <2> DEFINE stopped == {running[i] : i \in Outdated(items)}
    <2>1. stopped \in SUBSET Procs
      BY StoppedProcs DEF Outdated
    <2>2. proc' = Cancel(stopped)
      BY <1>1 DEF ApplyStop
    <2>3. proc' \in [Procs -> Process]
      BY <2>1, <2>2, CancelType DEF TypeOK
    <2>4. running' \in [Ids -> Procs \cup {None}]
      BY <1>1 DEF ApplyStop, TypeOK
    <2>5. statuses' \in [Ids -> Status]
      BY <1>1 DEF ApplyStop, TypeOK, Status, NoStatus
    <2>6. items \in ItemMaps
      BY ManagerAssumption
    <2>7. call' \in [Calls -> Call]
      BY <1>1, <2>1, <2>6 DEF ApplyStop, TypeOK, Call
    <2>8. QED
      BY <1>1, <2>3, <2>4, <2>5, <2>7 DEF ApplyStop, TypeOK
  <1>2. ASSUME NEW k \in Calls, ApplyWaitDone(k) \/ ApplyWaitTimeout(k)
        PROVE  TypeOK'
    BY <1>2 DEF ApplyWaitDone, ApplyWaitTimeout, TypeOK, Call
  <1>3. ASSUME NEW k \in Calls, ApplyStart(k)
        PROVE  TypeOK'
    <2>1. call[k].items \in [Ids -> Config \cup {None}]
      BY DEF TypeOK, Call, ItemMaps
    <2>2. \A i \in ToStart(k) : Launched(k, i) \in Process
      BY <2>1, ManagerAssumption
      DEF Launched, ToStart, Enabled, Process, Phases, Results, TypeOK
    <2>3. proc' \in [Procs -> Process]
      BY <1>3, <2>2 DEF ApplyStart, TypeOK
    <2>4. running' \in [Ids -> Procs \cup {None}]
      BY <1>3, ProcPairs DEF ApplyStart, TypeOK
    <2>5. \A i \in Ids : StatusAfter(k, i) \in Status
      BY ProcPairs DEF StatusAfter, Status, TypeOK
    <2>6. call' \in [Calls -> Call]
      BY <1>3 DEF ApplyStart, TypeOK, Call
    <2>7. QED
      BY <1>3, <2>1, <2>3, <2>4, <2>5, <2>6 DEF ApplyStart, TypeOK, ItemMaps
  <1>4. CASE CloseStop
    <2> DEFINE stopped == {running[i] : i \in {j \in Ids : running[j] # None}}
    <2>1. stopped \in SUBSET Procs
      BY StoppedProcs
    <2>2. proc' \in [Procs -> Process]
      BY <1>4, <2>1, CancelType DEF CloseStop, TypeOK
    <2>3. closer' \in Closer
      BY <1>4, <2>1 DEF CloseStop, Closer
    <2>4. QED
      BY <1>4, <2>2, <2>3 DEF CloseStop, TypeOK
  <1>5. CASE CloseWait \/ CloseReturn
    BY <1>5 DEF CloseWait, CloseReturn, TypeOK, Closer
  <1>6. CASE RootCancel
    <2>1. {p \in Procs : proc[p].phase # "unused"} \in SUBSET Procs
      OBVIOUS
    <2>2. proc' \in [Procs -> Process]
      BY <1>6, <2>1, CancelType DEF RootCancel, TypeOK
    <2>3. QED
      BY <1>6, <2>2 DEF RootCancel, TypeOK
  <1>7. ASSUME NEW p \in Procs, RunStep(p)
        PROVE  TypeOK'
    BY <1>7, RunStepFrame, RunStepWrites, RunStepBound DEF TypeOK
  <1>8. CASE UNCHANGED vars
    BY <1>8 DEF vars, TypeOK
  <1>9. QED
    BY <1>1, <1>2, <1>3, <1>4, <1>5, <1>6, <1>7, <1>8
    DEF Next, ApplyStep, CloseStep

(* In every behaviour of the manager, every variable keeps its type. *)
THEOREM TypeCorrect == Spec => []TypeOK
BY TypeInit, TypeStep, PTL DEF Spec
-----------------------------------------------------------------------------
(***************************************************************************)
(* The data of the processes                                               *)
(***************************************************************************)

(* The new process of a starting upstream replaces one that never existed. *)
LEMMA BaseStep == Base /\ [Next]_vars => Base'
  <1> SUFFICES ASSUME Base, [Next]_vars PROVE Base'
    OBVIOUS
  <1> USE DEF Base
  <1>0. TypeOK /\ TypeOK'
    BY TypeStep
  <1>1. ASSUME NEW k \in Calls, NEW items \in Requests, ApplyStop(k, items)
        PROVE  Base'
    <2> DEFINE stopped == {running[i] : i \in Outdated(items)}
    <2>1. stopped \in SUBSET Procs
      BY StoppedProcs DEF Outdated
    <2>2. \A p \in Procs : /\ proc'[p].phase = proc[p].phase
                           /\ proc'[p].config = proc[p].config
      BY <1>1, <2>1, CancelType DEF ApplyStop, TypeOK
    <2>3. \A j \in Calls : call'[j].pc = "returned" <=> call[j].pc = "returned"
      BY <1>1, <1>0 DEF ApplyStop, TypeOK
    <2>4. \A i \in Ids : running'[i] # None => running'[i] = running[i]
      BY <1>1 DEF ApplyStop
    <2>5. \A i \in Ids : running[i] # None => running[i] \in Procs
      BY DEF TypeOK
    <2>6. QED
      BY <1>0, <2>2, <2>3, <2>4, <2>5, ProcPairs
      DEF Fresh, Configured, RunningExists
  <1>2. ASSUME NEW k \in Calls, ApplyWaitDone(k) \/ ApplyWaitTimeout(k)
        PROVE  Base'
    <2>1. \A j \in Calls : call'[j].pc = call[j].pc
      BY <1>2 DEF ApplyWaitDone, ApplyWaitTimeout, TypeOK, Call
    <2>2. UNCHANGED <<running, proc>>
      BY <1>2 DEF ApplyWaitDone, ApplyWaitTimeout
    <2>3. QED
      BY <1>0, <2>1, <2>2, ProcPairs DEF Fresh, Configured, RunningExists
  <1>3. ASSUME NEW k \in Calls, ApplyStart(k)
        PROVE  Base'
    <2>1. \A p \in Procs : p[1] \in ToStart(k) /\ p[2] = k =>
             /\ proc'[p].phase = "launched"
             /\ proc'[p].config = call[k].items[p[1]]
      BY <1>3 DEF ApplyStart, Launched
    <2>2. \A p \in Procs : ~(p[1] \in ToStart(k) /\ p[2] = k)
                              => proc'[p] = proc[p]
      BY <1>3 DEF ApplyStart
    <2>3. \A i \in ToStart(k) : call[k].items[i] \in Config
      BY DEF ToStart, Enabled, TypeOK, Call, ItemMaps
    <2>4. Configured'
      BY <2>1, <2>2, <2>3 DEF Configured
    <2>5. \A j \in Calls : j # k => call'[j] = call[j]
      BY <1>3 DEF ApplyStart, TypeOK
    <2>6. call'[k].pc = "returned"
      BY <1>3 DEF ApplyStart, TypeOK, Call
    <2>7. Fresh'
      BY <2>2, <2>5, <2>6, ProcPairs DEF Fresh
    <2>8. \A i \in Ids : i \in ToStart(k) => running'[i] = <<i, k>>
      BY <1>3 DEF ApplyStart
    <2>9. \A i \in Ids : i \notin ToStart(k) => running'[i] = running[i]
      BY <1>3 DEF ApplyStart
    <2>10. \A i \in Ids : running[i] # None => running[i] \in Procs
      BY DEF TypeOK
    <2>11. RunningExists'
      <3> SUFFICES ASSUME NEW i \in Ids, running'[i] # None
                   PROVE  /\ running'[i][1] = i
                          /\ proc'[running'[i]].phase # "unused"
        BY DEF RunningExists
      <3>1. CASE i \in ToStart(k)
        <4>1. <<i, k>> \in Procs
          BY ProcPairs
        <4>2. proc'[<<i, k>>].phase = "launched"
          BY <3>1, <4>1, <2>1
        <4>3. QED
          BY <3>1, <4>2, <2>8
      <3>2. CASE i \notin ToStart(k)
        <4>1. running[i] \in Procs /\ running[i][1] = i
          BY <3>2, <2>9, <2>10 DEF RunningExists
        <4>2. proc'[running[i]] = proc[running[i]]
          BY <3>2, <4>1, <2>2
        <4>3. QED
          BY <3>2, <4>1, <4>2, <2>9 DEF RunningExists
      <3>3. QED
        BY <3>1, <3>2
    <2>12. QED
      BY <1>0, <2>4, <2>7, <2>11
  <1>4. CASE CloseStop
    <2>1. {running[i] : i \in {j \in Ids : running[j] # None}} \in SUBSET Procs
      BY StoppedProcs
    <2>2. \A p \in Procs : /\ proc'[p].phase = proc[p].phase
                           /\ proc'[p].config = proc[p].config
      BY <1>4, <2>1, CancelType DEF CloseStop, TypeOK
    <2>3. call' = call /\ \A i \in Ids : running'[i] = None
      BY <1>4 DEF CloseStop
    <2>4. QED
      BY <1>0, <2>2, <2>3 DEF Fresh, Configured, RunningExists
  <1>5. CASE CloseWait \/ CloseReturn
    <2>1. UNCHANGED <<running, proc, call>>
      BY <1>5 DEF CloseWait, CloseReturn
    <2>2. QED
      BY <1>0, <2>1 DEF Fresh, Configured, RunningExists
  <1>6. CASE RootCancel
    <2>1. {p \in Procs : proc[p].phase # "unused"} \in SUBSET Procs
      OBVIOUS
    <2>2. \A p \in Procs : /\ proc'[p].phase = proc[p].phase
                           /\ proc'[p].config = proc[p].config
      BY <1>6, <2>1, CancelType DEF RootCancel, TypeOK
    <2>3. UNCHANGED <<running, call>>
      BY <1>6 DEF RootCancel
    <2>4. \A i \in Ids : running[i] # None => running[i] \in Procs
      BY DEF TypeOK
    <2>5. QED
      BY <1>0, <2>2, <2>3, <2>4 DEF Fresh, Configured, RunningExists
  <1>7. ASSUME NEW p \in Procs, RunStep(p)
        PROVE  Base'
    <2>1. \A q \in Procs :
             /\ proc'[q].config = proc[q].config
             /\ proc[q].phase = "unused" <=> proc'[q].phase = "unused"
      BY <1>7, RunStepFrame
    <2>2. call' = call
      BY <1>7, RunStepFrame
    <2>3. \A i \in Ids : running'[i] # None => running'[i] = running[i]
      BY <1>7, RunStepWrites, ProcPairs DEF TypeOK
    <2>4. \A i \in Ids : running[i] # None => running[i] \in Procs
      BY DEF TypeOK
    <2>5. QED
      BY <1>0, <2>1, <2>2, <2>3, <2>4 DEF Fresh, Configured, RunningExists
  <1>8. CASE UNCHANGED vars
    BY <1>0, <1>8 DEF vars, Fresh, Configured, RunningExists
  <1>9. QED
    BY <1>1, <1>2, <1>3, <1>4, <1>5, <1>6, <1>7, <1>8
    DEF Next, ApplyStep, CloseStep

(* The data invariant holds in every behaviour. *)
LEMMA BaseHolds == Spec => []Base
  <1>1. Init => Base
    BY TypeInit DEF Init, Base, Fresh, Configured, RunningExists, Unused
  <1>2. QED
    BY <1>1, BaseStep, PTL DEF Spec
-----------------------------------------------------------------------------
(***************************************************************************)
(* No orphan                                                               *)
(***************************************************************************)

(* What ApplyStart changes, upstream by upstream and process by process. *)
LEMMA StartFrame ==
    ASSUME Base, NEW k \in Calls, ApplyStart(k)
    PROVE  /\ \A i \in Ids : /\ i \in ToStart(k) => /\ running[i] = None
                                                   /\ running'[i] = <<i, k>>
                             /\ i \notin ToStart(k) => running'[i] = running[i]
           /\ \A p \in Procs :
                 \/ /\ p[1] \in ToStart(k) /\ p = <<p[1], k>>
                    /\ proc[p].phase = "unused"
                    /\ proc'[p] = Launched(k, p[1])
                 \/ /\ ~(p[1] \in ToStart(k) /\ p[2] = k)
                    /\ proc'[p] = proc[p]
  <1>1. \A p \in Procs : p[2] = k => proc[p].phase = "unused"
    BY DEF ApplyStart, Base, Fresh
  <1>2. QED
    BY <1>1, ProcPairs DEF ApplyStart, ToStart

(* Every step preserves NoOrphan. *)
LEMMA NoOrphanStep == Base /\ NoOrphan /\ [Next]_vars => NoOrphan'
  <1> SUFFICES ASSUME Base, NoOrphan, [Next]_vars,
                      NEW p \in Procs, Alive(p)', ~proc'[p].cancelled
               PROVE  running'[p[1]] = p
    BY DEF NoOrphan, Current
  <1>0. TypeOK /\ p[1] \in Ids /\ p # None
    BY ProcPairs, ManagerAssumption DEF Base
  <1>1. ASSUME NEW k \in Calls, NEW items \in Requests, ApplyStop(k, items)
        PROVE  running'[p[1]] = p
    <2> DEFINE stopped == {running[i] : i \in Outdated(items)}
    <2>1. stopped \in SUBSET Procs
      BY <1>0, StoppedProcs DEF Outdated
    <2>2. proc' = Cancel(stopped)
      BY <1>1 DEF ApplyStop
    <2>3. p \notin stopped /\ proc'[p] = proc[p]
      BY <1>0, <2>1, <2>2, CancelType DEF TypeOK
    <2>4. running[p[1]] = p
      BY <2>3 DEF NoOrphan, Alive, Current
    <2>5. p[1] \notin Outdated(items)
      BY <2>3, <2>4
    <2>6. QED
      BY <1>0, <1>1, <2>4, <2>5 DEF ApplyStop
  <1>2. ASSUME NEW k \in Calls, ApplyWaitDone(k) \/ ApplyWaitTimeout(k)
        PROVE  running'[p[1]] = p
    BY <1>2 DEF ApplyWaitDone, ApplyWaitTimeout, NoOrphan, Alive, Current
  <1>3. ASSUME NEW k \in Calls, ApplyStart(k)
        PROVE  running'[p[1]] = p
    <2>1. CASE p[1] \in ToStart(k) /\ p = <<p[1], k>>
      BY <1>0, <1>3, <2>1, StartFrame
    <2>2. CASE proc'[p] = proc[p]
      <3>1. running[p[1]] = p
        BY <2>2 DEF NoOrphan, Alive, Current
      <3>2. QED
        BY <1>0, <1>3, <3>1, StartFrame
    <2>3. QED
      BY <1>3, <2>1, <2>2, StartFrame
  <1>4. CASE CloseStop
    <2> DEFINE stopped == {running[i] : i \in {j \in Ids : running[j] # None}}
    <2>1. stopped \in SUBSET Procs
      BY <1>0, StoppedProcs
    <2>2. proc' = Cancel(stopped)
      BY <1>4 DEF CloseStop
    <2>3. p \notin stopped /\ proc'[p] = proc[p]
      BY <1>0, <2>1, <2>2, CancelType DEF TypeOK
    <2>4. running[p[1]] = p
      BY <2>3 DEF NoOrphan, Alive, Current
    <2>5. QED
      BY <1>0, <2>3, <2>4
  <1>5. CASE CloseWait \/ CloseReturn
    BY <1>5 DEF CloseWait, CloseReturn, NoOrphan, Alive, Current
  <1>6. CASE RootCancel
    <2> DEFINE started == {q \in Procs : proc[q].phase # "unused"}
    <2>1. started \in SUBSET Procs /\ proc' = Cancel(started)
      BY <1>6 DEF RootCancel
    <2>2. p \notin started
      BY <1>0, <2>1, CancelType DEF TypeOK
    <2>3. proc'[p] = proc[p]
      BY <1>0, <2>1, <2>2, CancelType DEF TypeOK
    <2>4. QED
      BY <2>2, <2>3 DEF Alive
  <1>7. ASSUME NEW q \in Procs, RunStep(q)
        PROVE  running'[p[1]] = p
    <2>1. Alive(p) /\ ~proc[p].cancelled
      <3>1. CASE p = q
        <4>1. proc[p].phase # "unused" /\ ~proc[p].cancelled
          BY <1>0, <1>7, <3>1, RunStepFrame DEF Alive
        <4>2. proc[p].phase # "done"
          BY <1>0, <1>7, <3>1, RunStepPhase DEF Alive, PhaseSteps
        <4>3. QED
          BY <4>1, <4>2 DEF Alive
      <3>2. CASE p # q
        BY <1>0, <1>7, <3>2, RunStepFrame DEF Alive
      <3>3. QED
        BY <3>1, <3>2
    <2>2. running[p[1]] = p
      BY <2>1 DEF NoOrphan, Current
    <2>3. CASE UNCHANGED running
      BY <2>2, <2>3
    <2>4. CASE /\ Current(q) /\ running' = [running EXCEPT ![q[1]] = None]
               /\ proc'[q].phase = "done"
      <3>1. q # p
        BY <2>4 DEF Alive
      <3>2. q[1] # p[1]
        BY <2>2, <2>4, <3>1 DEF Current
      <3>3. QED
        BY <2>2, <2>4, <3>2
    <2>5. QED
      BY <1>0, <1>7, <2>3, <2>4, RunStepWrites
  <1>8. CASE UNCHANGED vars
    BY <1>8 DEF vars, NoOrphan, Alive, Current
  <1>9. QED
    BY <1>1, <1>2, <1>3, <1>4, <1>5, <1>6, <1>7, <1>8
    DEF Next, ApplyStep, CloseStep

(***************************************************************************)
(* However calls of Apply, Close and failing processes interleave, a       *)
(* process that is alive and not cancelled is the manager's entry for its  *)
(* upstream (manager.go: Apply, run, Close).                               *)
(***************************************************************************)
THEOREM NoListenerEscapes == Spec => []NoOrphan
  <1>1. Init => NoOrphan
    BY DEF Init, NoOrphan, Alive, Unused
  <1>2. QED
    BY <1>1, BaseHolds, NoOrphanStep, PTL DEF Spec
-----------------------------------------------------------------------------
(***************************************************************************)
(* Statuses tell of the current process                                    *)
(***************************************************************************)

(* What StatusOfCurrent says of process p of upstream i with status st. *)
Tells(st, p, phase) ==
    /\ st.by = p
    /\ st.state \in {"starting", "running"}
    /\ phase \in {"launched", "bound"} => st.state = "starting"
    /\ phase \in {"serving", "draining"} => st.state = "running"

(* With RunningExists, StatusOfCurrent is Tells of every running upstream. *)
LEMMA StatusTells ==
    ASSUME RunningExists
    PROVE  StatusOfCurrent <=>
             \A i \in Ids : running[i] # None =>
                Tells(statuses[i], running[i], proc[running[i]].phase)
BY DEF StatusOfCurrent, Tells, RunningExists

(* The same of the next state. *)
LEMMA StatusTellsNext ==
    ASSUME RunningExists'
    PROVE  StatusOfCurrent' <=>
             \A i \in Ids : running'[i] # None =>
                Tells(statuses'[i], running'[i], proc'[running'[i]].phase)
BY DEF StatusOfCurrent, Tells, RunningExists

(* Every step preserves StatusOfCurrent. *)
LEMMA StatusStep ==
    Base /\ StatusOfCurrent /\ [Next]_vars => StatusOfCurrent'
  <1> SUFFICES ASSUME Base, StatusOfCurrent, [Next]_vars,
                      NEW i \in Ids, running'[i] # None
               PROVE  Tells(statuses'[i], running'[i],
                            proc'[running'[i]].phase)
    BY BaseStep, StatusTellsNext DEF Base
  <1> DEFINE Goal == Tells(statuses'[i], running'[i], proc'[running'[i]].phase)
  <1>0. TypeOK
    BY DEF Base
  <1>a. running[i] # None =>
           /\ running[i] \in Procs /\ running[i][1] = i
           /\ proc[running[i]].config \in Config
           /\ Tells(statuses[i], running[i], proc[running[i]].phase)
    <2>1. running[i] # None => running[i] \in Procs
      BY <1>0 DEF TypeOK
    <2>2. running[i] # None => /\ running[i][1] = i
                               /\ proc[running[i]].phase # "unused"
      BY DEF Base, RunningExists
    <2>3. QED
      BY <2>1, <2>2, StatusTells DEF Base, Configured
  <1>1. ASSUME NEW k \in Calls, NEW items \in Requests, ApplyStop(k, items)
        PROVE  Goal
    <2> DEFINE stopped == {running[j] : j \in Outdated(items)}
    <2>1. stopped \in SUBSET Procs
      BY <1>0, StoppedProcs DEF Outdated
    <2>2. i \notin Outdated(items) /\ running'[i] = running[i]
      BY <1>1 DEF ApplyStop
    <2>3. items[i] = proc[running[i]].config
      BY <2>2 DEF Outdated
    <2>4. items[i] # None
      BY <1>a, <2>2, <2>3, ProcPairs
    <2>5. statuses'[i] = statuses[i]
      BY <1>1, <2>4 DEF ApplyStop
    <2>6. proc'[running[i]].phase = proc[running[i]].phase
      BY <1>0, <1>1, <1>a, <2>1, <2>2, CancelType DEF ApplyStop, TypeOK
    <2>7. QED
      BY <1>a, <2>2, <2>5, <2>6
  <1>2. ASSUME NEW k \in Calls, ApplyWaitDone(k) \/ ApplyWaitTimeout(k)
        PROVE  Goal
    BY <1>2, <1>a DEF ApplyWaitDone, ApplyWaitTimeout
  <1>3. ASSUME NEW k \in Calls, ApplyStart(k)
        PROVE  Goal
    <2>1. statuses'[i] = StatusAfter(k, i)
      BY <1>3 DEF ApplyStart
    <2>2. CASE i \in ToStart(k)
      <3>1. running[i] = None /\ running'[i] = <<i, k>>
        BY <1>3, <2>2, StartFrame
      <3>2. call[k].items[i] # None
        BY <2>2 DEF ToStart, Enabled
      <3>3. statuses'[i] = [state |-> "starting", by |-> <<i, k>>]
        BY <2>1, <2>2, <3>1, <3>2 DEF StatusAfter
      <3>4. <<i, k>> \in Procs /\ <<i, k>>[1] = i /\ <<i, k>>[2] = k
        BY ProcPairs
      <3>5. proc'[<<i, k>>] = Launched(k, i)
        BY <1>3, <2>2, <3>4, StartFrame
      <3>6. proc'[<<i, k>>].phase = "launched"
        BY <3>5 DEF Launched
      <3>7. QED
        BY <3>1, <3>3, <3>6 DEF Tells
    <2>3. CASE i \notin ToStart(k)
      <3>1. running'[i] = running[i]
        BY <1>3, <2>3, StartFrame
      <3>2. statuses'[i] = statuses[i]
        BY <2>1, <2>3, <3>1 DEF StatusAfter
      <3>3. proc'[running[i]] = proc[running[i]]
        BY <1>3, <1>a, <2>3, <3>1, StartFrame
      <3>4. QED
        BY <1>a, <3>1, <3>2, <3>3
    <2>4. QED
      BY <2>2, <2>3
  <1>4. CASE CloseStop
    BY <1>4 DEF CloseStop
  <1>5. CASE CloseWait \/ CloseReturn
    BY <1>5, <1>a DEF CloseWait, CloseReturn
  <1>6. CASE RootCancel
    <2>1. running' = running /\ statuses' = statuses
      BY <1>6 DEF RootCancel
    <2>2. {q \in Procs : proc[q].phase # "unused"} \in SUBSET Procs
      OBVIOUS
    <2>3. proc'[running[i]].phase = proc[running[i]].phase
      BY <1>0, <1>6, <1>a, <2>1, <2>2, CancelType DEF RootCancel, TypeOK
    <2>4. QED
      BY <1>a, <2>1, <2>3
  <1>7. ASSUME NEW q \in Procs, RunStep(q)
        PROVE  Goal
    <2>1. running'[i] = running[i]
      BY <1>0, <1>7, RunStepWrites, ProcPairs DEF TypeOK
    <2>2. CASE running[i] # q
      <3>1. proc'[running[i]] = proc[running[i]]
        BY <1>0, <1>7, <1>a, <2>1, <2>2, RunStepFrame
      <3>2. Current(q) => q[1] # i
        BY <2>2 DEF Current
      <3>3. statuses'[i] = statuses[i]
        BY <1>0, <1>7, <3>2, RunStepWrites DEF TypeOK
      <3>4. QED
        BY <1>a, <2>1, <3>1, <3>3
    <2>3. CASE running[i] = q
      <3>1. q[1] = i /\ Current(q)
        BY <1>a, <2>1, <2>3 DEF Current
      <3>2. CASE Ready(q)
        <4>1. proc'[q].phase = "serving"
          BY <1>0, <3>2 DEF Ready, SetPhase, TypeOK, Process
        <4>2. statuses'[i] = [state |-> "running", by |-> q]
          BY <1>0, <3>1, <3>2 DEF Ready, TypeOK
        <4>3. QED
          BY <2>1, <2>3, <4>1, <4>2 DEF Tells
      <3>3. CASE UNCHANGED <<running, statuses>> /\ ~Ready(q)
        <4>1. ~(proc[q].phase = "bound" /\ proc'[q].phase = "serving")
          BY <1>0, <1>7, <3>3, NotReadyNotServing
        <4>2. Tells(statuses[i], q, proc[q].phase)
          BY <1>a, <2>1, <2>3
        <4>3. \/ proc'[q].phase = proc[q].phase
              \/ <<proc[q].phase, proc'[q].phase>> \in PhaseSteps
          BY <1>0, <1>7, RunStepPhase
        <4>4. Tells(statuses[i], q, proc'[q].phase)
          BY <4>1, <4>2, <4>3 DEF PhaseSteps, Tells
        <4>5. QED
          BY <2>1, <2>3, <3>3, <4>4
      <3>4. CASE running' = [running EXCEPT ![q[1]] = None]
        BY <1>0, <3>1, <3>4 DEF TypeOK
      <3>5. CASE proc[q].phase = "bound" /\ proc'[q].phase = "serving"
        BY <1>0, <1>7, <3>2, <3>5, NotReadyNotServing
      <3>6. QED
        BY <1>0, <1>7, <3>2, <3>3, <3>4, <3>5, RunStepWrites
    <2>4. QED
      BY <2>2, <2>3
  <1>8. CASE UNCHANGED vars
    BY <1>8, <1>a DEF vars
  <1>9. QED
    BY <1>1, <1>2, <1>3, <1>4, <1>5, <1>6, <1>7, <1>8
    DEF Next, ApplyStep, CloseStep

(***************************************************************************)
(* The status of a running upstream is its current process's, never that   *)
(* of a process it replaced (the done-channel check of manager.run).       *)
(***************************************************************************)
THEOREM StatusIsOfCurrent == Spec => []StatusOfCurrent
  <1>1. Init => StatusOfCurrent
    BY DEF Init, StatusOfCurrent
  <1>2. QED
    BY <1>1, BaseHolds, StatusStep, PTL DEF Spec

-----------------------------------------------------------------------------
(***************************************************************************)
(* Ports                                                                   *)
(***************************************************************************)

(* A step of process p changes only its own socket, and frees it to return. *)
LEMMA RunStepSocket ==
    ASSUME TypeOK, NoPortLeak, NEW p \in Procs, RunStep(p), NEW a \in Addrs,
           bound'[a] # None
    PROVE  \/ /\ bound[a] = bound'[a]
              /\ bound[a] = p =>
                    proc'[p].phase \in {"bound", "serving", "draining"}
           \/ /\ bound'[a] = p /\ proc[p].config.addr = a
              /\ proc'[p].phase = "bound"
  <1> USE DEF TypeOK, Process, SetPhase, Fails, Release
  <1>0. bound[a] = p => proc[p].phase \in {"bound", "serving", "draining"}
    BY ProcPairs, ManagerAssumption DEF NoPortLeak
  <1>1. CASE Listen(p)
    BY <1>1, ManagerAssumption DEF Listen
  <1>2. CASE ListenFails(p)
    BY <1>0, <1>2 DEF ListenFails
  <1>3. CASE TLSFails(p)
    BY <1>3 DEF TLSFails
  <1>4. CASE Ready(p)
    BY <1>0, <1>4 DEF Ready
  <1>5. CASE CloseListener(p)
    BY <1>0, <1>5 DEF CloseListener
  <1>6. CASE Accept(p) \/ ClientDone(p)
    BY <1>0, <1>6 DEF Accept, ClientDone
  <1>7. CASE AcceptFails(p)
    BY <1>0, <1>7 DEF AcceptFails
  <1>8. CASE Drained(p)
    BY <1>8 DEF Drained
  <1>9. CASE RunReturn(p)
    BY <1>0, <1>9 DEF RunReturn
  <1>10. QED
    BY <1>1, <1>2, <1>3, <1>4, <1>5, <1>6, <1>7, <1>8, <1>9, RunStep(p)
    DEF RunStep

(* Every step preserves NoPortLeak. *)
LEMMA PortStep == Base /\ NoPortLeak /\ [Next]_vars => NoPortLeak'
  <1> SUFFICES ASSUME Base, NoPortLeak, [Next]_vars,
                      NEW a \in Addrs, bound'[a] # None
               PROVE  /\ proc'[bound'[a]].phase
                            \in {"bound", "serving", "draining"}
                      /\ proc'[bound'[a]].config.addr = a
    BY DEF NoPortLeak
  <1> DEFINE Goal == /\ proc'[bound'[a]].phase
                          \in {"bound", "serving", "draining"}
                     /\ proc'[bound'[a]].config.addr = a
  <1>0. TypeOK
    BY DEF Base
  <1>a. bound[a] # None =>
           /\ bound[a] \in Procs
           /\ proc[bound[a]].phase \in {"bound", "serving", "draining"}
           /\ proc[bound[a]].config.addr = a
    BY <1>0 DEF NoPortLeak, TypeOK
  <1>b. ASSUME bound' = bound,
               \A p \in Procs : /\ proc'[p].phase = proc[p].phase
                                /\ proc'[p].config = proc[p].config
        PROVE  Goal
    BY <1>a, <1>b
  <1>1. ASSUME NEW k \in Calls, NEW items \in Requests, ApplyStop(k, items)
        PROVE  Goal
    <2>1. {running[j] : j \in Outdated(items)} \in SUBSET Procs
      BY <1>0, StoppedProcs DEF Outdated
    <2>2. QED
      BY <1>0, <1>1, <1>b, <2>1, CancelType DEF ApplyStop, TypeOK
  <1>2. ASSUME NEW k \in Calls, ApplyWaitDone(k) \/ ApplyWaitTimeout(k)
        PROVE  Goal
    BY <1>2, <1>a DEF ApplyWaitDone, ApplyWaitTimeout
  <1>3. ASSUME NEW k \in Calls, ApplyStart(k)
        PROVE  Goal
    <2>1. bound' = bound
      BY <1>3 DEF ApplyStart
    <2>2. proc'[bound[a]] = proc[bound[a]]
      BY <1>3, <1>a, <2>1, StartFrame
    <2>3. QED
      BY <1>a, <2>1, <2>2
  <1>4. CASE CloseStop
    <2>1. {running[i] : i \in {j \in Ids : running[j] # None}} \in SUBSET Procs
      BY <1>0, StoppedProcs
    <2>2. QED
      BY <1>0, <1>4, <1>b, <2>1, CancelType DEF CloseStop, TypeOK
  <1>5. CASE CloseWait \/ CloseReturn
    BY <1>5, <1>a DEF CloseWait, CloseReturn
  <1>6. CASE RootCancel
    <2>1. {q \in Procs : proc[q].phase # "unused"} \in SUBSET Procs
      OBVIOUS
    <2>2. QED
      BY <1>0, <1>6, <1>b, <2>1, CancelType DEF RootCancel, TypeOK
  <1>7. ASSUME NEW p \in Procs, RunStep(p)
        PROVE  Goal
    <2>1. \A q \in Procs : /\ q # p => proc'[q] = proc[q]
                           /\ proc'[q].config = proc[q].config
      BY <1>0, <1>7, RunStepFrame
    <2>2. CASE bound'[a] = p /\ proc[p].config.addr = a
               /\ proc'[p].phase = "bound"
      BY <2>1, <2>2
    <2>3. CASE bound[a] = bound'[a] /\ bound[a] = p
      <3>1. proc'[p].phase \in {"bound", "serving", "draining"}
        BY <1>0, <1>7, <2>3, RunStepSocket
      <3>2. proc'[p].config.addr = a
        BY <1>a, <2>1, <2>3
      <3>3. QED
        BY <2>3, <3>1, <3>2
    <2>4. CASE bound[a] = bound'[a] /\ bound[a] # p
      BY <1>a, <2>1, <2>4
    <2>5. QED
      BY <1>0, <1>7, <2>2, <2>3, <2>4, RunStepSocket
  <1>8. CASE UNCHANGED vars
    BY <1>8, <1>a DEF vars
  <1>9. QED
    BY <1>1, <1>2, <1>3, <1>4, <1>5, <1>6, <1>7, <1>8
    DEF Next, ApplyStep, CloseStep

(***************************************************************************)
(* No path out of an adapter's Run leaks its port: an open socket belongs  *)
(* to a process inside Run, and at that process's own address.             *)
(***************************************************************************)
THEOREM NoPortIsLeaked == Spec => []NoPortLeak
  <1>1. Init => NoPortLeak
    BY DEF Init, NoPortLeak
  <1>2. QED
    BY <1>1, BaseHolds, PortStep, PTL DEF Spec

-----------------------------------------------------------------------------
(***************************************************************************)
(* A live status has a process                                             *)
(***************************************************************************)

(* Every step preserves LiveStatusHasProcess. *)
LEMMA LiveStep ==
    Base /\ LiveStatusHasProcess /\ [Next]_vars => LiveStatusHasProcess'
  <1> SUFFICES ASSUME Base, LiveStatusHasProcess, [Next]_vars,
                      NEW i \in Ids, closer'.pc = "idle",
                      statuses'[i].state \in {"starting", "running"},
                      running'[i] = None
               PROVE  \E k \in Calls : /\ call'[k].pc = "waiting"
                                       /\ call'[k].items[i] # None
    BY DEF LiveStatusHasProcess, InProgress
  <1> DEFINE Goal == \E k \in Calls : /\ call'[k].pc = "waiting"
                                      /\ call'[k].items[i] # None
  <1>0. TypeOK
    BY DEF Base
  <1>a. ASSUME closer.pc = "idle", running[i] = None,
               statuses[i].state \in {"starting", "running"}
        PROVE  \E k \in Calls : /\ call[k].pc = "waiting"
                                /\ call[k].items[i] # None
    BY <1>a DEF LiveStatusHasProcess, InProgress
  <1>b. ASSUME \A k \in Calls : call[k].pc = "waiting" =>
                  call'[k].pc = "waiting" /\ call'[k].items = call[k].items,
               closer' = closer, running' = running, statuses' = statuses
        PROVE  Goal
    BY <1>a, <1>b
  <1>1. ASSUME NEW k \in Calls, NEW items \in Requests, ApplyStop(k, items)
        PROVE  Goal
    <2>1. /\ call'[k].pc = "waiting" /\ call'[k].items = items
          /\ \A j \in Calls : j # k => call'[j] = call[j]
      BY <1>0, <1>1 DEF ApplyStop, TypeOK
    <2>2. items[i] # None
      BY <1>1 DEF ApplyStop, NoStatus
    <2>3. QED
      BY <2>1, <2>2
  <1>2. ASSUME NEW k \in Calls, ApplyWaitDone(k) \/ ApplyWaitTimeout(k)
        PROVE  Goal
    <2>1. \A j \in Calls : call'[j].pc = call[j].pc
                           /\ call'[j].items = call[j].items
      BY <1>0, <1>2 DEF ApplyWaitDone, ApplyWaitTimeout, TypeOK, Call
    <2>2. UNCHANGED <<closer, running, statuses>>
      BY <1>2 DEF ApplyWaitDone, ApplyWaitTimeout
    <2>3. QED
      BY <1>b, <2>1, <2>2
  <1>3. ASSUME NEW k \in Calls, ApplyStart(k)
        PROVE  Goal
    <2>1. i \notin ToStart(k) /\ running[i] = None
      <3>1. /\ i \in ToStart(k) => running'[i] = <<i, k>>
            /\ i \notin ToStart(k) => running'[i] = running[i]
        BY <1>3, StartFrame, Zenon
      <3>2. <<i, k>> # None BY ProcPairs, Zenon
      <3> QED BY <3>1, <3>2
    <2>2. statuses'[i] = StatusAfter(k, i)
      BY <1>3 DEF ApplyStart
    <2>3. call[k].items[i] = None
      BY <2>1, <2>2 DEF StatusAfter
    <2>4. statuses'[i] = statuses[i] /\ closer' = closer
      BY <1>3, <2>1, <2>2, <2>3 DEF StatusAfter, ApplyStart
    <2>5. PICK j \in Calls : call[j].pc = "waiting" /\ call[j].items[i] # None
      BY <1>a, <2>1, <2>4
    <2>6. j # k
      BY <2>3, <2>5
    <2>7. call'[j] = call[j]
      BY <1>0, <1>3, <2>6 DEF ApplyStart, TypeOK
    <2>8. QED
      BY <2>5, <2>7
  <1>4. CASE CloseStop
    BY <1>4 DEF CloseStop
  <1>5. CASE CloseWait \/ CloseReturn
    BY <1>0, <1>5 DEF CloseWait, CloseReturn, TypeOK, Closer
  <1>6. CASE RootCancel
    BY <1>6, <1>b DEF RootCancel
  <1>7. ASSUME NEW p \in Procs, RunStep(p)
        PROVE  Goal
    <2>1. call' = call /\ closer' = closer
      BY <1>0, <1>7, RunStepFrame
    <2>2. CASE UNCHANGED <<running, statuses>>
      BY <1>b, <2>1, <2>2
    <2>3. CASE /\ Current(p) /\ UNCHANGED running
               /\ statuses' = [statuses EXCEPT ![p[1]] =
                                 [state |-> "running", by |-> p]]
      <3>1. p[1] # i
        BY <2>3, ProcPairs, ManagerAssumption DEF Current
      <3>2. statuses'[i] = statuses[i]
        BY <1>0, <2>3, <3>1 DEF TypeOK
      <3>3. QED
        BY <1>a, <2>1, <2>3, <3>2
    <2>4. CASE /\ running' = [running EXCEPT ![p[1]] = None]
               /\ statuses' = [statuses EXCEPT ![p[1]] =
                                 [state |-> "error", by |-> p]]
      <3>1. p[1] # i
        BY <1>0, <2>4 DEF TypeOK
      <3>2. statuses'[i] = statuses[i] /\ running'[i] = running[i]
        BY <1>0, <2>4, <3>1 DEF TypeOK
      <3>3. QED
        BY <1>a, <2>1, <3>2
    <2>5. QED
      BY <1>0, <1>7, <2>2, <2>3, <2>4, RunStepWrites
  <1>8. CASE UNCHANGED vars
    BY <1>8, <1>b DEF vars
  <1>9. QED
    BY <1>1, <1>2, <1>3, <1>4, <1>5, <1>6, <1>7, <1>8
    DEF Next, ApplyStep, CloseStep

(***************************************************************************)
(* Until Close, an upstream shown as starting or running has a process or  *)
(* a call of Apply that is about to write its status anew.                 *)
(***************************************************************************)
THEOREM LiveStatusIsTrue == Spec => []LiveStatusHasProcess
  <1>1. Init => LiveStatusHasProcess
    BY DEF Init, LiveStatusHasProcess, NoStatus
  <1>2. QED
    BY <1>1, BaseHolds, LiveStep, PTL DEF Spec

-----------------------------------------------------------------------------
(***************************************************************************)
(* The management API and the store on top of it                           *)
(***************************************************************************)


(* The lists of upstreams that the store admits. *)
StoreLists == {items \in ItemMaps : AddressesUnique(items)}

(* A request calls Apply once, with what RuntimeList gave it. *)
RequestsInv ==
    \A k \in Calls :
        /\ req[k].pc = "applying" <=> call[k].pc # "idle"
        /\ req[k].pc = "put" => req[k].id \in Ids /\ req[k].body \in Body
        /\ req[k].pc = "apply" => AddressesUnique(req[k].items)

(* What the store holds can be listed, and started. *)
StoreInv == AddressesUnique(store) /\ Materializes(store)

APIInv == CPTypeOK /\ RequestsInv /\ StoreInv

(***************************************************************************)
(* Shutdown: whatever exists once the root context is cancelled is         *)
(* cancelled; Close runs after that, or before any request.                *)
(***************************************************************************)
ShutdownInv ==
    /\ rootDone => \A p \in Procs : proc[p].phase # "unused" => proc[p].cancelled
    /\ closer.pc # "idle" => \A p \in Procs : Alive(p) => proc[p].cancelled
    /\ closer.pc # "idle" /\ ~rootDone =>
         \A k \in Calls : req[k].pc = "idle" \/ call[k].pc = "returned"

-----------------------------------------------------------------------------
(***************************************************************************)
(* Requests that do not overlap                                            *)
(***************************************************************************)

(* The store changed, and Apply has not yet stopped what that concerns. *)
Changing(k) == req[k].pc \in {"list", "apply"}

Waiting(k) == call[k].pc = "waiting"

(* The request is being handled. *)
Busy(k) == req[k].pc = "put" \/ Changing(k) \/ Waiting(k)

(* One request at a time, and what it changes is saved before it is applied. *)
OneRequest ==
    /\ \A j, k \in Calls : Busy(j) /\ Busy(k) => j = k
    /\ \A k \in Calls :
         /\ Changing(k) \/ Waiting(k) => disk = store
         /\ req[k].pc = "apply" => req[k].items = store
         /\ Waiting(k) => call[k].items = store
         /\ req[k].pc = "put" /\ req[k].existing # None =>
              req[k].existing = store[req[k].id]

(***************************************************************************)
(* What runs is what the store has, but for failed saves and for the       *)
(* upstream of the request under way; in Apply there are no exceptions.    *)
(***************************************************************************)
RunsTheStore ==
    /\ \A i \in Ids : running[i] # None =>
         /\ proc[running[i]].config.enabled
         /\ \/ proc[running[i]].config = store[i]
            \/ i \in dirty
            \/ \E k \in Calls : Changing(k) /\ req[k].id = i
    /\ \A k \in Calls : Waiting(k) => \A i \in Ids :
         /\ running[i] # None => proc[running[i]].config = store[i]
         /\ store[i] = None => statuses[i] = NoStatus

(* Between requests the listeners are those the file asks for. *)
FileInv ==
    closer.pc = "idle" /\ (\A k \in Calls : ~Changing(k) /\ ~Waiting(k))
    => \A i \in Ids : Matches(disk, i)

(***************************************************************************)
(* Sockets: a process that is still there is current, awaited by the call  *)
(* that stopped it, or was given up; no two of the first two kinds have    *)
(* the same address.                                                       *)
(***************************************************************************)
Awaited(q) == \E k \in Calls : Waiting(k) /\ q \in call[k].stopping

SocketsInv ==
    /\ closer.pc = "idle" => \A q \in Procs :
         Alive(q) => q \in timedOut \/ Current(q) \/ Awaited(q)
    /\ \A i, j \in Ids :
         /\ running[i] # None /\ running[j] # None
         /\ proc[running[i]].config.addr = proc[running[j]].config.addr
         => i = j
    /\ \A q \in Procs, i \in Ids :
         Awaited(q) /\ running[i] # None
         => proc[q].config.addr # proc[running[i]].config.addr

-----------------------------------------------------------------------------
(***************************************************************************)
(* The store and the requests                                              *)
(***************************************************************************)

(* The parts of a configuration and of a list. *)
LEMMA ItemsFacts ==
    /\ \A items \in ItemMaps, i \in Ids : items[i] \in Config \cup {None}
    /\ \A items \in ItemMaps, i \in Ids, item \in Config \cup {None} :
         /\ [items EXCEPT ![i] = item] \in ItemMaps
         /\ [items EXCEPT ![i] = item][i] = item
         /\ \A j \in Ids : j # i => [items EXCEPT ![i] = item][j] = items[j]
    /\ None \notin Config
    /\ NoItems \in ItemMaps
BY ManagerAssumption DEF ItemMaps, NoItems

(* Requests are well-typed, and so is one with another position. *)
LEMMA RequestFacts ==
    /\ NoRequest \in RequestState
    /\ \A r \in RequestState,
          pc \in {"idle", "put", "list", "apply", "applying", "rejected"} :
         [r EXCEPT !.pc = pc] \in RequestState
BY ItemsFacts DEF NoRequest, RequestState

(* The request that Update and Create make. *)
PutRequest(id, pc, b, e) ==
    [NoRequest EXCEPT !.kind = "put", !.id = id, !.pc = pc, !.body = b,
                      !.existing = e]

(* A put request is well-typed wherever it stands. *)
LEMMA PutRequestFacts ==
    ASSUME NEW id \in Ids, NEW b \in Body, NEW e \in Config \cup {None},
           NEW pc \in {"idle", "put", "list", "apply", "applying", "rejected"}
    PROVE  /\ PutRequest(id, pc, b, e) \in RequestState
           /\ PutRequest(id, pc, b, e).pc = pc
           /\ PutRequest(id, pc, b, e).id = id
           /\ PutRequest(id, pc, b, e).body = b
           /\ PutRequest(id, pc, b, e).existing = e
<1>1. NoItems \in ItemMaps BY ItemsFacts
<1> QED BY <1>1 DEF PutRequest, NoRequest, RequestState

(* A list of secrets is a function on its positions. *)
LEMMA ListFacts ==
    ASSUME NEW list \in Options
    PROVE  /\ DOMAIN list = 1..Len(list) /\ Len(list) \in Nat
           /\ \A n \in DOMAIN list : list[n] \in Secret
           /\ [DOMAIN list -> Secret] \subseteq Options
BY ControlPlaneAssumption

(* The value a position gets is a value: one of the existing list, or its own. *)
LEMMA MergedValueType ==
    ASSUME NEW body \in Body, NEW old \in Options, NEW n \in DOMAIN body.item.options
    PROVE  MergedValue(body, old, n) \in Values
  <1> DEFINE taken == {m \in DOMAIN old : Match(body, old, n, m)}
  <1>1. body.item.options \in Options
    BY DEF Body, Config
  <1>2. body.item.options[n].value \in Values
    BY <1>1, ListFacts DEF Secret
  <1>3. ASSUME NEW m \in taken PROVE old[m].value \in Values
    BY <1>3, ListFacts DEF Secret
  <1>4. CASE taken # {}
    <2>1. (CHOOSE m \in taken : TRUE) \in taken
      BY <1>4
    <2> QED BY <1>2, <1>3, <2>1 DEF MergedValue
  <1>5. CASE taken = {}
    BY <1>2, <1>5 DEF MergedValue
  <1> QED BY <1>4, <1>5

(* What MergeSecrets does to a body. *)
LEMMA MergeType ==
    ASSUME NEW body \in Body, NEW existing \in Config
    PROVE  /\ MergeSecrets(body, existing) \in Config
           /\ ~SameOptions(body.item.protocol, existing.protocol) =>
                MergeSecrets(body, existing) = body.item
           /\ SameOptions(body.item.protocol, existing.protocol) =>
                /\ DOMAIN MergeSecrets(body, existing).options = DOMAIN body.item.options
                /\ \A n \in DOMAIN body.item.options :
                     MergeSecrets(body, existing).options[n] =
                       [body.item.options[n] EXCEPT
                          !.value = MergedValue(body, existing.options, n)]
  <1> DEFINE sent == body.item.options
             merged == [n \in DOMAIN sent |->
                          [sent[n] EXCEPT !.value = MergedValue(body, existing.options, n)]]
  <1>1. body.item \in Config /\ sent \in Options /\ existing.options \in Options
    BY DEF Body, Config
  <1>2. ASSUME NEW n \in DOMAIN sent
        PROVE  merged[n] \in Secret
    <2>1. sent[n] \in Secret
      BY <1>1, ListFacts
    <2>2. MergedValue(body, existing.options, n) \in Values
      BY <1>1, MergedValueType
    <2> QED BY <2>1, <2>2 DEF Secret
  <1>3. merged \in [DOMAIN sent -> Secret]
    BY <1>2
  <1>4. merged \in Options
    BY <1>1, <1>3, ListFacts
  <1>5. CASE SameOptions(body.item.protocol, existing.protocol)
    <2>1. MergeSecrets(body, existing) = [body.item EXCEPT !.options = merged]
      BY <1>5 DEF MergeSecrets
    <2> HIDE DEF merged
    <2>2. /\ MergeSecrets(body, existing) \in Config
          /\ MergeSecrets(body, existing).options = merged
      BY <1>1, <1>4, <2>1 DEF Config
    <2> QED BY <1>5, <2>2 DEF merged
  <1>6. CASE ~SameOptions(body.item.protocol, existing.protocol)
    BY <1>1, <1>6 DEF MergeSecrets
  <1> QED BY <1>5, <1>6

(* Putting an upstream that does not conflict keeps the store sound. *)
LEMMA PutSound ==
    ASSUME store \in ItemMaps, StoreInv, NEW id \in Ids, NEW item \in Config,
           PutExpands(item), ~Conflict(id, item)
    PROVE  LET items == [store EXCEPT ![id] = item]
           IN  items \in ItemMaps /\ AddressesUnique(items) /\ Materializes(items)
  <1> DEFINE items == [store EXCEPT ![id] = item]
  <1>1. /\ items \in ItemMaps /\ items[id] = item
        /\ \A j \in Ids : j # id => items[j] = store[j]
    BY ItemsFacts
  <1> HIDE DEF items
  <1>2. AddressesUnique(items)
    BY <1>1 DEF AddressesUnique, StoreInv, Conflict, Enabled
  <1>3. Materializes(items)
    BY <1>1 DEF Materializes, StoreInv, PutExpands, Enabled
  <1> QED BY <1>1, <1>2, <1>3 DEF items

(* So does deleting one. *)
LEMMA DeleteSound ==
    ASSUME store \in ItemMaps, StoreInv, NEW id \in Ids
    PROVE  LET items == [store EXCEPT ![id] = None]
           IN  items \in ItemMaps /\ AddressesUnique(items) /\ Materializes(items)
  <1> DEFINE items == [store EXCEPT ![id] = None]
  <1>1. /\ items \in ItemMaps /\ items[id] = None
        /\ \A j \in Ids : j # id => items[j] = store[j]
    BY ItemsFacts
  <1> HIDE DEF items
  <1>2. AddressesUnique(items)
    BY <1>1 DEF AddressesUnique, StoreInv, Enabled
  <1>3. Materializes(items)
    BY <1>1 DEF Materializes, StoreInv, Enabled
  <1> QED BY <1>1, <1>2, <1>3 DEF items

(* A step of the manager that is not the first of a call starts no call. *)
LEMMA CallFrame ==
    ASSUME TypeOK,
           \/ \E k \in Calls : ApplyStep(k)
           \/ \E p \in Procs : RunStep(p)
           \/ CloseStep \/ RootCancel
    PROVE  \A j \in Calls : /\ call'[j].pc = "idle" <=> call[j].pc = "idle"
                            /\ call'[j].items = call[j].items
                            /\ call[j].pc = "returned" => call'[j].pc = "returned"
                            /\ call'[j].pc = "waiting" => call[j].pc = "waiting"
  <1>1. ASSUME NEW k \in Calls, ApplyWaitDone(k) \/ ApplyWaitTimeout(k)
        PROVE  \A j \in Calls : call'[j].pc = call[j].pc /\ call'[j].items = call[j].items
    BY <1>1 DEF ApplyWaitDone, ApplyWaitTimeout, TypeOK, Call
  <1>2. ASSUME NEW k \in Calls, ApplyStart(k)
        PROVE  /\ call[k].pc = "waiting" /\ call'[k].pc = "returned"
               /\ call'[k].items = call[k].items
               /\ \A j \in Calls : j # k => call'[j] = call[j]
    BY <1>2 DEF ApplyStart, TypeOK, Call
  <1>3. ASSUME NEW p \in Procs, RunStep(p) PROVE call' = call
    BY <1>3, RunStepFrame
  <1>4. CASE CloseStep \/ RootCancel
    BY <1>4 DEF CloseStep, CloseStop, CloseWait, CloseReturn, RootCancel
  <1> QED BY <1>1, <1>2, <1>3, <1>4 DEF ApplyStep

(* The states the program starts in satisfy the invariant. *)
LEMMA APIInit == CPInit => APIInv
  <1> SUFFICES ASSUME CPInit PROVE APIInv
    OBVIOUS
  <1>1. /\ disk \in ItemMaps /\ store = disk /\ dirty = {}
        /\ AddressesUnique(disk) /\ Materializes(disk)
    BY ControlPlaneAssumption DEF CPInit
  <1>2. /\ Boot \in Calls => req[Boot] = [NoRequest EXCEPT !.pc = "apply", !.items = disk]
        /\ \A k \in Calls : k # Boot => req[k] = NoRequest
    BY DEF CPInit
  <1>a. LET r == [NoRequest EXCEPT !.pc = "apply", !.items = disk]
        IN  r \in RequestState /\ r.pc = "apply" /\ r.items = disk
    BY <1>1, ItemsFacts DEF NoRequest, RequestState
  <1>b. NoRequest.pc = "idle"
    BY DEF NoRequest
  <1>3. \A k \in Calls : /\ req[k] \in RequestState /\ req[k].pc \in {"idle", "apply"}
                         /\ req[k].pc = "apply" => req[k].items = disk
    BY <1>2, <1>a, <1>b, RequestFacts
  <1>4. req \in [Calls -> RequestState]
    BY <1>3 DEF CPInit
  <1>5. \A k \in Calls : call[k].pc = "idle"
    BY DEF CPInit, Init
  <1>6. CPTypeOK
    BY <1>1, <1>4 DEF CPTypeOK
  <1>7. RequestsInv
    BY <1>1, <1>3, <1>5 DEF RequestsInv
  <1> QED BY <1>1, <1>6, <1>7 DEF APIInv, StoreInv

(* What a request hands to Put is a configuration. *)
LEMMA ItemType ==
    ASSUME CPTypeOK, RequestsInv, NEW k \in Calls, req[k].pc = "put"
    PROVE  Item(k) \in Config
  <1>1. /\ req[k].body \in Body /\ req[k].body.item \in Config
        /\ req[k].existing \in Config \cup {None}
    BY DEF CPTypeOK, RequestState, RequestsInv, Body
  <1> QED BY <1>1, MergeType DEF Item

(***************************************************************************)
(* Every step of the program keeps the store sound, and the requests.      *)
(***************************************************************************)
LEMMA APIStep == TypeOK /\ APIInv /\ [CPNext]_cpVars => APIInv'
  <1> SUFFICES ASSUME TypeOK, APIInv, [CPNext]_cpVars PROVE APIInv'
    OBVIOUS
  <1> USE DEF APIInv, CPTypeOK
  <1>1. ASSUME NEW k \in Calls, NEW r \in RequestState, req' = [req EXCEPT ![k] = r],
               r.pc # "applying", req[k].pc # "applying", call' = call,
               r.pc = "put" => r.id \in Ids /\ r.body \in Body,
               r.pc = "apply" => AddressesUnique(r.items)
        PROVE  req' \in [Calls -> RequestState] /\ RequestsInv'
    BY <1>1 DEF RequestsInv
  <1>2. ASSUME NEW k \in Calls, NEW id \in Ids, NEW body \in Bodies, Update(k, id, body)
        PROVE  APIInv'
    <2> DEFINE r == req'[k]
    <2>1. body \in Body /\ store[id] \in Config \cup {None}
      BY ControlPlaneAssumption, ItemsFacts
    <2>a. /\ req' = [req EXCEPT ![k] = r] /\ UNCHANGED <<store, disk, dirty, call>>
          /\ req[k].pc = "idle"
      BY <1>2 DEF Update, Accepts, vars
    <2> DEFINE pc == IF store[id] = None THEN "rejected" ELSE "put"
    <2>2. r = PutRequest(id, pc, body, store[id])
      BY <1>2 DEF Update, PutRequest
    <2>3. r \in RequestState /\ r.pc = pc /\ r.id = id /\ r.body = body
      BY <2>1, <2>2, PutRequestFacts
    <2> HIDE DEF r
    <2> QED BY <1>1, <2>1, <2>a, <2>3 DEF StoreInv
  <1>3. ASSUME NEW k \in Calls, NEW id \in Ids, NEW body \in Bodies, Create(k, id, body)
        PROVE  APIInv'
    <2> DEFINE r == req'[k]
    <2>1. body \in Body
      BY ControlPlaneAssumption
    <2>2. r = PutRequest(id, "put", body, None)
      BY <1>3 DEF Create, PutRequest, NoRequest
    <2>3. r \in RequestState /\ r.pc = "put" /\ r.id = id /\ r.body = body
      BY <2>1, <2>2, PutRequestFacts
    <2>4. /\ req' = [req EXCEPT ![k] = r] /\ UNCHANGED <<store, disk, dirty, call>>
          /\ req[k].pc = "idle"
      BY <1>3 DEF Create, Accepts, vars
    <2> HIDE DEF r
    <2> QED BY <1>1, <2>1, <2>3, <2>4 DEF StoreInv
  <1>4. ASSUME NEW k \in Calls, Put(k)
        PROVE  APIInv'
    <2> DEFINE id == req[k].id
               item == Item(k)
               items == [store EXCEPT ![id] = item]
    <2>1. /\ id \in Ids /\ item \in Config /\ call' = call
          /\ req[k].pc = "put" /\ req[k] \in RequestState
      BY <1>4, ItemType DEF Put, RequestsInv, vars
    <2>2. \/ req' = [req EXCEPT ![k].pc = "list"] \/ req' = [req EXCEPT ![k].pc = "rejected"]
      BY <1>4 DEF Put, Save, Reject
    <2>3. PICK pc \in {"list", "rejected"} : req' = [req EXCEPT ![k] = [@ EXCEPT !.pc = pc]]
      BY <2>2
    <2>4. [req[k] EXCEPT !.pc = pc] \in RequestState /\ [req[k] EXCEPT !.pc = pc].pc = pc
      BY <2>1 DEF RequestState
    <2>5. req' \in [Calls -> RequestState] /\ RequestsInv'
      BY <1>1, <2>1, <2>3, <2>4
    <2>6. CASE Validate(item) /\ PutExpands(item) /\ ~Conflict(id, item)
      <3>1. store' = items /\ disk' \in {disk, items}
            /\ dirty' \in SUBSET Ids
        BY <1>4, <2>6 DEF Put, Save
      <3>2. items \in ItemMaps /\ AddressesUnique(items) /\ Materializes(items)
        BY <2>1, <2>6, PutSound
      <3> HIDE DEF items
      <3> QED BY <2>5, <3>1, <3>2 DEF StoreInv
    <2>7. CASE ~(Validate(item) /\ PutExpands(item) /\ ~Conflict(id, item))
      <3>1. UNCHANGED <<store, disk, dirty>>
        BY <1>4, <2>7 DEF Put, Reject
      <3> QED BY <2>5, <3>1 DEF StoreInv
    <2> QED BY <2>6, <2>7
  <1>5. ASSUME NEW k \in Calls, NEW id \in Ids, Delete(k, id)
        PROVE  APIInv'
    <2> DEFINE items == [store EXCEPT ![id] = None]
    <2>1. items \in ItemMaps /\ AddressesUnique(items) /\ Materializes(items)
      BY DeleteSound
    <2>2. PICK saved \in BOOLEAN :
            /\ store' = items /\ disk' = IF saved THEN items ELSE disk
            /\ dirty' = IF saved THEN dirty ELSE dirty \cup {id}
            /\ req' = [req EXCEPT ![k] =
                 [NoRequest EXCEPT !.kind = "delete", !.id = id,
                    !.pc = IF saved THEN "list" ELSE "rejected"]]
      BY <1>5 DEF Delete
    <2> HIDE DEF items
    <2>3. [NoRequest EXCEPT !.kind = "delete", !.id = id,
                    !.pc = IF saved THEN "list" ELSE "rejected"] \in RequestState
      BY ItemsFacts DEF NoRequest, RequestState
    <2>4. [NoRequest EXCEPT !.kind = "delete", !.id = id,
                    !.pc = IF saved THEN "list" ELSE "rejected"].pc \in {"list", "rejected"}
      BY DEF NoRequest
    <2>5. req' \in [Calls -> RequestState] /\ RequestsInv'
      BY <1>1, <1>5, <2>2, <2>3, <2>4 DEF Delete, Accepts, vars
    <2> QED BY <2>1, <2>2, <2>5 DEF StoreInv
  <1>6. ASSUME NEW k \in Calls, NEW id \in Ids, DeleteMissing(k, id)
        PROVE  APIInv'
    <2> DEFINE r == [NoRequest EXCEPT !.kind = "delete", !.id = id, !.pc = "rejected"]
    <2>1. r \in RequestState /\ r.pc = "rejected"
      BY ItemsFacts DEF NoRequest, RequestState
    <2>2. req' = [req EXCEPT ![k] = r] /\ UNCHANGED <<store, disk, dirty, call>>
          /\ req[k].pc = "idle"
      BY <1>6 DEF DeleteMissing, Accepts, vars
    <2> HIDE DEF r
    <2> QED BY <1>1, <2>1, <2>2 DEF StoreInv
  <1>7. ASSUME NEW k \in Calls, RuntimeList(k)
        PROVE  APIInv'
    <2> DEFINE r == [req[k] EXCEPT !.items = store,
                                   !.pc = IF Materializes(store) THEN "apply" ELSE "rejected"]
    <2>1. r \in RequestState /\ r.items = store /\ r.pc \in {"apply", "rejected"}
      BY DEF RequestState
    <2>2. req' = [req EXCEPT ![k] = r] /\ UNCHANGED <<store, disk, dirty, call>>
          /\ req[k].pc = "list"
      BY <1>7 DEF RuntimeList, vars
    <2> HIDE DEF r
    <2> QED BY <1>1, <2>1, <2>2 DEF StoreInv
  <1>8. ASSUME NEW k \in Calls, Apply(k)
        PROVE  APIInv'
    <2>1. /\ req' = [req EXCEPT ![k].pc = "applying"] /\ UNCHANGED <<store, disk>>
          /\ dirty' \in SUBSET Ids
      BY <1>8 DEF Apply
    <2>2. /\ \A j \in Calls : j # k => call'[j] = call[j]
          /\ call'[k].pc = "waiting"
      BY <1>8 DEF Apply, ApplyStop, TypeOK
    <2>3. req' \in [Calls -> RequestState] /\ req'[k].pc = "applying"
          /\ \A j \in Calls : j # k => req'[j] = req[j]
      BY <2>1 DEF RequestState
    <2>4. RequestsInv'
      BY <2>2, <2>3 DEF RequestsInv
    <2> QED BY <2>1, <2>3, <2>4 DEF StoreInv
  <1>9. ASSUME UNCHANGED apiVars,
               \/ \E k \in Calls : ApplyStep(k)
               \/ \E p \in Procs : RunStep(p)
               \/ CloseStep \/ RootCancel
        PROVE  APIInv'
    BY <1>9, CallFrame DEF apiVars, RequestsInv, StoreInv
  <1>10. CASE UNCHANGED cpVars
    BY <1>10 DEF cpVars, RequestsInv, StoreInv
  <1> QED
    BY <1>2, <1>3, <1>4, <1>5, <1>6, <1>7, <1>8, <1>9, <1>10
    DEF CPNext, Request, Handler, Signal, CloseAfterServe, CloseStep

-----------------------------------------------------------------------------
(***************************************************************************)
(* The program implements the manager                                      *)
(***************************************************************************)

(* A step of the program is a step of the manager, or none of its business. *)
LEMMA StepImplements ==
    ASSUME StoreLists \subseteq Requests, APIInv, [CPNext]_cpVars
    PROVE  [Next]_vars
  <1>1. CASE \E k \in Calls : Request(k) \/ Put(k) \/ RuntimeList(k)
    BY <1>1 DEF Request, Update, Create, Delete, DeleteMissing, Put, RuntimeList
  <1>2. ASSUME NEW k \in Calls, Apply(k) PROVE Next
    <2>1. req[k].items \in Requests
      BY <1>2 DEF Apply, APIInv, CPTypeOK, RequestsInv, RequestState, StoreLists
    <2> QED BY <1>2, <2>1 DEF Apply, Next
  <1>3. CASE UNCHANGED cpVars
    BY <1>3 DEF cpVars, vars
  <1> QED
    BY <1>1, <1>2, <1>3 DEF CPNext, Handler, Signal, CloseAfterServe, Next, CloseStep

(* The invariants of the manager and of the API hold together. *)
LEMMA APIHolds ==
    ASSUME StoreLists \subseteq Requests
    PROVE  CPSpec => [](Base /\ APIInv /\ NoOrphan)
  <1>1. CPInit => Base /\ APIInv /\ NoOrphan
    BY APIInit, TypeInit
    DEF CPInit, Init, Base, Fresh, Configured, RunningExists, Unused, NoOrphan, Alive
  <1>2. (Base /\ APIInv /\ NoOrphan) /\ [CPNext]_cpVars => (Base /\ APIInv /\ NoOrphan)'
    BY StepImplements, APIStep, BaseStep, NoOrphanStep DEF Base
  <1> QED BY <1>1, <1>2, PTL DEF CPSpec

(***************************************************************************)
(* Under the API and the shutdown of cli.run the manager does what module  *)
(* Manager allows, also when requests overlap: every list putUpstream,     *)
(* deleteUpstream and OpenStore let through to Apply has unique addresses. *)
(* So whatever ManagerProofs shows of the manager holds of the program.    *)
(***************************************************************************)
THEOREM ManagerImplemented ==
    ASSUME StoreLists \subseteq Requests
    PROVE  CPSpec => ImplementsManager
  <1>1. CPInit => Init
    BY DEF CPInit
  <1>2. APIInv /\ [CPNext]_cpVars => [Next]_vars
    BY StepImplements
  <1> QED BY <1>1, <1>2, APIHolds, PTL DEF CPSpec, Spec, ImplementsManager

-----------------------------------------------------------------------------
(***************************************************************************)
(* Shutdown                                                                *)
(***************************************************************************)

(* Every step keeps what the shutdown relies on. *)
LEMMA ShutdownStep ==
    ASSUME Base, NoOrphan, APIInv, ShutdownInv, [CPNext]_cpVars
    PROVE  ShutdownInv'
  <1>0. TypeOK
    BY DEF Base
  <1>a. ASSUME NEW ps \in SUBSET Procs, proc' = Cancel(ps)
        PROVE  \A p \in Procs : /\ proc'[p].phase = proc[p].phase
                                /\ proc[p].cancelled \/ p \in ps => proc'[p].cancelled
    <2>1. \A p \in Procs : p \notin ps => proc'[p] = proc[p]
      BY <1>0, <1>a, CancelType DEF TypeOK
    <2>2. \A p \in Procs : /\ proc'[p].phase = proc[p].phase
                           /\ p \in ps => proc'[p].cancelled
      BY <1>0, <1>a, CancelType DEF TypeOK
    <2> QED BY <2>1, <2>2
  <1>b. ASSUME UNCHANGED vars, \A k \in Calls : req'[k].pc = "idle" \/ closer.pc = "idle" \/ req[k].pc # "idle"
        PROVE  ShutdownInv'
    BY <1>b DEF vars, ShutdownInv, Alive
  <1>1. ASSUME NEW k \in Calls, Request(k) \/ Put(k) \/ RuntimeList(k) PROVE ShutdownInv'
    <2>1. UNCHANGED vars
      BY <1>1 DEF Request, Update, Create, Delete, DeleteMissing, Put, RuntimeList
    <2>2. CASE Request(k)
      <3>1. closer.pc = "idle"
        BY <2>2 DEF Request, Update, Create, Delete, DeleteMissing, Accepts
      <3> QED BY <1>b, <2>1, <3>1
    <2>3. CASE Put(k) \/ RuntimeList(k)
      <3>1. \A j \in Calls : j # k => req'[j] = req[j]
        BY <2>3 DEF Put, RuntimeList, Save, Reject, APIInv, CPTypeOK
      <3>2. req[k].pc # "idle"
        BY <2>3 DEF Put, RuntimeList
      <3> QED BY <1>b, <2>1, <3>1, <3>2
    <2> QED BY <1>1, <2>2, <2>3
  <1>2. ASSUME NEW k \in Calls, Apply(k) PROVE ShutdownInv'
    <2> DEFINE stopped == {running[i] : i \in Outdated(req[k].items)}
    <2>1. stopped \in SUBSET Procs
      BY <1>0, StoppedProcs DEF Outdated
    <2>2. /\ proc' = Cancel(stopped) /\ UNCHANGED <<closer, rootDone>>
          /\ req[k].pc = "apply" /\ call[k].pc = "idle"
      BY <1>2 DEF Apply, ApplyStop
    <2>3. closer.pc = "idle" \/ rootDone
      BY <2>2 DEF ShutdownInv
    <2> HIDE DEF stopped
    <2> QED BY <1>a, <2>1, <2>2, <2>3 DEF ShutdownInv, Alive
  <1>3. ASSUME NEW k \in Calls, ApplyWaitDone(k) \/ ApplyWaitTimeout(k), UNCHANGED apiVars
        PROVE  ShutdownInv'
    <2>1. UNCHANGED <<proc, closer, rootDone, req>>
      BY <1>3 DEF ApplyWaitDone, ApplyWaitTimeout, apiVars
    <2>2. \A j \in Calls : call[j].pc = "returned" => call'[j].pc = "returned"
      BY <1>0, <1>3, CallFrame DEF ApplyStep
    <2> QED BY <2>1, <2>2 DEF ShutdownInv, Alive
  <1>4. ASSUME NEW k \in Calls, ApplyStart(k), UNCHANGED apiVars
        PROVE  ShutdownInv'
    <2>1. UNCHANGED <<closer, rootDone, req>> /\ call[k].pc = "waiting"
      BY <1>4 DEF ApplyStart, apiVars
    <2>2. closer.pc = "idle" \/ rootDone
      <3>1. req[k].pc # "idle" /\ call[k].pc # "returned"
        BY <2>1 DEF APIInv, RequestsInv
      <3> QED BY <3>1 DEF ShutdownInv
    <2>3. \A p \in Procs : proc'[p] = proc[p] \/ (rootDone => proc'[p].cancelled)
      <3>1. \A p \in Procs : proc'[p] = proc[p] \/ proc'[p] = Launched(k, p[1])
        BY <1>4, StartFrame
      <3>2. \A i : Launched(k, i).cancelled = rootDone
        BY DEF Launched
      <3> QED BY <3>1, <3>2
    <2>4. \A j \in Calls : call[j].pc = "returned" => call'[j].pc = "returned"
      BY <1>0, <1>4, CallFrame DEF ApplyStep
    <2> QED BY <2>1, <2>2, <2>3, <2>4 DEF ShutdownInv, Alive
  <1>5. ASSUME NEW p \in Procs, RunStep(p), UNCHANGED apiVars
        PROVE  ShutdownInv'
    <2>1. /\ \A q \in Procs : /\ proc'[q].cancelled = proc[q].cancelled
                              /\ proc'[q].phase = "unused" <=> proc[q].phase = "unused"
                              /\ proc[q].phase = "done" => proc'[q].phase = "done"
          /\ UNCHANGED <<call, closer, rootDone>>
      <3>1. proc[p].phase = "done" => proc'[p].phase = "done"
        BY <1>0, <1>5, RunStepPhase DEF PhaseSteps
      <3> QED BY <1>0, <1>5, <3>1, RunStepFrame
    <2> QED BY <1>5, <2>1 DEF ShutdownInv, Alive, apiVars
  <1>6. CASE (CloseWait \/ CloseReturn) /\ UNCHANGED apiVars
    <2>1. closer.pc = "waiting" /\ UNCHANGED <<proc, call, rootDone, req>>
      BY <1>6 DEF CloseWait, CloseReturn, apiVars
    <2> QED BY <2>1 DEF ShutdownInv, Alive
  <1>7. CASE Signal
    <2> DEFINE ps == {p \in Procs : proc[p].phase # "unused"}
    <2>1. proc' = Cancel(ps) /\ ps \in SUBSET Procs /\ rootDone' = TRUE
      BY <1>7 DEF Signal, RootCancel
    <2>2. \A p \in Procs : /\ proc'[p].phase = proc[p].phase
                           /\ proc[p].phase # "unused" => proc'[p].cancelled
      BY <1>a, <2>1
    <2> QED BY <2>1, <2>2 DEF ShutdownInv, Alive
  <1>8. CASE CloseAfterServe
    <2> DEFINE ps == {running[i] : i \in {j \in Ids : running[j] # None}}
    <2>1. proc' = Cancel(ps) /\ UNCHANGED <<rootDone, req, call>>
      BY <1>8 DEF CloseAfterServe, CloseStop, apiVars
    <2>2. ps \in SUBSET Procs
      BY <1>0, StoppedProcs
    <2>3. ASSUME NEW p \in Procs, Alive(p)' PROVE proc'[p].cancelled
      <3>1. Alive(p)
        BY <1>a, <2>1, <2>2, <2>3 DEF Alive
      <3>2. p[1] \in Ids /\ p # None
        BY ProcPairs, ManagerAssumption
      <3>3. proc[p].cancelled \/ p \in ps
        BY <3>1, <3>2 DEF NoOrphan, Current
      <3> QED BY <1>a, <2>1, <2>2, <3>3
    <2>4. rootDone => \A p \in Procs : proc'[p].phase # "unused" => proc'[p].cancelled
      BY <1>a, <2>1, <2>2 DEF ShutdownInv
    <2>5. ~rootDone => \A k \in Calls : req[k].pc = "idle" \/ call[k].pc = "returned"
      BY <1>8 DEF CloseAfterServe
    <2> QED BY <2>1, <2>3, <2>4, <2>5 DEF ShutdownInv
  <1>9. CASE UNCHANGED cpVars
    BY <1>9 DEF cpVars, ShutdownInv, Alive
  <1> QED
    BY <1>1, <1>2, <1>3, <1>4, <1>5, <1>6, <1>7, <1>8, <1>9
    DEF CPNext, Handler, ApplyStep

(* The program's invariant, whether or not requests overlap. *)
LEMMA ShutdownHolds ==
    ASSUME StoreLists \subseteq Requests
    PROVE  CPSpec => []ShutdownInv
  <1>1. CPInit => ShutdownInv
    BY DEF CPInit, Init, ShutdownInv
  <1>2. (Base /\ APIInv /\ NoOrphan) /\ ShutdownInv /\ [CPNext]_cpVars => ShutdownInv'
    BY ShutdownStep
  <1> QED BY <1>1, <1>2, APIHolds, PTL DEF CPSpec

(***************************************************************************)
(* Once manager.Close returned, every process that is still there was told *)
(* to stop, also those that a request handled during the shutdown of       *)
(* cli.run started after Close.                                            *)
(***************************************************************************)
THEOREM NoneSurvivesClose ==
    ASSUME StoreLists \subseteq Requests
    PROVE  CPSpec => []NothingSurvivesClose
  <1>1. ShutdownInv => NothingSurvivesClose
    BY DEF ShutdownInv, NothingSurvivesClose
  <1> QED BY <1>1, ShutdownHolds, PTL

-----------------------------------------------------------------------------
(***************************************************************************)
(* What the steps change                                                   *)
(***************************************************************************)

(* A request in the API leaves the manager and the other requests alone. *)
LEMMA APIFrame ==
    ASSUME APIInv, NEW k \in Calls, Request(k) \/ Put(k) \/ RuntimeList(k)
    PROVE  /\ UNCHANGED vars
           /\ \A j \in Calls : j # k => req'[j] = req[j]
           /\ ~Waiting(k)
  <1> USE DEF APIInv, CPTypeOK, Waiting
  <1>1. CASE Request(k)
    <2>1. UNCHANGED vars /\ req[k].pc = "idle"
      BY <1>1 DEF Request, Update, Create, Delete, DeleteMissing, Accepts
    <2>2. \A j \in Calls : j # k => req'[j] = req[j]
      BY <1>1 DEF Request, Update, Create, Delete, DeleteMissing
    <2> QED BY <2>1, <2>2 DEF RequestsInv
  <1>2. CASE Put(k) \/ RuntimeList(k)
    <2>1. UNCHANGED vars /\ req[k].pc \in {"put", "list"}
      BY <1>2 DEF Put, RuntimeList
    <2>2. \A j \in Calls : j # k => req'[j] = req[j]
      BY <1>2 DEF Put, RuntimeList, Save, Reject
    <2> QED BY <2>1, <2>2 DEF RequestsInv
  <1> QED BY <1>1, <1>2

(* A request is accepted only if no other is being handled. *)
LEMMA AcceptsAlone ==
    ASSUME Serialized, TypeOK, APIInv, NEW k \in Calls, Request(k)
    PROVE  req[k].pc = "idle" /\ closer.pc = "idle" /\ \A j \in Calls : ~Busy(j)
  <1>1. req[k].pc = "idle" /\ closer.pc = "idle" /\ Pending = {}
    BY DEF Request, Update, Create, Delete, DeleteMissing, Accepts
  <1>2. ASSUME NEW j \in Calls, Busy(j) PROVE FALSE
    <2>1. req[j].pc # "idle" /\ ~Answered(j)
      BY <1>2 DEF Busy, Changing, Waiting, Answered, APIInv, RequestsInv
    <2> QED BY <1>1, <2>1 DEF Pending
  <1> QED BY <1>1, <1>2

(* The first critical section of Apply, called by request k. *)
LEMMA ApplyFrame ==
    ASSUME Base, APIInv, NEW k \in Calls, Apply(k)
    PROVE  /\ req[k].pc = "apply" /\ call[k].pc = "idle"
           /\ Serialized => \A j \in Calls : ~Waiting(j)
           /\ \A p \in Procs : /\ proc'[p].config = proc[p].config
                               /\ proc'[p].phase = proc[p].phase
           /\ \A i \in Ids :
                /\ running'[i] # None => /\ running'[i] = running[i]
                                         /\ proc[running[i]].config = req[k].items[i]
                /\ running[i] # None /\ running'[i] # running[i] =>
                     proc[running[i]].config # req[k].items[i]
                /\ req[k].items[i] = None => statuses'[i] = NoStatus
           /\ call'[k].pc = "waiting" /\ call'[k].items = req[k].items
           /\ \A q : q \in call'[k].stopping <=>
                \E i \in Ids : /\ running[i] # None /\ running'[i] = None
                               /\ q = running[i]
           /\ \A j \in Calls : j # k => call'[j] = call[j] /\ req'[j] = req[j]
           /\ req'[k].pc = "applying"
           /\ UNCHANGED <<closer, rootDone, timedOut, bound, store, disk>>
  <1> DEFINE stopped == {running[i] : i \in Outdated(req[k].items)}
  <1>1. TypeOK /\ stopped \in SUBSET Procs
    BY StoppedProcs DEF Base, Outdated
  <1>2. ApplyStop(k, req[k].items)
    BY DEF Apply
  <1>3. \A p \in Procs : /\ proc'[p].config = proc[p].config
                         /\ proc'[p].phase = proc[p].phase
    BY <1>1, <1>2, CancelType DEF ApplyStop, TypeOK
  <1>4. /\ req[k].pc = "apply" /\ call[k].pc = "idle"
        /\ Serialized => \A j \in Calls : ~Waiting(j)
    BY <1>2 DEF Apply, ApplyStop, InProgress, Waiting
  <1>5. \A i \in Ids : /\ i \in Outdated(req[k].items) => running'[i] = None
                       /\ i \notin Outdated(req[k].items) => running'[i] = running[i]
                       /\ req[k].items[i] = None => statuses'[i] = NoStatus
    BY <1>2 DEF ApplyStop
  <1>6. \A i \in Ids : i \in Outdated(req[k].items) <=>
          running[i] # None /\ proc[running[i]].config # req[k].items[i]
    BY DEF Outdated
  <1>7. call'[k] = [pc |-> "waiting", items |-> req[k].items, stopping |-> stopped]
    BY <1>1, <1>2 DEF ApplyStop, TypeOK
  <1>8. \A q : q \in stopped <=>
           \E i \in Ids : running[i] # None /\ running'[i] = None /\ q = running[i]
    <2>1. \A i \in Ids : i \in Outdated(req[k].items) <=> running[i] # None /\ running'[i] = None
      BY <1>5, <1>6
    <2>2. Outdated(req[k].items) \subseteq Ids
      BY DEF Outdated
    <2> QED BY <2>1, <2>2, Zenon
  <1>9. \A j \in Calls : j # k => call'[j] = call[j] /\ req'[j] = req[j]
    BY <1>1, <1>2 DEF ApplyStop, TypeOK, Apply, APIInv, CPTypeOK
  <1>10. req'[k].pc = "applying"
    BY DEF Apply, APIInv, CPTypeOK, RequestState
  <1>11. UNCHANGED <<closer, rootDone, timedOut, bound, store, disk>>
    BY <1>2 DEF ApplyStop, Apply
  <1> HIDE DEF stopped
  <1>12. call'[k].pc = "waiting" /\ call'[k].items = req[k].items /\ call'[k].stopping = stopped
    BY <1>7
  <1> QED BY <1>3, <1>4, <1>5, <1>6, <1>8, <1>9, <1>10, <1>11, <1>12

(***************************************************************************)
(* The steps that neither start a call nor processes: configurations stay, *)
(* processes and entries only go, and an upstream that is not running gets *)
(* no status.                                                              *)
(***************************************************************************)
QuietStep ==
    \/ \E k \in Calls : ApplyWaitDone(k) \/ ApplyWaitTimeout(k)
    \/ \E p \in Procs : RunStep(p)
    \/ CloseStep \/ RootCancel

(* What a quiet step leaves alone. *)
LEMMA QuietFrame ==
    ASSUME Base, QuietStep
    PROVE  /\ \A p \in Procs : /\ proc'[p].config = proc[p].config
                               /\ Alive(p)' => Alive(p)
           /\ \A i \in Ids : /\ running'[i] # None => running'[i] = running[i]
                             /\ running[i] = None => statuses'[i] = statuses[i]
           /\ \A j \in Calls : /\ call'[j].pc = call[j].pc
                               /\ call'[j].items = call[j].items
                               /\ call'[j].stopping \subseteq call[j].stopping
           /\ timedOut \subseteq timedOut'
  <1>0. TypeOK
    BY DEF Base
  <1>1. ASSUME NEW ps \in SUBSET Procs, proc' = Cancel(ps)
        PROVE  \A p \in Procs : /\ proc'[p].config = proc[p].config
                                /\ proc'[p].phase = proc[p].phase
    BY <1>0, <1>1, CancelType DEF TypeOK
  <1>2. ASSUME NEW k \in Calls, ApplyWaitDone(k) \/ ApplyWaitTimeout(k)
        PROVE  /\ UNCHANGED <<proc, running, statuses>> /\ timedOut \subseteq timedOut'
               /\ \A j \in Calls : /\ call'[j].pc = call[j].pc
                                   /\ call'[j].items = call[j].items
                                   /\ call'[j].stopping \subseteq call[j].stopping
    BY <1>0, <1>2 DEF ApplyWaitDone, ApplyWaitTimeout, TypeOK, Call
  <1>3. ASSUME NEW p \in Procs, RunStep(p)
        PROVE  /\ \A q \in Procs : proc'[q].config = proc[q].config /\ (Alive(q)' => Alive(q))
               /\ \A i \in Ids : /\ running'[i] # None => running'[i] = running[i]
                                 /\ running[i] = None => statuses'[i] = statuses[i]
               /\ UNCHANGED <<call, timedOut>>
    <2>1. \A q \in Procs : q # p => proc'[q] = proc[q]
      BY <1>0, <1>3, RunStepFrame
    <2>2. proc'[p].config = proc[p].config /\ UNCHANGED <<call, timedOut>>
      BY <1>0, <1>3, RunStepFrame
    <2>3. proc[p].phase = "unused" => proc'[p].phase = "unused"
      BY <1>0, <1>3, RunStepFrame
    <2>4. proc[p].phase = "done" => proc'[p].phase = "done"
      BY <1>0, <1>3, RunStepPhase DEF PhaseSteps
    <2>5. \A q \in Procs : Alive(q)' => Alive(q)
      BY <2>1, <2>3, <2>4 DEF Alive
    <2>6. p[1] \in Ids /\ (Current(p) => running[p[1]] # None)
      BY ProcPairs, ManagerAssumption DEF Current
    <2>7. \A i \in Ids : /\ running'[i] # None => running'[i] = running[i]
                         /\ running[i] = None => statuses'[i] = statuses[i]
      BY <1>0, <1>3, <2>6, RunStepWrites DEF TypeOK
    <2> QED BY <2>1, <2>2, <2>5, <2>7
  <1>4. CASE CloseStop
    <2>1. {running[i] : i \in {j \in Ids : running[j] # None}} \in SUBSET Procs
      BY <1>0, StoppedProcs
    <2> QED BY <1>1, <1>4, <2>1 DEF CloseStop, Alive
  <1>5. CASE CloseWait \/ CloseReturn
    BY <1>5 DEF CloseWait, CloseReturn, Alive
  <1>6. CASE RootCancel
    <2>1. {p \in Procs : proc[p].phase # "unused"} \in SUBSET Procs
      OBVIOUS
    <2> QED BY <1>1, <1>6, <2>1 DEF RootCancel, Alive
  <1> QED BY <1>2, <1>3, <1>4, <1>5, <1>6 DEF QuietStep, CloseStep, Alive

(* Every step of the program is one of these. *)
LEMMA StepKinds ==
    ASSUME [CPNext]_cpVars
    PROVE  \/ \E k \in Calls : Request(k) \/ Put(k) \/ RuntimeList(k)
           \/ \E k \in Calls : Apply(k)
           \/ \E k \in Calls : ApplyStart(k) /\ UNCHANGED apiVars
           \/ QuietStep /\ UNCHANGED apiVars
           \/ UNCHANGED cpVars
BY DEF CPNext, Handler, ApplyStep, QuietStep, Signal, CloseAfterServe, CloseStep

-----------------------------------------------------------------------------
(***************************************************************************)
(* One request at a time                                                   *)
(***************************************************************************)

(* Every step keeps the requests apart. *)
LEMMA OneRequestStep ==
    ASSUME Serialized, Base, APIInv, OneRequest, [CPNext]_cpVars
    PROVE  OneRequest'
  <1>0. TypeOK
    BY DEF Base
  <1>1. ASSUME NEW k \in Calls, \A j \in Calls : j # k => ~Busy(j)',
               Changing(k)' \/ Waiting(k)' => disk' = store',
               req'[k].pc = "apply" => req'[k].items = store',
               Waiting(k)' => call'[k].items = store',
               req'[k].pc = "put" /\ req'[k].existing # None =>
                 req'[k].existing = store'[req'[k].id]
        PROVE  OneRequest'
    BY <1>1 DEF OneRequest, Busy, Changing, Waiting
  <1>2. ASSUME NEW k \in Calls, Request(k) PROVE OneRequest'
    <2>1. req[k].pc = "idle" /\ \A j \in Calls : ~Busy(j)
      BY <1>0, <1>2, AcceptsAlone
    <2>2. call' = call /\ \A j \in Calls : j # k => req'[j] = req[j]
      BY <1>2, APIFrame DEF vars
    <2>3. \A j \in Calls : /\ j # k => ~Busy(j)'
                           /\ ~Waiting(j)'
      BY <2>1, <2>2 DEF Busy, Changing, Waiting
    <2>4. ASSUME NEW id \in Ids, NEW body \in Bodies, Update(k, id, body)
          PROVE  OneRequest'
      <3>1. /\ store' = store /\ req'[k].pc \in {"rejected", "put"}
            /\ req'[k].id = id /\ req'[k].existing = store[id]
        BY <2>4 DEF Update, APIInv, CPTypeOK, NoRequest
      <3> QED BY <1>1, <2>3, <3>1 DEF Changing
    <2>5. ASSUME NEW id \in Ids, NEW body \in Bodies, Create(k, id, body)
          PROVE  OneRequest'
      <3>1. req'[k].pc = "put" /\ req'[k].existing = None
        BY <2>5 DEF Create, APIInv, CPTypeOK, NoRequest
      <3> QED BY <1>1, <2>3, <3>1 DEF Changing
    <2>6. ASSUME NEW id \in Ids, Delete(k, id)
          PROVE  OneRequest'
      <3>1. \/ disk' = store' /\ req'[k].pc = "list"
            \/ req'[k].pc = "rejected"
        BY <2>6 DEF Delete, APIInv, CPTypeOK, NoRequest
      <3> QED BY <1>1, <2>3, <3>1 DEF Changing
    <2>7. ASSUME NEW id \in Ids, DeleteMissing(k, id)
          PROVE  OneRequest'
      <3>1. req'[k].pc = "rejected"
        BY <2>7 DEF DeleteMissing, APIInv, CPTypeOK, NoRequest
      <3> QED BY <1>1, <2>3, <3>1 DEF Changing
    <2> QED BY <1>2, <2>4, <2>5, <2>6, <2>7 DEF Request
  <1>3. ASSUME NEW k \in Calls, Put(k) \/ RuntimeList(k) PROVE OneRequest'
    <2>1. /\ call' = call /\ ~Waiting(k)
          /\ \A j \in Calls : j # k => req'[j] = req[j]
      BY <1>3, APIFrame DEF vars
    <2>2. Busy(k)
      BY <1>3 DEF Put, RuntimeList, Busy, Changing
    <2>3. \A j \in Calls : j # k => ~Busy(j)'
      BY <2>1, <2>2 DEF OneRequest, Busy, Changing, Waiting
    <2>4. ~Waiting(k)'
      BY <2>1 DEF Waiting
    <2>5. CASE Put(k)
      <3>1. \/ disk' = store' /\ req'[k].pc = "list"
            \/ req'[k].pc = "rejected"
        BY <2>5 DEF Put, Save, Reject, APIInv, CPTypeOK, RequestState
      <3> QED BY <1>1, <2>3, <2>4, <3>1 DEF Changing
    <2>6. CASE RuntimeList(k)
      <3>1. /\ req'[k].pc \in {"apply", "rejected"} /\ req'[k].items = store
            /\ UNCHANGED <<store, disk>> /\ req[k].pc = "list"
        BY <2>6 DEF RuntimeList, APIInv, CPTypeOK, RequestState
      <3>2. disk = store
        BY <3>1 DEF OneRequest, Changing
      <3> QED BY <1>1, <2>3, <2>4, <3>1, <3>2
    <2> QED BY <1>3, <2>5, <2>6
  <1>4. ASSUME NEW k \in Calls, Apply(k) PROVE OneRequest'
    <2>1. /\ req[k].pc = "apply" /\ req'[k].pc = "applying"
          /\ call'[k].items = req[k].items
          /\ UNCHANGED <<store, disk>>
          /\ \A j \in Calls : j # k => call'[j] = call[j] /\ req'[j] = req[j]
      BY <1>4, ApplyFrame
    <2>2. \A j \in Calls : j # k => ~Busy(j)'
      BY <2>1 DEF OneRequest, Busy, Changing, Waiting
    <2>3. disk = store /\ req[k].items = store
      BY <2>1 DEF OneRequest, Changing
    <2> QED BY <1>1, <2>1, <2>2, <2>3
  <1>5. ASSUME UNCHANGED apiVars,
               \A j \in Calls : /\ Waiting(j)' => Waiting(j)
                                /\ call'[j].items = call[j].items
        PROVE  OneRequest'
    BY <1>5 DEF apiVars, OneRequest, Busy, Changing
  <1>6. ASSUME NEW k \in Calls, ApplyStart(k) /\ UNCHANGED apiVars PROVE OneRequest'
    <2>1. \A j \in Calls : /\ Waiting(j)' => Waiting(j)
                           /\ call'[j].items = call[j].items
      BY <1>0, <1>6, CallFrame DEF ApplyStep, Waiting
    <2> QED BY <1>5, <1>6, <2>1
  <1>7. CASE QuietStep /\ UNCHANGED apiVars
    <2>1. \A j \in Calls : /\ Waiting(j)' => Waiting(j)
                           /\ call'[j].items = call[j].items
      BY <1>7, QuietFrame DEF Waiting
    <2> QED BY <1>5, <1>7, <2>1
  <1>8. CASE UNCHANGED cpVars
    BY <1>5, <1>8 DEF cpVars, apiVars, Waiting
  <1> QED BY <1>2, <1>3, <1>4, <1>6, <1>7, <1>8, StepKinds

-----------------------------------------------------------------------------
(***************************************************************************)
(* What runs                                                               *)
(***************************************************************************)

(* A running upstream has a process that was started with a configuration. *)
LEMMA RunningFacts ==
    ASSUME Base
    PROVE  \A i \in Ids : running[i] # None =>
             /\ running[i] \in Procs /\ running[i][1] = i
             /\ proc[running[i]].phase # "unused"
             /\ proc[running[i]].config \in Config
BY DEF Base, TypeOK, RunningExists, Configured

(* What the second critical section of call k does to what runs. *)
LEMMA StartRuns ==
    ASSUME Base, NEW k \in Calls, ApplyStart(k)
    PROVE  /\ Waiting(k) /\ call'[k].pc = "returned"
           /\ \A j \in Calls : j # k => call'[j] = call[j]
           /\ \A i \in Ids :
                \/ /\ running'[i] = running[i]
                   /\ running[i] # None => proc'[running[i]] = proc[running[i]]
                \/ /\ i \in ToStart(k) /\ running'[i] = <<i, k>>
                   /\ proc'[running'[i]].config = call[k].items[i]
  <1>1. /\ Waiting(k) /\ call'[k].pc = "returned"
        /\ \A j \in Calls : j # k => call'[j] = call[j]
    BY DEF ApplyStart, Base, TypeOK, Call, Waiting
  <1>2. ASSUME NEW i \in Ids, i \in ToStart(k)
        PROVE  running'[i] = <<i, k>> /\ proc'[running'[i]].config = call[k].items[i]
    <2>1. running'[i] = <<i, k>> /\ <<i, k>> \in Procs
      BY <1>2, StartFrame, ProcPairs
    <2>2. proc'[<<i, k>>] = Launched(k, i)
      BY <1>2, <2>1, StartFrame
    <2> QED BY <2>1, <2>2 DEF Launched
  <1>3. ASSUME NEW i \in Ids, i \notin ToStart(k)
        PROVE  /\ running'[i] = running[i]
               /\ running[i] # None => proc'[running[i]] = proc[running[i]]
    <2>1. running'[i] = running[i]
      BY <1>3, StartFrame
    <2>2. running[i] # None => running[i] \in Procs /\ running[i][1] = i
      BY RunningFacts
    <2> QED BY <1>3, <2>1, <2>2, StartFrame
  <1> QED BY <1>1, <1>2, <1>3

(* Every step keeps what runs in step with the store. *)
LEMMA RunsTheStoreStep ==
    ASSUME Serialized, Base, APIInv, OneRequest, RunsTheStore, [CPNext]_cpVars
    PROVE  RunsTheStore'
  <1>0. TypeOK
    BY DEF Base
  <1> USE RunningFacts
  <1>1. ASSUME NEW k \in Calls, Request(k) \/ Put(k) \/ RuntimeList(k)
        PROVE  RunsTheStore'
    <2>1. UNCHANGED <<running, proc, call, statuses>> /\ ~Waiting(k)
          /\ \A j \in Calls : j # k => req'[j] = req[j]
      BY <1>1, APIFrame DEF vars
    <2>2. \A j \in Calls : ~Waiting(j)
      <3>1. CASE Request(k)
        BY <1>0, <3>1, AcceptsAlone DEF Busy
      <3>2. CASE Put(k) \/ RuntimeList(k)
        <4>1. Busy(k)
          BY <3>2 DEF Put, RuntimeList, Busy, Changing
        <4> QED BY <2>1, <4>1 DEF OneRequest, Busy
      <3> QED BY <1>1, <3>1, <3>2
    <2>3. \A j \in Calls : ~Waiting(j)'
      BY <2>1, <2>2 DEF Waiting
    <2>4. Changing(k) => Changing(k)' /\ req'[k].id = req[k].id
      <3>1. CASE Request(k)
        BY <1>0, <3>1, AcceptsAlone DEF Changing
      <3>2. CASE Put(k)
        BY <3>2 DEF Put, Changing
      <3>3. CASE RuntimeList(k)
        BY <3>3 DEF RuntimeList, Changing, APIInv, StoreInv, CPTypeOK, RequestState
      <3> QED BY <1>1, <3>1, <3>2, <3>3
    <2>5. dirty \subseteq dirty'
      BY <1>1 DEF Request, Update, Create, Delete, DeleteMissing, Put, RuntimeList, Save, Reject
    <2>6. ASSUME NEW i \in Ids, store'[i] # store[i]
          PROVE  i \in dirty' \/ (Changing(k)' /\ req'[k].id = i)
      <3>1. CASE Request(k)
        <4>1. PICK id \in Ids : Delete(k, id)
          BY <2>6, <3>1 DEF Request, Update, Create, DeleteMissing
        <4>2. i = id
          BY <2>6, <4>1 DEF Delete, APIInv, CPTypeOK, ItemMaps
        <4>3. \/ id \in dirty'
              \/ req'[k].pc = "list" /\ req'[k].id = id
          BY <4>1 DEF Delete, APIInv, CPTypeOK, NoRequest
        <4> QED BY <4>2, <4>3 DEF Changing
      <3>2. CASE Put(k)
        <4>1. /\ req[k].id \in Ids
              /\ Validate(Item(k)) /\ PutExpands(Item(k))
              /\ ~Conflict(req[k].id, Item(k))
          BY <2>6, <3>2 DEF Put, Reject, APIInv, RequestsInv
        <4>2. Save(k, [store EXCEPT ![req[k].id] = Item(k)])
          BY <3>2, <4>1 DEF Put
        <4>3. i = req[k].id
          BY <2>6, <4>1, <4>2 DEF Save, APIInv, CPTypeOK, ItemMaps
        <4>4. \/ dirty' = dirty \cup {j \in Ids : store'[j] # store[j]}
              \/ req'[k].pc = "list" /\ req'[k].id = req[k].id
          BY <4>2 DEF Save, APIInv, CPTypeOK, RequestState
        <4> QED BY <2>6, <4>3, <4>4 DEF Changing
      <3>3. CASE RuntimeList(k)
        BY <2>6, <3>3 DEF RuntimeList
      <3> QED BY <1>1, <3>1, <3>2, <3>3
    <2>7. \A j \in Calls, i \in Ids :
             Changing(j) /\ req[j].id = i => Changing(j)' /\ req'[j].id = i
      BY <2>1, <2>4 DEF Changing
    <2> QED BY <2>1, <2>3, <2>5, <2>6, <2>7 DEF RunsTheStore
  <1>2. ASSUME NEW k \in Calls, Apply(k)
        PROVE  RunsTheStore'
    <2>1. req[k].pc = "apply" /\ store' = store
      BY <1>2, ApplyFrame
    <2>2. req[k].items = store
      BY <2>1 DEF OneRequest
    <2>3. \A i \in Ids : running'[i] # None =>
             /\ running'[i] = running[i] /\ proc'[running[i]].config = proc[running[i]].config
             /\ proc[running[i]].config = store[i]
      BY <1>2, <2>2, ApplyFrame
    <2>4. \A i \in Ids : store[i] = None => statuses'[i] = NoStatus
      BY <1>2, <2>2, ApplyFrame
    <2> QED BY <2>1, <2>3, <2>4 DEF RunsTheStore
  <1>3. ASSUME NEW k \in Calls, ApplyStart(k) /\ UNCHANGED apiVars
        PROVE  RunsTheStore'
    <2>1. Waiting(k) /\ store' = store
      BY <1>3, StartRuns DEF apiVars
    <2>2. call[k].items = store
      BY <2>1 DEF OneRequest
    <2>3. ASSUME NEW i \in Ids, running'[i] # None
          PROVE  /\ proc'[running'[i]].config = store[i]
                 /\ proc'[running'[i]].config.enabled
      <3>1. CASE /\ running'[i] = running[i]
                 /\ running[i] # None => proc'[running[i]] = proc[running[i]]
        BY <2>1, <2>3, <3>1 DEF RunsTheStore
      <3>2. CASE i \in ToStart(k) /\ proc'[running'[i]].config = call[k].items[i]
        BY <2>2, <3>2 DEF ToStart, Enabled
      <3> QED BY <1>3, <3>1, <3>2, StartRuns
    <2>4. \A j \in Calls : ~Waiting(j)'
      BY <1>3, <2>1, StartRuns DEF OneRequest, Busy, Waiting
    <2> QED BY <2>1, <2>3, <2>4 DEF RunsTheStore
  <1>4. CASE QuietStep /\ UNCHANGED apiVars
    <2>1. \A i \in Ids : running'[i] # None =>
             /\ running'[i] = running[i] /\ proc'[running[i]].config = proc[running[i]].config
      BY <1>4, QuietFrame
    <2>2. \A j \in Calls : /\ Waiting(j)' => Waiting(j)
                           /\ Changing(j)' <=> Changing(j)
      BY <1>4, QuietFrame DEF Waiting, Changing, apiVars
    <2>3. ASSUME NEW j \in Calls, Waiting(j), NEW i \in Ids, store[i] = None
          PROVE  statuses'[i] = NoStatus
      <3>1. running[i] = None /\ statuses[i] = NoStatus
        BY <2>3, ProcPairs DEF RunsTheStore
      <3> QED BY <1>4, <3>1, QuietFrame
    <2>4. UNCHANGED <<store, dirty, req>>
      BY <1>4 DEF apiVars
    <2> QED BY <2>1, <2>2, <2>3, <2>4 DEF RunsTheStore
  <1>5. CASE UNCHANGED cpVars
    BY <1>5 DEF cpVars, RunsTheStore, Waiting, Changing
  <1> QED BY <1>1, <1>2, <1>3, <1>4, <1>5, StepKinds

-----------------------------------------------------------------------------
(***************************************************************************)
(* The listeners are those the file asks for                               *)
(***************************************************************************)

(* What Matches says of an upstream that the file has as `item`. *)
Fits(item, run, st, ps) ==
    /\ item = None => run = None /\ st = NoStatus
    /\ item # None /\ ~item.enabled => run = None /\ st.state = "disabled"
    /\ item # None /\ item.enabled /\ run # None => ps[run].config = item
    /\ item # None /\ item.enabled /\ run = None =>
         st.state = "error" /\ (st.by # None => ps[st.by].config = item)

(* Matches is Fits of the variables. *)
LEMMA MatchesFits ==
    ASSUME NEW items, NEW i
    PROVE  Matches(items, i) <=> Fits(items[i], running[i], statuses[i], proc)
BY DEF Matches, Fits, Enabled

(* The same of the next state. *)
LEMMA FileInvNext ==
    ASSUME closer'.pc = "idle" /\ (\A k \in Calls : ~Changing(k)' /\ ~Waiting(k)')
           => \A i \in Ids : Fits(disk'[i], running'[i], statuses'[i], proc')
    PROVE  FileInv'
  <1>1. \A i \in Ids : Matches(disk, i)' <=>
                         Fits(disk'[i], running'[i], statuses'[i], proc')
    BY DEF Matches, Fits, Enabled, NoStatus
  <1> QED BY <1>1 DEF FileInv

(* The second critical section makes every upstream what its call asks for. *)
LEMMA StartFits ==
    ASSUME Base, RunsTheStore, NEW k \in Calls, ApplyStart(k),
           call[k].items = store, NEW i \in Ids
    PROVE  Fits(store[i], running'[i], statuses'[i], proc')
  <1>1. Waiting(k) /\ statuses'[i] = StatusAfter(k, i)
    BY StartRuns DEF ApplyStart
  <1>2. running[i] # None => /\ proc[running[i]].config = store[i]
                             /\ proc[running[i]].config \in Config
                             /\ proc[running[i]].config.enabled
    BY <1>1, RunningFacts DEF RunsTheStore
  <1>3. CASE running[i] # None
    <2>1. store[i] \in Config /\ store[i] # None /\ store[i].enabled
      BY <1>2, <1>3, ProcPairs
    <2>2. running'[i] = running[i] /\ proc'[running[i]] = proc[running[i]]
      BY <1>3, StartRuns DEF ToStart
    <2> QED BY <1>2, <1>3, <2>1, <2>2 DEF Fits
  <1>4. CASE running[i] = None /\ store[i] = None
    <2>1. i \notin ToStart(k)
      BY <1>4 DEF ToStart, Enabled
    <2>2. running'[i] = None
      BY <1>4, <2>1, StartRuns
    <2>3. statuses'[i] = statuses[i]
      <3>1. call[k].items[i] = None
        BY <1>4
      <3> QED BY <1>1, <2>1, <3>1, Zenon DEF StatusAfter
    <2>4. statuses[i] = NoStatus
      BY <1>1, <1>4 DEF RunsTheStore
    <2> QED BY <1>4, <2>2, <2>3, <2>4 DEF Fits
  <1>5. CASE running[i] = None /\ store[i] # None /\ i \in ToStart(k)
    <2>1. store[i].enabled
      BY <1>5 DEF ToStart, Enabled
    <2>2. running'[i] = <<i, k>> /\ <<i, k>> # None
      BY <1>5, StartFrame, ProcPairs
    <2>3. proc'[running'[i]].config = store[i]
      BY <1>5, <2>2, StartRuns
    <2> QED BY <1>5, <2>1, <2>2, <2>3 DEF Fits
  <1>6. CASE running[i] = None /\ store[i] # None /\ i \notin ToStart(k)
    <2>1. running'[i] = None
      BY <1>6, StartRuns
    <2>2. statuses'[i] = [state |-> IF store[i].enabled THEN "error" ELSE "disabled",
                          by |-> None]
      BY <1>1, <1>6 DEF StatusAfter, Enabled
    <2> QED BY <1>6, <2>1, <2>2 DEF Fits
  <1> QED BY <1>3, <1>4, <1>5, <1>6

(* A process that goes on, or fails, leaves its upstream as the file has it. *)
LEMMA RunFits ==
    ASSUME Base, NEW p \in Procs, RunStep(p), NEW i \in Ids, NEW item,
           Fits(item, running[i], statuses[i], proc),
           running[i] = None => statuses[i].by \in Procs \cup {None}
    PROVE  Fits(item, running'[i], statuses'[i], proc')
  <1>0. TypeOK /\ p[1] \in Ids /\ p # None
    BY ProcPairs, ManagerAssumption DEF Base
  <1>1. \A q \in Procs : proc'[q].config = proc[q].config
    BY <1>0, RunStepFrame
  <1>2. CASE running[i] = None
    <2>1. running'[i] = None /\ statuses'[i] = statuses[i]
      BY <1>2, QuietFrame DEF QuietStep
    <2> QED BY <1>1, <1>2, <2>1 DEF Fits
  <1>3. CASE running[i] # None
    <2>1. running[i] \in Procs /\ running[i][1] = i
      BY <1>3, RunningFacts
    <2>2. item # None /\ item.enabled /\ proc[running[i]].config = item
      BY <1>3 DEF Fits
    <2>3. CASE running'[i] = running[i]
      BY <1>1, <1>3, <2>1, <2>2, <2>3 DEF Fits
    <2>4. CASE running'[i] # running[i]
      <3>1. /\ Current(p) /\ running' = [running EXCEPT ![p[1]] = None]
            /\ statuses' = [statuses EXCEPT ![p[1]] = [state |-> "error", by |-> p]]
        BY <1>0, <2>4, RunStepWrites
      <3>2. p[1] = i /\ running[i] = p
        BY <1>0, <2>4, <3>1 DEF TypeOK, Current
      <3>3. running'[i] = None /\ statuses'[i] = [state |-> "error", by |-> p]
        BY <1>0, <3>1, <3>2 DEF TypeOK
      <3>4. statuses'[i].state = "error" /\ statuses'[i].by = p
        BY <3>3
      <3>5. proc'[p].config = item
        BY <1>1, <2>2, <3>2
      <3> QED BY <2>2, <3>3, <3>4, <3>5 DEF Fits
    <2> QED BY <2>3, <2>4
  <1> QED BY <1>2, <1>3

(* Every step leaves the listeners to the file, or to the request under way. *)
LEMMA FileStep ==
    ASSUME Serialized, Base, APIInv, OneRequest, RunsTheStore, FileInv, [CPNext]_cpVars
    PROVE  FileInv'
  <1>0. TypeOK
    BY DEF Base
  <1> DEFINE Settled == closer.pc = "idle" /\ \A k \in Calls : ~Changing(k) /\ ~Waiting(k)
             Goal == \A i \in Ids : Fits(disk'[i], running'[i], statuses'[i], proc')
  <1>a. Settled => \A i \in Ids : Fits(disk[i], running[i], statuses[i], proc)
    BY MatchesFits DEF FileInv
  <1> SUFFICES ASSUME closer'.pc = "idle", \A k \in Calls : ~Changing(k)' /\ ~Waiting(k)'
               PROVE  Goal
    BY FileInvNext
  <1> HIDE DEF Goal
  <1>1. ASSUME NEW k \in Calls, Request(k) \/ Put(k) PROVE Goal
    <2>1. UNCHANGED vars
      BY <1>1, APIFrame
    <2>2. Settled
      <3>1. CASE Request(k)
        BY <1>0, <3>1, AcceptsAlone DEF Busy
      <3>2. CASE Put(k)
        <4>1. Busy(k) /\ ~Changing(k) /\ ~Waiting(k)
          BY <3>2, APIFrame DEF Put, Busy, Changing
        <4>2. closer.pc = "idle"
          BY <2>1 DEF vars
        <4> QED BY <4>1, <4>2 DEF OneRequest, Busy
      <3> QED BY <1>1, <3>1, <3>2
    <2>3. disk' = disk
      <3>1. req'[k].pc # "list"
        BY DEF Changing
      <3>2. CASE Put(k)
        BY <3>1, <3>2 DEF Put, Save, Reject, APIInv, CPTypeOK, RequestState
      <3>3. ASSUME NEW id \in Ids, Delete(k, id) PROVE disk' = disk
        BY <3>1, <3>3 DEF Delete, APIInv, CPTypeOK, NoRequest
      <3> QED BY <1>1, <3>2, <3>3 DEF Request, Update, Create, DeleteMissing
    <2> QED BY <1>a, <2>1, <2>2, <2>3 DEF vars, Goal
  <1>2. ASSUME NEW k \in Calls, RuntimeList(k) PROVE FALSE
    <2>1. req'[k].pc = "apply"
      BY <1>2 DEF RuntimeList, APIInv, CPTypeOK, RequestState, StoreInv
    <2> QED BY <2>1 DEF Changing
  <1>3. ASSUME NEW k \in Calls, Apply(k) PROVE FALSE
    BY <1>3, ApplyFrame DEF Waiting
  <1>4. ASSUME NEW k \in Calls, ApplyStart(k) /\ UNCHANGED apiVars PROVE Goal
    <2>1. Waiting(k) /\ disk' = disk
      BY <1>4, StartRuns DEF apiVars
    <2>2. call[k].items = store /\ disk = store
      BY <2>1 DEF OneRequest
    <2> QED BY <1>4, <2>1, <2>2, StartFits DEF Goal
  <1>5. ASSUME NEW p \in Procs, RunStep(p), UNCHANGED apiVars PROVE Goal
    <2>1. Settled
      BY <1>0, <1>5, RunStepFrame DEF Changing, Waiting, apiVars
    <2>2. \A i \in Ids : statuses[i].by \in Procs \cup {None}
      BY <1>0 DEF TypeOK, Status
    <2> QED BY <1>5, <1>a, <2>1, <2>2, RunFits DEF Goal, apiVars
  <1>6. ASSUME NEW k \in Calls, ApplyWaitDone(k) \/ ApplyWaitTimeout(k) PROVE FALSE
    <2>1. Waiting(k)'
      BY <1>6, QuietFrame DEF QuietStep, ApplyWaitDone, ApplyWaitTimeout, Waiting
    <2> QED BY <2>1
  <1>7. CASE CloseStep
    <2>1. closer'.pc # "idle"
      BY <1>0, <1>7 DEF CloseStep, CloseStop, CloseWait, CloseReturn, TypeOK, Closer
    <2> QED BY <2>1
  <1>8. CASE RootCancel /\ UNCHANGED apiVars
    <2>1. UNCHANGED <<running, statuses, call, closer, disk, req>>
      BY <1>8 DEF RootCancel, apiVars
    <2>2. Settled
      BY <2>1 DEF Changing, Waiting
    <2>3. \A p \in Procs : proc'[p].config = proc[p].config
      BY <1>8, QuietFrame DEF QuietStep
    <2>4. \A i \in Ids : /\ running[i] # None => running[i] \in Procs
                         /\ statuses[i].by # None => statuses[i].by \in Procs
      BY <1>0 DEF TypeOK, Status
    <2> QED BY <1>a, <2>1, <2>2, <2>3, <2>4 DEF Fits, Goal
  <1>9. CASE UNCHANGED cpVars
    BY <1>9, <1>a DEF cpVars, Changing, Waiting, Goal
  <1> QED
    BY <1>1, <1>2, <1>3, <1>4, <1>5, <1>6, <1>7, <1>8, <1>9, StepKinds DEF QuietStep

-----------------------------------------------------------------------------
(***************************************************************************)
(* Sockets                                                                 *)
(***************************************************************************)

(* Every step accounts for the processes that are still there. *)
LEMMA SocketsStep ==
    ASSUME Serialized, Base, APIInv, OneRequest, RunsTheStore, SocketsInv, [CPNext]_cpVars
    PROVE  SocketsInv'
  <1>0. TypeOK
    BY DEF Base
  <1> USE RunningFacts
  <1>1. ASSUME UNCHANGED vars PROVE SocketsInv'
    BY <1>1 DEF vars, SocketsInv, Alive, Current, Awaited, Waiting
  <1>2. ASSUME NEW k \in Calls, Apply(k)
        PROVE  SocketsInv'
    <2>1. /\ \A p \in Procs : /\ proc'[p].config = proc[p].config
                              /\ Alive(p)' <=> Alive(p)
          /\ \A i \in Ids : running'[i] # None => running'[i] = running[i]
          /\ UNCHANGED <<closer, timedOut>>
      BY <1>2, ApplyFrame DEF Alive
    <2>2. \A q : q \in call'[k].stopping <=>
             \E i \in Ids : running[i] # None /\ running'[i] = None /\ q = running[i]
      BY <1>2, ApplyFrame
    <2>3. /\ \A j \in Calls : ~Waiting(j)
          /\ Waiting(k)' /\ \A j \in Calls : j # k => ~Waiting(j)'
      BY <1>2, ApplyFrame DEF Waiting
    <2>4. \A q : Awaited(q)' <=> q \in call'[k].stopping
      BY <2>3 DEF Awaited
    <2>5. ASSUME closer'.pc = "idle", NEW q \in Procs, Alive(q)'
          PROVE  q \in timedOut' \/ Current(q)' \/ Awaited(q)'
      <3>1. q \in timedOut \/ Current(q)
        BY <2>1, <2>3, <2>5 DEF SocketsInv, Awaited
      <3>2. CASE Current(q)
        <4>1. q[1] \in Ids /\ running[q[1]] = q /\ q # None
          BY <3>2, ProcPairs, ManagerAssumption DEF Current
        <4> QED BY <2>1, <2>2, <2>4, <4>1 DEF Current
      <3> QED BY <2>1, <3>1, <3>2
    <2>6. ASSUME NEW q \in Procs, NEW i \in Ids, Awaited(q)', running'[i] # None
          PROVE  proc'[q].config.addr # proc'[running'[i]].config.addr
      <3>1. PICK j \in Ids : running[j] # None /\ running'[j] = None /\ q = running[j]
        BY <2>2, <2>4, <2>6
      <3>2. i # j /\ running'[i] = running[i]
        BY <2>1, <2>6, <3>1
      <3>3. proc[running[j]].config.addr # proc[running[i]].config.addr
        BY <2>6, <3>1, <3>2 DEF SocketsInv
      <3>4. running[i] \in Procs /\ running[j] \in Procs
        BY <2>6, <3>1, <3>2
      <3> QED BY <2>1, <3>1, <3>2, <3>3, <3>4
    <2>7. \A i, j \in Ids :
             /\ running'[i] # None /\ running'[j] # None
             /\ proc'[running'[i]].config.addr = proc'[running'[j]].config.addr
             => i = j
      BY <2>1 DEF SocketsInv
    <2> QED BY <2>5, <2>6, <2>7 DEF SocketsInv
  <1>3. ASSUME NEW k \in Calls, ApplyStart(k) /\ UNCHANGED apiVars
        PROVE  SocketsInv'
    <2>1. Waiting(k) /\ UNCHANGED <<closer, timedOut, store>> /\ call[k].stopping = {}
      BY <1>3, StartRuns DEF ApplyStart, AllStopped, apiVars
    <2>2. \A j \in Calls : /\ Waiting(j) => j = k
                           /\ ~Waiting(j)'
      BY <1>3, <2>1, StartRuns DEF OneRequest, Busy, Waiting
    <2>3. \A q : ~Awaited(q) /\ ~Awaited(q)'
      BY <2>1, <2>2 DEF Awaited
    <2>4. ASSUME closer'.pc = "idle", NEW q \in Procs, Alive(q)'
          PROVE  q \in timedOut' \/ Current(q)'
      <3>1. CASE q[1] \in ToStart(k) /\ q = <<q[1], k>>
        <4>1. running'[q[1]] = <<q[1], k>>
          BY <1>3, <3>1, StartFrame, ProcPairs
        <4> QED BY <3>1, <4>1 DEF Current
      <3>2. CASE proc'[q] = proc[q]
        <4>1. q \in timedOut \/ Current(q)
          BY <2>1, <2>3, <2>4, <3>2 DEF SocketsInv, Alive
        <4>2. q[1] \in Ids /\ q # None
          BY ProcPairs, ManagerAssumption
        <4>3. Current(q) => running'[q[1]] = q
          BY <1>3, <4>2, StartFrame DEF Current
        <4> QED BY <2>1, <4>1, <4>3 DEF Current
      <3> QED BY <1>3, <3>1, <3>2, StartFrame
    <2>5. call[k].items = store
      BY <2>1 DEF OneRequest
    <2>6. \A i \in Ids : running'[i] # None =>
             proc'[running'[i]].config = store[i] /\ proc'[running'[i]].config.enabled
      <3> TAKE i \in Ids
      <3>1. CASE running'[i] = running[i]
                 /\ (running[i] # None => proc'[running[i]] = proc[running[i]])
        BY <2>1, <3>1 DEF RunsTheStore
      <3>2. CASE i \in ToStart(k) /\ proc'[running'[i]].config = call[k].items[i]
        BY <2>5, <3>2 DEF ToStart, Enabled
      <3> QED BY <1>3, <3>1, <3>2, StartRuns
    <2>7. Base'
      BY <1>3, BaseStep DEF Next, ApplyStep
    <2>8. \A i \in Ids : running'[i] # None => store[i] \in Config /\ Enabled(store, i)
      <3>1. \A i \in Ids : running'[i] # None => proc'[running'[i]].config \in Config
        BY <2>7 DEF Base, TypeOK, RunningExists, Configured
      <3> QED BY <2>6, <3>1, ProcPairs DEF Enabled
    <2>9. \A i, j \in Ids :
             /\ running'[i] # None /\ running'[j] # None
             /\ proc'[running'[i]].config.addr = proc'[running'[j]].config.addr
             => i = j
      BY <2>6, <2>8 DEF APIInv, StoreInv, AddressesUnique
    <2> QED BY <2>3, <2>4, <2>9 DEF SocketsInv
  <1>4. CASE QuietStep /\ UNCHANGED apiVars
    <2>1. /\ \A p \in Procs : /\ proc'[p].config = proc[p].config
                              /\ Alive(p)' => Alive(p)
          /\ \A i \in Ids : running'[i] # None => running'[i] = running[i]
          /\ timedOut \subseteq timedOut'
      BY <1>4, QuietFrame
    <2>2. \A j \in Calls : /\ Waiting(j)' <=> Waiting(j)
                           /\ call'[j].stopping \subseteq call[j].stopping
      BY <1>4, QuietFrame DEF Waiting
    <2>3. \A q : Awaited(q)' => Awaited(q)
      BY <2>2 DEF Awaited
    <2>4. \A i, j \in Ids :
             /\ running'[i] # None /\ running'[j] # None
             /\ proc'[running'[i]].config.addr = proc'[running'[j]].config.addr
             => i = j
      BY <2>1 DEF SocketsInv
    <2>5. \A q \in Procs, i \in Ids : Awaited(q)' /\ running'[i] # None
             => proc'[q].config.addr # proc'[running'[i]].config.addr
      BY <2>1, <2>3 DEF SocketsInv
    <2>6. ASSUME closer'.pc = "idle", NEW q \in Procs, Alive(q)'
          PROVE  q \in timedOut' \/ Current(q)' \/ Awaited(q)'
      <3>1. Alive(q) /\ q[1] \in Ids /\ q # None
        BY <2>1, <2>6, ProcPairs, ManagerAssumption
      <3>2. closer.pc = "idle" /\ ~CloseStep
        <4>1. ASSUME CloseStep PROVE closer'.pc # "idle"
          BY <1>0, <4>1 DEF CloseStep, CloseStop, CloseWait, CloseReturn, TypeOK, Closer
        <4>2. ~CloseStep
          BY <2>6, <4>1
        <4>3. ASSUME NEW p \in Procs, RunStep(p) PROVE closer' = closer
          BY <1>0, <4>3, RunStepFrame
        <4>4. closer' = closer
          BY <1>4, <4>2, <4>3 DEF QuietStep, ApplyWaitDone, ApplyWaitTimeout, RootCancel
        <4> QED BY <2>6, <4>2, <4>4
      <3>3. q \in timedOut \/ Current(q) \/ Awaited(q)
        BY <3>1, <3>2 DEF SocketsInv
      <3>4. CASE q \in timedOut
        BY <2>1, <3>4
      <3>5. CASE Current(q)
        <4>1. ASSUME NEW p \in Procs, RunStep(p) PROVE running'[q[1]] = q
          <5>1. CASE p = q
            BY <1>0, <2>6, <3>1, <3>5, <4>1, <5>1, RunStepWrites DEF Alive, Current
          <5>2. CASE p # q
            <6>1. Current(p) => p[1] # q[1]
              BY <3>5, <5>2 DEF Current
            <6>2. running[q[1]] = q /\ running \in [Ids -> Procs \cup {None}]
              BY <1>0, <3>5 DEF TypeOK, Current
            <6>3. CASE UNCHANGED running
              BY <6>2, <6>3
            <6>4. CASE Current(p) /\ running' = [running EXCEPT ![p[1]] = None]
              BY <3>1, <6>1, <6>2, <6>4
            <6> QED BY <1>0, <4>1, <6>3, <6>4, RunStepWrites
          <5> QED BY <5>1, <5>2
        <4>2. CASE running' = running
          BY <3>5, <4>2 DEF Current
        <4> QED
          BY <1>4, <3>2, <4>1, <4>2
          DEF QuietStep, ApplyWaitDone, ApplyWaitTimeout, RootCancel, Current
      <3>6. CASE Awaited(q)
        <4>1. PICK j \in Calls : Waiting(j) /\ q \in call[j].stopping
          BY <3>6 DEF Awaited
        <4>2. CASE q \in call'[j].stopping
          BY <2>2, <4>1, <4>2 DEF Awaited
        <4>3. CASE q \notin call'[j].stopping
          <5>1. \E k \in Calls : ApplyWaitDone(k) \/ ApplyWaitTimeout(k)
            <6>1. ASSUME NEW p \in Procs, RunStep(p) PROVE call' = call
              BY <1>0, <6>1, RunStepFrame
            <6> QED BY <1>4, <3>2, <4>1, <4>3, <6>1 DEF QuietStep, RootCancel
          <5>2. PICK k \in Calls : ApplyWaitDone(k) \/ ApplyWaitTimeout(k)
            BY <5>1
          <5>3. j = k
            BY <1>0, <4>1, <4>3, <5>2 DEF ApplyWaitDone, ApplyWaitTimeout, TypeOK, Call
          <5>4. CASE ApplyWaitDone(k)
            <6>1. proc[q].phase = "done"
              BY <1>0, <4>1, <4>3, <5>3, <5>4 DEF ApplyWaitDone, TypeOK, Call
            <6> QED BY <3>1, <6>1 DEF Alive
          <5>5. CASE ApplyWaitTimeout(k)
            BY <1>0, <4>1, <4>3, <5>3, <5>5 DEF ApplyWaitTimeout, TypeOK, Call
          <5> QED BY <5>2, <5>4, <5>5
        <4> QED BY <4>2, <4>3
      <3> QED BY <3>3, <3>4, <3>5, <3>6
    <2> QED BY <2>4, <2>5, <2>6 DEF SocketsInv
  <1>5. ASSUME NEW k \in Calls, Request(k) \/ Put(k) \/ RuntimeList(k) PROVE SocketsInv'
    BY <1>1, <1>5, APIFrame
  <1>6. CASE UNCHANGED cpVars
    BY <1>1, <1>6 DEF cpVars, vars
  <1> QED BY <1>2, <1>3, <1>4, <1>5, <1>6, StepKinds

-----------------------------------------------------------------------------
(***************************************************************************)
(* What holds when requests do not overlap                                 *)
(***************************************************************************)
SerialInv == OneRequest /\ RunsTheStore /\ FileInv /\ SocketsInv

(* The program starts with Boot as the only request, and nothing running. *)
LEMMA SerialInit == CPInit => SerialInv
  <1> SUFFICES ASSUME CPInit PROVE SerialInv
    OBVIOUS
  <1>1. /\ Boot \in Calls /\ store = disk
        /\ \A k \in Calls : call[k].pc = "idle"
        /\ \A i \in Ids : running[i] = None
        /\ \A p \in Procs : proc[p].phase = "unused"
    BY ControlPlaneAssumption DEF CPInit, Init, Unused
  <1>2. /\ req[Boot].pc = "apply" /\ req[Boot].items = store
        /\ \A k \in Calls : k # Boot => req[k].pc = "idle"
    BY <1>1 DEF CPInit, NoRequest
  <1>3. OneRequest
    BY <1>1, <1>2 DEF OneRequest, Busy, Changing, Waiting
  <1>4. RunsTheStore /\ SocketsInv
    BY <1>1 DEF RunsTheStore, SocketsInv, Waiting, Alive, Awaited
  <1>5. FileInv
    BY <1>1, <1>2 DEF FileInv, Changing
  <1> QED BY <1>3, <1>4, <1>5 DEF SerialInv

(* The invariant of requests that do not overlap. *)
LEMMA SerialHolds ==
    ASSUME Serialized, StoreLists \subseteq Requests
    PROVE  CPSpec => []SerialInv
  <1>1. (Base /\ APIInv /\ NoOrphan) /\ SerialInv /\ [CPNext]_cpVars => SerialInv'
    BY OneRequestStep, RunsTheStoreStep, FileStep, SocketsStep DEF SerialInv
  <1> QED BY <1>1, SerialInit, APIHolds, PTL DEF CPSpec

(***************************************************************************)
(* When no request is being handled, the listeners and statuses are those  *)
(* the file asks for, whatever saves and listeners failed before           *)
(* (server.applyConfiguration, Store.persistLocked, Manager.Apply).        *)
(***************************************************************************)
THEOREM ListenersFollowFile ==
    ASSUME Serialized, StoreLists \subseteq Requests
    PROVE  CPSpec => []RunsTheFile
  <1>1. Base /\ APIInv /\ SerialInv => RunsTheFile
    <2> SUFFICES ASSUME Base, APIInv, SerialInv, Pending = {}, closer.pc = "idle"
                 PROVE  \A i \in Ids : Matches(disk, i)
      BY DEF RunsTheFile
    <2>1. ASSUME NEW k \in Calls, Changing(k) \/ Waiting(k) PROVE FALSE
      <3>1. req[k].pc # "idle" /\ ~Answered(k)
        BY <2>1 DEF Changing, Waiting, Answered, APIInv, RequestsInv
      <3> QED BY <3>1 DEF Pending
    <2> QED BY <2>1 DEF SerialInv, FileInv
  <1> QED BY <1>1, APIHolds, SerialHolds, PTL

(***************************************************************************)
(* "Configuration updates restart only the affected listener": Apply stops *)
(* a process only if the request that calls it is about its upstream, or   *)
(* an earlier change to that upstream could not be saved.                  *)
(***************************************************************************)
THEOREM OnlyAffectedListenersStop ==
    ASSUME Serialized, StoreLists \subseteq Requests
    PROVE  CPSpec => OnlyAffectedStops
  <1> DEFINE A == \A k \in Calls, i \in Ids :
                     /\ call[k].pc = "idle" /\ call'[k].pc = "waiting"
                     /\ running[i] # None /\ running'[i] = None
                     => i = req[k].id \/ i \in dirty
  <1>1. (Base /\ APIInv /\ NoOrphan) /\ SerialInv /\ [CPNext]_cpVars => A
    <2> SUFFICES ASSUME Base, APIInv, SerialInv, [CPNext]_cpVars,
                        NEW k \in Calls, NEW i \in Ids,
                        call[k].pc = "idle", call'[k].pc = "waiting",
                        running[i] # None, running'[i] = None
                 PROVE  i = req[k].id \/ i \in dirty
      OBVIOUS
    <2>1. TypeOK
      BY DEF Base
    <2>2. ASSUME NEW j \in Calls, Apply(j) PROVE i = req[k].id \/ i \in dirty
      <3>1. j = k
        BY <2>2, ApplyFrame
      <3>2. /\ req[k].pc = "apply" /\ proc[running[i]].config # req[k].items[i]
        BY <2>2, <3>1, ApplyFrame
      <3>3. req[k].items = store
        BY <3>2 DEF SerialInv, OneRequest
      <3>4. i \in dirty \/ \E l \in Calls : Changing(l) /\ req[l].id = i
        BY <3>2, <3>3 DEF SerialInv, RunsTheStore
      <3>5. \A l \in Calls : Changing(l) => l = k
        BY <3>2 DEF SerialInv, OneRequest, Busy, Changing
      <3> QED BY <3>4, <3>5
    <2>3. ASSUME NEW j \in Calls, Request(j) \/ Put(j) \/ RuntimeList(j) PROVE FALSE
      BY <2>3, APIFrame DEF vars
    <2>4. ASSUME NEW j \in Calls, ApplyStart(j) PROVE FALSE
      BY <2>1, <2>4, CallFrame DEF ApplyStep
    <2>5. CASE QuietStep
      BY <2>5, QuietFrame
    <2>6. CASE UNCHANGED cpVars
      BY <2>6 DEF cpVars
    <2> QED BY <2>2, <2>3, <2>4, <2>5, <2>6, StepKinds
  <1>2. CPSpec => [][A]_cpVars
    <2> HIDE DEF A
    <2> QED BY <1>1, APIHolds, SerialHolds, PTL DEF CPSpec
  <1> QED BY <1>2 DEF OnlyAffectedStops

-----------------------------------------------------------------------------
(***************************************************************************)
(* Secrets                                                                 *)
(***************************************************************************)

(* The values of one name are told apart by how many come before them. *)
LEMMA RankTells ==
    ASSUME NEW list \in Options, NEW n \in DOMAIN list, NEW m \in DOMAIN list,
           list[n].name = list[m].name,
           Cardinality(Upto(list, DOMAIN list, n)) = Cardinality(Upto(list, DOMAIN list, m))
    PROVE  n = m
  <1>1. /\ DOMAIN list = 1..Len(list) /\ Len(list) \in Nat
        /\ IsFiniteSet(DOMAIN list) /\ n \in Int /\ m \in Int
    BY ListFacts, FS_Interval
  <1>2. ASSUME NEW i \in DOMAIN list, NEW j \in DOMAIN list, list[i].name = list[j].name,
               Cardinality(Upto(list, DOMAIN list, i)) = Cardinality(Upto(list, DOMAIN list, j)),
               i < j
        PROVE  FALSE
    <2> DEFINE T == Upto(list, DOMAIN list, i)
               S == Upto(list, DOMAIN list, j)
    <2>1. S \in SUBSET DOMAIN list
      BY DEF Upto
    <2>2. IsFiniteSet(S)
      BY <1>1, <2>1, FS_Subset
    <2>3. T \in SUBSET S
      BY <1>1, <1>2 DEF Upto
    <2>4. j \in S /\ j \notin T
      BY <1>1, <1>2 DEF Upto
    <2>5. Cardinality(S) = Cardinality(T)
      BY <1>2
    <2> HIDE DEF S, T
    <2> QED BY <2>2, <2>3, <2>4, <2>5, FS_Subset
  <1>3. ~(n < m)
    BY <1>2
  <1>4. ~(m < n)
    BY <1>2
  <1> QED BY <1>1, <1>3, <1>4

(* A keeper with one match takes its value. *)
LEMMA OneMatch ==
    ASSUME NEW body, NEW old, NEW n \in Keepers(body), NEW m \in DOMAIN old,
           Match(body, old, n, m),
           \A l \in DOMAIN old : Match(body, old, n, l) => l = m
    PROVE  MergedValue(body, old, n) = old[m].value
  <1> DEFINE taken == {l \in DOMAIN old : Match(body, old, n, l)}
  <1>1. taken = {m}
    OBVIOUS
  <1>2. (CHOOSE l \in taken : TRUE) = m
    BY <1>1
  <1> QED BY <1>1, <1>2 DEF MergedValue

(* A secret is given by its name and its value. *)
LEMMA SecretParts ==
    ASSUME NEW s \in Secret, NEW t \in Secret, s.name = t.name, s.value = t.value
    PROVE  s = t
BY DEF Secret

(* Sending back what PublicUpstream shows leaves the list as it is. *)
LEMMA ResentKept ==
    ASSUME NEW body \in Body, NEW item \in Config,
           SameOptions(body.item.protocol, item.protocol), NoGaps(item.options),
           body.item.options = Public(item).item.options, body.keep = Public(item).keep
    PROVE  MergeSecrets(body, item).options = item.options
  <1> DEFINE old == item.options
             sent == body.item.options
             new == MergeSecrets(body, item).options
  <1>1. old \in Options /\ new \in Options
    BY MergeType DEF Config
  <1>2. /\ DOMAIN sent = DOMAIN old
        /\ \A n \in DOMAIN old : sent[n] = [old[n] EXCEPT !.value = NoSecret]
        /\ body.keep = {n \in DOMAIN old : old[n].value # NoSecret}
    BY DEF Public, Config
  <1>3. \A n \in DOMAIN old :
          /\ old[n] \in Secret /\ sent[n].name = old[n].name /\ sent[n].value = NoSecret
    BY <1>1, <1>2, ListFacts DEF Secret
  <1>4. Keepers(body) = {n \in DOMAIN old : old[n].value # NoSecret}
    BY <1>2, <1>3 DEF Keepers
  <1>5. ASSUME NEW n \in DOMAIN old PROVE MergedValue(body, old, n) = old[n].value
    <2>1. CASE old[n].value = NoSecret
      BY <1>3, <1>4, <2>1 DEF MergedValue
    <2>2. CASE old[n].value # NoSecret
      <3>1. n \in Keepers(body)
        BY <1>4, <2>2
      <3>2. Upto(sent, Keepers(body), n) = Upto(old, DOMAIN old, n)
        BY <1>3, <1>4, <2>2 DEF Upto, NoGaps
      <3>3. \A m \in DOMAIN old : Match(body, old, n, m) <=>
              /\ old[m].name = old[n].name
              /\ Cardinality(Upto(old, DOMAIN old, m)) = Cardinality(Upto(old, DOMAIN old, n))
        BY <1>3, <3>2 DEF Match
      <3>4. \A m \in DOMAIN old : Match(body, old, n, m) => m = n
        BY <1>1, <3>3, RankTells
      <3>5. Match(body, old, n, n)
        BY <3>3
      <3> QED BY <3>1, <3>4, <3>5, OneMatch
    <2> QED BY <2>1, <2>2
  <1>6. DOMAIN new = DOMAIN old
    BY <1>2, MergeType
  <1>7. ASSUME NEW n \in DOMAIN old PROVE new[n] = old[n]
    <2>a. n \in DOMAIN sent
      BY <1>2
    <2>b. new[n] = [sent[n] EXCEPT !.value = MergedValue(body, old, n)]
      BY <2>a, MergeType
    <2>1. new[n] = [sent[n] EXCEPT !.value = old[n].value]
      BY <1>5, <2>b
    <2>2. new[n].name = old[n].name /\ new[n].value = old[n].value
      BY <1>2, <1>3, <2>1 DEF Secret
    <2>3. new[n] \in Secret
      BY <1>1, <1>6, ListFacts
    <2> QED BY <1>3, <2>2, <2>3, SecretParts
  <1> HIDE DEF new, old
  <1> QED BY <1>1, <1>6, <1>7, ListFacts, ControlPlaneAssumption DEF new, old

(* MergeSecrets keeps the secrets a body leaves alone. *)
LEMMA MergeKeeps ==
    ASSUME NEW body \in Body, NEW item \in Config
    PROVE  Kept(body, item, MergeSecrets(body, item).options)
  <1> DEFINE old == item.options
             sent == body.item.options
             new == MergeSecrets(body, item).options
             same == SameOptions(body.item.protocol, item.protocol)
  <1>1. old \in Options /\ sent \in Options
    BY DEF Config, Body
  <1>2. ASSUME NEW n \in DOMAIN sent, NEW m \in DOMAIN old, same, n \in Keepers(body),
               old[m].name = sent[n].name, Single(old, m), Single(sent, n)
        PROVE  new[n].value = old[m].value
    <2>1. Upto(old, DOMAIN old, m) = {m}
      BY <1>1, <1>2, ListFacts DEF Upto, Single
    <2>2. Upto(sent, Keepers(body), n) = {n}
      BY <1>1, <1>2, ListFacts DEF Upto, Single, Keepers
    <2>3. Match(body, old, n, m)
      BY <1>2, <2>1, <2>2, FS_Singleton DEF Match
    <2>4. \A l \in DOMAIN old : Match(body, old, n, l) => l = m
      BY <1>2 DEF Match, Single
    <2>5. MergedValue(body, old, n) = old[m].value
      BY <1>2, <2>3, <2>4, OneMatch
    <2>6. new[n] = [sent[n] EXCEPT !.value = old[m].value]
      BY <1>2, <2>5, MergeType
    <2> QED BY <1>1, <2>6, ListFacts DEF Secret
  <1>3. ASSUME NEW n \in DOMAIN sent, ~(same /\ n \in Keepers(body))
        PROVE  new[n] = sent[n]
    <2>1. CASE ~same
      BY <2>1, MergeType
    <2>2. CASE same
      <3>1. MergedValue(body, old, n) = sent[n].value
        BY <1>3, <2>2 DEF MergedValue
      <3>2. new[n] = [sent[n] EXCEPT !.value = sent[n].value]
        BY <2>2, <3>1, MergeType
      <3> QED BY <1>1, <3>2, ListFacts DEF Secret
    <2> QED BY <2>1, <2>2
  <1>4. /\ same /\ NoGaps(old)
        /\ sent = Public(item).item.options /\ body.keep = Public(item).keep
        => new = old
    BY ResentKept
  <1> HIDE DEF new
  <1> QED BY <1>2, <1>3, <1>4 DEF Kept, new

(***************************************************************************)
(* However requests overlap, a PUT whose upstream nobody changed since it  *)
(* was read (server.go:96) leaves the secrets it does not change as they   *)
(* were: config.MergeSecrets undoes what PublicUpstreams blanked, for any  *)
(* number of header rules of one name, and takes nothing else.             *)
(***************************************************************************)
THEOREM KeptSecretsStay ==
    ASSUME StoreLists \subseteq Requests
    PROVE  CPSpec => SecretsKept
  <1> DEFINE A == \A k \in Calls :
                     /\ req[k].pc = "put" /\ req'[k].pc # "put" /\ store' # store
                     /\ req[k].existing # None /\ req[k].existing = store[req[k].id]
                     => Kept(req[k].body, store[req[k].id], store'[req[k].id].options)
  <1>1. (Base /\ APIInv /\ NoOrphan) /\ [CPNext]_cpVars => A
    <2> SUFFICES ASSUME Base, APIInv, [CPNext]_cpVars, NEW k \in Calls,
                        req[k].pc = "put", req'[k].pc # "put", store' # store,
                        req[k].existing # None, req[k].existing = store[req[k].id]
                 PROVE  Kept(req[k].body, store[req[k].id], store'[req[k].id].options)
      OBVIOUS
    <2>1. Put(k)
      <3>1. ASSUME NEW j \in Calls, Request(j) \/ Put(j) \/ RuntimeList(j) PROVE Put(k)
        <4>1. j = k
          BY <3>1, APIFrame
        <4> QED
          BY <3>1, <4>1
          DEF Request, Update, Create, Delete, DeleteMissing, Accepts, RuntimeList
      <3>2. ASSUME NEW j \in Calls, Apply(j) PROVE FALSE
        BY <3>2, ApplyFrame
      <3> QED BY <3>1, <3>2, StepKinds DEF apiVars, cpVars
    <2>2. /\ req[k].id \in Ids /\ req[k].body \in Body
          /\ store[req[k].id] \in Config
      BY ItemsFacts DEF APIInv, RequestsInv, CPTypeOK
    <2>3. store' = [store EXCEPT ![req[k].id] = MergeSecrets(req[k].body, store[req[k].id])]
      BY <2>1 DEF Put, Save, Reject, Item
    <2>4. store'[req[k].id] = MergeSecrets(req[k].body, store[req[k].id])
      BY <2>2, <2>3 DEF APIInv, CPTypeOK, ItemMaps
    <2> QED BY <2>2, <2>4, MergeKeeps
  <1>2. CPSpec => [][A]_cpVars
    <2> HIDE DEF A
    <2> QED BY <1>1, APIHolds, PTL DEF CPSpec
  <1> QED BY <1>2 DEF SecretsKept

(* What a PUT holds of its upstream is what the store has. *)
ReadsAreFresh ==
    \A k \in Calls : req[k].pc = "put" /\ req[k].existing # None =>
                       req[k].existing = store[req[k].id]

(***************************************************************************)
(* When requests do not overlap, no PUT merges with an upstream that was   *)
(* changed since it was read (server.go:96), so the exception of           *)
(* SecretsKept does not arise.                                             *)
(***************************************************************************)
THEOREM SerialReadsAreFresh ==
    ASSUME Serialized, StoreLists \subseteq Requests
    PROVE  CPSpec => []ReadsAreFresh
  <1>1. SerialInv => ReadsAreFresh
    BY DEF SerialInv, OneRequest, ReadsAreFresh
  <1> QED BY <1>1, SerialHolds, PTL

(***************************************************************************)
(* net.Listen of a process that is to run finds its address in use by the  *)
(* manager only where Manager.Apply gave up waiting for the holder, also   *)
(* when upstreams exchange addresses, fail, or the program is stopped.     *)
(***************************************************************************)
THEOREM ConflictsNeedTimeouts ==
    ASSUME Serialized, StoreLists \subseteq Requests
    PROVE  CPSpec => []ConflictNeedsTimeout
  <1>1. Base /\ NoOrphan /\ NoPortLeak /\ ShutdownInv /\ SerialInv => ConflictNeedsTimeout
    <2> SUFFICES ASSUME Base, NoOrphan, NoPortLeak, ShutdownInv, SerialInv, NEW p \in Procs,
                        proc[p].phase = "launched", ~proc[p].cancelled,
                        bound[proc[p].config.addr] # None
                 PROVE  bound[proc[p].config.addr] \in timedOut
      BY DEF ConflictNeedsTimeout
    <2> DEFINE a == proc[p].config.addr
               q == bound[a]
    <2>1. a \in Addrs
      BY DEF Base, Configured, Config
    <2>2. /\ q \in Procs /\ q # None
          /\ proc[q].phase \in {"bound", "serving", "draining"} /\ proc[q].config.addr = a
      BY <2>1 DEF Base, TypeOK, NoPortLeak
    <2>3. Alive(p) /\ Alive(q)
      BY <2>2 DEF Alive
    <2>4. closer.pc = "idle"
      BY <2>3 DEF ShutdownInv
    <2>5. p[1] \in Ids /\ running[p[1]] = p /\ p # None
      BY <2>3, ProcPairs, ManagerAssumption DEF NoOrphan, Current
    <2> HIDE DEF a, q
    <2>6. q \in timedOut \/ Current(q) \/ Awaited(q)
      BY <2>2, <2>3, <2>4 DEF SerialInv, SocketsInv
    <2>7. ~Awaited(q)
      BY <2>2, <2>5 DEF SerialInv, SocketsInv, a
    <2>8. ASSUME Current(q) PROVE FALSE
      <3>1. q[1] \in Ids /\ running[q[1]] = q
        BY <2>2, <2>8, ProcPairs DEF Current
      <3>2. q[1] = p[1]
        BY <2>2, <2>5, <3>1 DEF SerialInv, SocketsInv, a
      <3> QED BY <2>2, <2>5, <3>1, <3>2
    <2> QED BY <2>6, <2>7, <2>8 DEF q, a
  <1>2. CPSpec => []NoPortLeak
    BY ManagerImplemented, NoPortIsLeaked, PTL DEF ImplementsManager
  <1> QED BY <1>1, <1>2, APIHolds, ShutdownHolds, SerialHolds, PTL

=============================================================================
