------------------------------ MODULE Manager ------------------------------
(***************************************************************************)
(* The runtime manager (internal/proxy/manager.go) and the life of the     *)
(* adapter processes it starts (Run of the TCP adapters).                  *)
(*                                                                         *)
(* Apply makes the set of running listeners match a list of upstreams.  It *)
(* takes the manager's lock twice and waits, unlocked, in between, so      *)
(* several Apply calls, the processes and Close interleave.  Every call of *)
(* Apply is a member of Calls, and the process that call k starts for      *)
(* upstream id is <<id, k>>: it stands for the `done` channel by which the *)
(* code tells two processes of one upstream apart.                         *)
(***************************************************************************)
EXTENDS Integers, FiniteSets

CONSTANTS
    Ids,          \* upstream IDs
    Addrs,        \* listen addresses
    Protocols,    \* protocol names an upstream may carry
    Options,      \* the rest of an upstream
    Factories,    \* the protocols an adapter factory is registered for
    Calls,        \* the calls of Apply a behaviour may contain
    Requests,     \* the lists of upstreams Apply is called with
    MaxClients,   \* bound on the connections one process serves at a time
    Serialized,   \* TRUE when callers never overlap two calls of Apply
    None          \* no process, no upstream

(* config.Upstream, reduced to what the manager reads and compares. *)
Config == [addr : Addrs, enabled : BOOLEAN, protocol : Protocols,
           options : Options]

(* A process is named by its upstream and the call that started it. *)
Procs == Ids \X Calls

(***************************************************************************)
(* Lists of upstreams, keyed by ID.  The configuration store admits no two *)
(* enabled upstreams on one listen address.                                *)
(***************************************************************************)
ItemMaps == [Ids -> Config \cup {None}]

Enabled(items, id) == items[id] # None /\ items[id].enabled

AddressesUnique(items) ==
    \A i, j \in Ids : /\ Enabled(items, i) /\ Enabled(items, j)
                      /\ items[i].addr = items[j].addr
                      => i = j

ASSUME ManagerAssumption ==
    /\ Factories \subseteq Protocols
    /\ Requests \subseteq ItemMaps
    /\ MaxClients \in Nat
    /\ Serialized \in BOOLEAN
    /\ None \notin Procs
    /\ None \notin Config

VARIABLES
    running,    \* m.running: the current process of each upstream, or None
    statuses,   \* m.statuses, with the process or call that wrote the entry
    proc,       \* the goroutine m.run and the adapter below it
    bound,      \* which process holds the listening socket of an address
    call,       \* the calls of Apply: where they are and what they wait for
    closer,     \* the call of Close
    rootDone,   \* the root context is cancelled
    timedOut    \* processes whose two seconds to stop ran out (history)

vars == <<running, statuses, proc, bound, call, closer, rootDone, timedOut>>

-----------------------------------------------------------------------------
(***************************************************************************)
(* States.                                                                 *)
(*                                                                         *)
(* Phases of a process:                                                    *)
(*   unused     not started                                                *)
(*   launched   the goroutine exists, net.Listen has not run               *)
(*   bound      the socket listens, ready has not been called              *)
(*   serving    in the accept loop                                         *)
(*   draining   Accept failed; waiting for clients.Wait                    *)
(*   returned   Run returned; m.run has not taken the lock yet             *)
(*   done       the done channel is closed                                 *)
(***************************************************************************)
Phases  == {"unused", "launched", "bound", "serving", "draining",
            "returned", "done"}
Results == {"none", "canceled", "error"}

Process == [phase : Phases, config : Config \cup {None}, cancelled : BOOLEAN,
            result : Results, clients : 0..MaxClients]

Unused == [phase |-> "unused", config |-> None, cancelled |-> FALSE,
           result |-> "none", clients |-> 0]

Status == [state : {"none", "disabled", "error", "starting", "running"},
           by : Procs \cup {None}]

NoStatus == [state |-> "none", by |-> None]

Call   == [pc : {"idle", "waiting", "returned"},
           items : ItemMaps, stopping : SUBSET Procs]
Closer == [pc : {"idle", "waiting", "returned"}, stopping : SUBSET Procs]

NoItems == [i \in Ids |-> None]

Init ==
    /\ running  = [i \in Ids |-> None]
    /\ statuses = [i \in Ids |-> NoStatus]
    /\ proc     = [p \in Procs |-> Unused]
    /\ bound    = [a \in Addrs |-> None]
    /\ call     = [k \in Calls |-> [pc |-> "idle", items |-> NoItems,
                                    stopping |-> {}]]
    /\ closer   = [pc |-> "idle", stopping |-> {}]
    /\ rootDone = FALSE
    /\ timedOut = {}

InProgress == {k \in Calls : call[k].pc = "waiting"}

-----------------------------------------------------------------------------
(***************************************************************************)
(* Apply                                                                   *)
(***************************************************************************)

(* Fault: every change stops every upstream. *)
OutdatedFaultAll(items) == {i \in Ids : running[i] # None}

(* The running upstreams that `items` no longer contains, or changes. *)
Outdated(items) ==
    {i \in Ids : running[i] # None /\ proc[running[i]].config # items[i]}

(* Fault: the context of a removed process is not cancelled. *)
CancelFault(ps) == proc

Cancel(ps) ==
    [p \in Procs |-> IF p \in ps THEN [proc[p] EXCEPT !.cancelled = TRUE]
                                 ELSE proc[p]]

(***************************************************************************)
(* First critical section: cancel and forget the outdated processes, and   *)
(* forget the statuses of the upstreams that are gone.                     *)
(***************************************************************************)
ApplyStop(k, items) ==
    LET stopped == {running[i] : i \in Outdated(items)}
    IN  /\ call[k].pc = "idle"
        /\ Serialized => InProgress = {}
        /\ proc'     = Cancel(stopped)
        /\ running'  = [i \in Ids |-> IF i \in Outdated(items)
                                        THEN None ELSE running[i]]
        /\ statuses' = [i \in Ids |-> IF items[i] = None
                                        THEN NoStatus ELSE statuses[i]]
        /\ call' = [call EXCEPT ![k] = [pc |-> "waiting", items |-> items,
                                        stopping |-> stopped]]
        /\ UNCHANGED <<bound, closer, rootDone, timedOut>>

(* Unlocked: one of the stopped processes closed its done channel ... *)
ApplyWaitDone(k) ==
    /\ call[k].pc = "waiting"
    /\ \E p \in call[k].stopping :
          /\ proc[p].phase = "done"
          /\ call' = [call EXCEPT ![k].stopping = @ \ {p}]
    /\ UNCHANGED <<running, statuses, proc, bound, closer, rootDone, timedOut>>

(* ... or did not within two seconds. *)
ApplyWaitTimeout(k) ==
    /\ call[k].pc = "waiting"
    /\ \E p \in call[k].stopping :
          /\ proc[p].phase # "done"
          /\ call' = [call EXCEPT ![k].stopping = @ \ {p}]
          /\ timedOut' = timedOut \cup {p}
    /\ UNCHANGED <<running, statuses, proc, bound, closer, rootDone>>

(* Fault: Apply does not wait for the processes it stopped. *)
AllStoppedFault(k) == TRUE

(* The loop over the stopped processes has come to its end. *)
AllStopped(k) == call[k].stopping = {}

(* The upstreams call k starts: enabled, not running, and of a known kind. *)
ToStart(k) ==
    {i \in Ids : /\ running[i] = None
                 /\ Enabled(call[k].items, i)
                 /\ call[k].items[i].protocol \in Factories}

(* Fault: the context of a process does not derive from the root context. *)
LaunchedFault(k, i) ==
    [phase |-> "launched", config |-> call[k].items[i],
     cancelled |-> FALSE, result |-> "none", clients |-> 0]

Launched(k, i) ==
    [phase |-> "launched", config |-> call[k].items[i],
     cancelled |-> rootDone, result |-> "none", clients |-> 0]

(* Fault: the entry of an upstream that is not started is left alone. *)
StatusAfterFault(k, i) ==
    IF i \in ToStart(k) THEN [state |-> "starting", by |-> <<i, k>>]
                        ELSE statuses[i]

(* The entry the second critical section writes for upstream i. *)
StatusAfter(k, i) ==
    CASE running[i] # None \/ call[k].items[i] = None -> statuses[i]
      [] i \in ToStart(k) -> [state |-> "starting", by |-> <<i, k>>]
      [] OTHER -> [state |-> IF Enabled(call[k].items, i)
                               THEN "error" ELSE "disabled",
                   by |-> None]

(***************************************************************************)
(* Second critical section, entered when nothing is left to wait for.      *)
(***************************************************************************)
ApplyStart(k) ==
    /\ call[k].pc = "waiting"
    /\ AllStopped(k)
    /\ proc' = [p \in Procs |-> IF p[1] \in ToStart(k) /\ p[2] = k
                                  THEN Launched(k, p[1]) ELSE proc[p]]
    /\ running'  = [i \in Ids |-> IF i \in ToStart(k)
                                    THEN <<i, k>> ELSE running[i]]
    /\ statuses' = [i \in Ids |-> StatusAfter(k, i)]
    /\ call'     = [call EXCEPT ![k].pc = "returned"]
    /\ UNCHANGED <<bound, closer, rootDone, timedOut>>

-----------------------------------------------------------------------------
(***************************************************************************)
(* Close and the root context                                              *)
(***************************************************************************)
CloseStop ==
    LET stopped == {running[i] : i \in {j \in Ids : running[j] # None}}
    IN  /\ closer.pc = "idle"
        /\ proc'    = Cancel(stopped)
        /\ running' = [i \in Ids |-> None]
        /\ closer'  = [pc |-> "waiting", stopping |-> stopped]
        /\ UNCHANGED <<statuses, bound, call, rootDone, timedOut>>

CloseWait ==
    /\ closer.pc = "waiting"
    /\ \E p \in closer.stopping :
          /\ closer' = [closer EXCEPT !.stopping = @ \ {p}]
          /\ timedOut' = IF proc[p].phase = "done" THEN timedOut
                                                   ELSE timedOut \cup {p}
    /\ UNCHANGED <<running, statuses, proc, bound, call, rootDone>>

CloseReturn ==
    /\ closer.pc = "waiting"
    /\ closer.stopping = {}
    /\ closer' = [closer EXCEPT !.pc = "returned"]
    /\ UNCHANGED <<running, statuses, proc, bound, call, rootDone, timedOut>>

(* The signal context every process context derives from is cancelled. *)
RootCancel ==
    /\ ~rootDone
    /\ rootDone' = TRUE
    /\ proc' = Cancel({p \in Procs : proc[p].phase # "unused"})
    /\ UNCHANGED <<running, statuses, bound, call, closer, timedOut>>

-----------------------------------------------------------------------------
(***************************************************************************)
(* A process: adapter.Run, then the tail of m.run                          *)
(***************************************************************************)
(* Faults: a process does not, or wrongly, check that it is the current one. *)
CurrentFaultAlways(p) == TRUE
CurrentFaultNever(p) == FALSE

Current(p) == running[p[1]] = p

Holds(p) == bound[proc[p].config.addr] = p

SetPhase(p, phase) == proc' = [proc EXCEPT ![p].phase = phase]

Fails(p) == proc' = [proc EXCEPT ![p].phase = "returned", ![p].result = "error"]

(* Fault: a listener is left open. *)
ReleaseFault(p) == bound' = bound

Release(p) ==
    bound' = [a \in Addrs |-> IF bound[a] = p THEN None ELSE bound[a]]

(* net.Listen succeeds: no process of this program holds the address. *)
Listen(p) ==
    /\ proc[p].phase = "launched"
    /\ bound[proc[p].config.addr] = None
    /\ SetPhase(p, "bound")
    /\ bound' = [bound EXCEPT ![proc[p].config.addr] = p]
    /\ UNCHANGED <<running, statuses, call, closer, rootDone, timedOut>>

(* net.Listen fails: the address is in use, here or elsewhere, or refused. *)
ListenFails(p) ==
    /\ proc[p].phase = "launched"
    /\ Fails(p)
    /\ UNCHANGED <<running, statuses, bound, call, closer, rootDone, timedOut>>

(* tlsutil.Server rejects the listener certificate: close, return the error. *)
TLSFails(p) ==
    /\ proc[p].phase = "bound"
    /\ Fails(p)
    /\ Release(p)
    /\ UNCHANGED <<running, statuses, call, closer, rootDone, timedOut>>

(***************************************************************************)
(* ready(addr): setStatus writes only while p is the current process; the  *)
(* goroutine that closes the listener starts and the accept loop begins.   *)
(***************************************************************************)
Ready(p) ==
    /\ proc[p].phase = "bound"
    /\ SetPhase(p, "serving")
    /\ statuses' = IF Current(p)
                     THEN [statuses EXCEPT
                             ![p[1]] = [state |-> "running", by |-> p]]
                     ELSE statuses
    /\ UNCHANGED <<running, bound, call, closer, rootDone, timedOut>>

(* Fault: no goroutine closes the listener of a cancelled context. *)
CloseListenerFault(p) == FALSE

(* <-ctx.Done(); listener.Close() *)
CloseListener(p) ==
    /\ proc[p].phase \in {"serving", "draining"}
    /\ proc[p].cancelled
    /\ Holds(p)
    /\ Release(p)
    /\ UNCHANGED <<running, statuses, proc, call, closer, rootDone, timedOut>>

Accept(p) ==
    /\ proc[p].phase = "serving"
    /\ Holds(p)
    /\ proc[p].clients < MaxClients
    /\ proc' = [proc EXCEPT ![p].clients = @ + 1]
    /\ UNCHANGED <<running, statuses, bound, call, closer, rootDone, timedOut>>

ClientDone(p) ==
    /\ proc[p].clients > 0
    /\ proc' = [proc EXCEPT ![p].clients = @ - 1]
    /\ UNCHANGED <<running, statuses, bound, call, closer, rootDone, timedOut>>

(***************************************************************************)
(* Accept fails, because the listener is closed or for a reason of its own;*)
(* what Run will return depends on whether ctx is cancelled by now.        *)
(***************************************************************************)
AcceptFails(p) ==
    /\ proc[p].phase = "serving"
    /\ proc' = [proc EXCEPT ![p].phase = "draining",
                            ![p].result = IF proc[p].cancelled
                                            THEN "canceled" ELSE "error"]
    /\ UNCHANGED <<running, statuses, bound, call, closer, rootDone, timedOut>>

(* The deferred calls, last one first: clients.Wait, then listener.Close. *)
Drained(p) ==
    /\ proc[p].phase = "draining"
    /\ proc[p].clients = 0
    /\ SetPhase(p, "returned")
    /\ Release(p)
    /\ UNCHANGED <<running, statuses, call, closer, rootDone, timedOut>>

(***************************************************************************)
(* The tail of m.run: an error of the current process becomes the status   *)
(* of the upstream, and done is closed.  The lock is released before the   *)
(* close, but nothing can observe the difference except a waiter, which    *)
(* only gets later.                                                        *)
(***************************************************************************)
RunReturn(p) ==
    /\ proc[p].phase = "returned"
    /\ SetPhase(p, "done")
    /\ IF proc[p].result = "error" /\ Current(p)
         THEN /\ statuses' = [statuses EXCEPT
                                ![p[1]] = [state |-> "error", by |-> p]]
              /\ running' = [running EXCEPT ![p[1]] = None]
         ELSE UNCHANGED <<statuses, running>>
    /\ UNCHANGED <<bound, call, closer, rootDone, timedOut>>

-----------------------------------------------------------------------------
ApplyStep(k) == ApplyWaitDone(k) \/ ApplyWaitTimeout(k) \/ ApplyStart(k)

CloseStep == CloseStop \/ CloseWait \/ CloseReturn

RunStep(p) ==
    \/ Listen(p) \/ ListenFails(p) \/ TLSFails(p) \/ Ready(p)
    \/ CloseListener(p) \/ Accept(p) \/ ClientDone(p) \/ AcceptFails(p)
    \/ Drained(p) \/ RunReturn(p)

Next ==
    \/ \E k \in Calls : \/ \E items \in Requests : ApplyStop(k, items)
                        \/ ApplyStep(k)
    \/ CloseStep
    \/ RootCancel
    \/ \E p \in Procs : RunStep(p)

Spec == Init /\ [][Next]_vars

(***************************************************************************)
(* Fairness: a goroutine that can run does run.  The runtime closes a      *)
(* cancelled listener, Accept then fails, the deferred calls and the tail  *)
(* of m.run follow, and a select with a timer returns.  Nothing is assumed *)
(* of clients: a connection may stay open for ever (ClientDone), and no    *)
(* listener need fail by itself.                                           *)
(***************************************************************************)
AcceptFailsClosed(p) ==
    proc[p].phase = "serving" /\ ~Holds(p) /\ AcceptFails(p)

Fairness ==
    /\ \A k \in Calls : WF_vars(ApplyStep(k))
    /\ WF_vars(CloseWait \/ CloseReturn)
    /\ \A p \in Procs : /\ WF_vars(Listen(p) \/ ListenFails(p))
                        /\ WF_vars(Ready(p) \/ TLSFails(p))
                        /\ WF_vars(CloseListener(p))
                        /\ WF_vars(AcceptFailsClosed(p))
                        /\ WF_vars(Drained(p))
                        /\ WF_vars(RunReturn(p))

FairSpec == Spec /\ Fairness
-----------------------------------------------------------------------------
(***************************************************************************)
(* Properties                                                              *)
(***************************************************************************)

(* Every variable has its type. *)
TypeOK ==
    /\ running  \in [Ids -> Procs \cup {None}]
    /\ statuses \in [Ids -> Status]
    /\ proc     \in [Procs -> Process]
    /\ bound    \in [Addrs -> Procs \cup {None}]
    /\ call     \in [Calls -> Call]
    /\ closer   \in Closer
    /\ rootDone \in BOOLEAN
    /\ timedOut \in SUBSET Procs

Alive(p) == proc[p].phase \notin {"unused", "done"}

(***************************************************************************)
(* A process that was started, has not ended and was not told to stop is   *)
(* the entry of its upstream in m.running: no listener escapes the manager,*)
(* and an upstream never has two of them, however calls of Apply, Close    *)
(* and failing processes interleave.                                       *)
(***************************************************************************)
NoOrphan ==
    \A p \in Procs : Alive(p) /\ ~proc[p].cancelled => Current(p)

(***************************************************************************)
(* The status of a running upstream was written by or for its current      *)
(* process, never by one it replaced, and says "starting" until that       *)
(* process called ready.                                                   *)
(***************************************************************************)
StatusOfCurrent ==
    \A i \in Ids : running[i] # None =>
        LET p == running[i]
        IN  /\ p[1] = i
            /\ statuses[i].by = p
            /\ statuses[i].state \in {"starting", "running"}
            /\ proc[p].phase \in {"launched", "bound"}
                 => statuses[i].state = "starting"
            /\ proc[p].phase \in {"serving", "draining"}
                 => statuses[i].state = "running"

(***************************************************************************)
(* Until Close, an upstream shown as starting or running has a process, or *)
(* a call of Apply is under way that will write its status anew.           *)
(***************************************************************************)
LiveStatusHasProcess ==
    \A i \in Ids :
        statuses[i].state \in {"starting", "running"} /\ closer.pc = "idle"
        => \/ running[i] # None
           \/ \E k \in InProgress : call[k].items[i] # None

(***************************************************************************)
(* A listening socket belongs to a process that is between Listen and the  *)
(* end of its deferred calls: no path out of Run leaks the port.           *)
(***************************************************************************)
NoPortLeak ==
    \A a \in Addrs : bound[a] # None =>
        /\ proc[bound[a]].phase \in {"bound", "serving", "draining"}
        /\ proc[bound[a]].config.addr = a

(***************************************************************************)
(* A start finds its address in use by a process of the manager only if    *)
(* that process did not stop within the two seconds Apply waits for it,    *)
(* also when upstreams exchange their addresses.  It holds when calls of   *)
(* Apply do not overlap.                                                   *)
(***************************************************************************)
ConflictNeedsTimeout ==
    \A p \in Procs :
        LET holder == bound[proc[p].config.addr]
        IN  proc[p].phase = "launched" /\ ~proc[p].cancelled /\ holder # None
            => holder \in timedOut

(* A cancelled process gives its port up for good, whatever its clients do. *)
CancelledFreesPort ==
    \A p \in Procs :
        proc[p].cancelled ~> [](\A a \in Addrs : bound[a] # p)

(***************************************************************************)
(* Apply returns, even when a process it stopped never ends; and until     *)
(* Close, "starting" is not the last word on an upstream it started.       *)
(***************************************************************************)
ApplySettles ==
    /\ \A k \in Calls : call[k].pc = "waiting" ~> call[k].pc = "returned"
    /\ \A i \in Ids : statuses[i].state = "starting"
                      ~> statuses[i].state # "starting" \/ closer.pc # "idle"

=============================================================================
