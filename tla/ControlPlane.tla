---------------------------- MODULE ControlPlane ----------------------------
(***************************************************************************)
(* The management API on top of the configuration store and the runtime    *)
(* manager: internal/server/server.go (putUpstream, deleteUpstream,        *)
(* applyConfiguration), internal/config (Store) and the start and the      *)
(* shutdown of internal/cli/cli.go.                                        *)
(*                                                                         *)
(* Every HTTP request runs in a goroutine of its own.  Each call it makes  *)
(* takes and releases the store's or the manager's lock, so each call is   *)
(* one step and requests interleave between them.  A request k makes at    *)
(* most one call of Apply, the call k of module Manager; Boot is the call  *)
(* the program makes before it serves requests.                            *)
(***************************************************************************)
EXTENDS Manager, Sequences

CONSTANTS
    Boot,         \* the call of Apply made by cli.run
    Names,        \* what tells write-only values apart (see Secret)
    Values,       \* what a write-only value may be
    NoSecret,     \* the empty one
    Resolvable,   \* the values that name no missing environment variable
    HTTPOptions,  \* the protocols whose settings are config.HTTPOptions
    Required,     \* for each protocol, the values Validate insists on
    Files,        \* the documents the program may be started with
    Bodies        \* the request bodies

(***************************************************************************)
(* The options of an upstream are the list of its write-only values.  A    *)
(* database or broker has two, its listener's and its upstream's password; *)
(* an HTTP or gRPC upstream has one for each sensitive header rule, whose  *)
(* name stands for the group, the action and the header, in any case.      *)
(***************************************************************************)
Secret == [name : Names, value : Values]

(***************************************************************************)
(* What POST and PUT send: an upstream, and the positions of the values    *)
(* with a "value set" marker.                                              *)
(***************************************************************************)
Body == [item : Config, keep : SUBSET Nat]

ASSUME ControlPlaneAssumption ==
    /\ Boot \in Calls
    /\ Options \subseteq Seq(Secret)
    /\ \A list \in Options : [DOMAIN list -> Secret] \subseteq Options
    /\ NoSecret \in Values
    /\ Files \subseteq ItemMaps
    /\ Bodies \subseteq Body

VARIABLES
    store,    \* Store.items
    disk,     \* the document in portscope.json
    req,      \* the requests
    dirty     \* upstreams changed in the store but not saved (history)

cpVars == <<running, statuses, proc, bound, call, closer, rootDone, timedOut,
            store, disk, req, dirty>>

apiVars == <<store, disk, req, dirty>>

(***************************************************************************)
(* Positions of a request:                                                 *)
(*   idle      not received                                                *)
(*   put       about to call Store.Put; a PUT holds the upstream it read   *)
(*   list      the store is changed and saved; about to call RuntimeList   *)
(*   apply     holds the list it will pass to Apply                        *)
(*   applying  inside Apply; answered when Apply returns                   *)
(*   rejected  answered with a 4xx or 5xx status                           *)
(***************************************************************************)
RequestState ==
    [pc : {"idle", "put", "list", "apply", "applying", "rejected"},
     kind : {"none", "put", "delete"}, id : Ids \cup {None},
     body : Body \cup {None}, existing : Config \cup {None},
     items : ItemMaps]

NoRequest == [pc |-> "idle", kind |-> "none", id |-> None, body |-> None,
              existing |-> None, items |-> NoItems]

Answered(k) ==
    \/ req[k].pc = "rejected"
    \/ req[k].pc = "applying" /\ call[k].pc = "returned"

Pending == {k \in Calls : req[k].pc # "idle" /\ ~Answered(k)}

-----------------------------------------------------------------------------
(***************************************************************************)
(* Store                                                                   *)
(***************************************************************************)

(* materializeUpstream finds every variable an upstream names. *)
Expands(item) == \A n \in DOMAIN item.options : item.options[n].value \in Resolvable

(* RuntimeList returns a list, and no error: it expands what is enabled. *)
Materializes(items) == \A i \in Ids : Enabled(items, i) => Expands(items[i])

(* Put tries the expansion of an enabled upstream before it stores it. *)
PutExpands(item) == item.enabled => Expands(item)

(* Validate: the passwords the protocol cannot do without are given. *)
Validate(item) ==
    \A name \in Required[item.protocol] : \E n \in DOMAIN item.options :
        item.options[n].name = name /\ item.options[n].value # NoSecret

(* Fault: Put compares the address with that of one upstream only, its own. *)
ConflictFault(id, item) == FALSE

(* The listen address is in use by another enabled upstream. *)
Conflict(id, item) ==
    \E j \in Ids \ {id} : /\ Enabled(store, j) /\ item.enabled
                          /\ store[j].addr = item.addr

(***************************************************************************)
(* What GET shows of an upstream (PublicUpstream): its values are blanked  *)
(* and those that were set are marked.                                     *)
(***************************************************************************)
Public(item) ==
    [item |-> [item EXCEPT !.options =
                  [n \in DOMAIN @ |-> [@[n] EXCEPT !.value = NoSecret]]],
     keep |-> {n \in DOMAIN item.options : item.options[n].value # NoSecret}]

(* The settings of both are held by the same options of config.Upstream. *)
SameOptions(p, q) == p = q \/ {p, q} \subseteq HTTPOptions

(* The positions of a body that say "keep existing": empty, but marked. *)
Keepers(body) ==
    {n \in body.keep \cap DOMAIN body.item.options :
        body.item.options[n].value = NoSecret}

(* Of the positions P of a list, those up to n that have n's name. *)
Upto(list, P, n) == {m \in P : m <= n /\ list[m].name = list[n].name}

(***************************************************************************)
(* mergeRuleSecrets walks through the keepers and gives each the first     *)
(* value of its name that none before it has taken.  So the n-th keeper of *)
(* a name takes the n-th value of that name, empty or not.  For passwords, *)
(* with one value of each name, this is the assignment MergeSecrets makes. *)
(***************************************************************************)
Match(body, old, n, m) ==
    /\ old[m].name = body.item.options[n].name
    /\ Cardinality(Upto(old, DOMAIN old, m)) =
         Cardinality(Upto(body.item.options, Keepers(body), n))

MergedValue(body, old, n) ==
    LET taken == {m \in DOMAIN old : Match(body, old, n, m)}
    IN  IF n \in Keepers(body) /\ taken # {}
          THEN old[CHOOSE m \in taken : TRUE].value
          ELSE body.item.options[n].value

(* Fault: the nil checks are left out, so any protocol's values are taken. *)
MergeSecretsFault(body, existing) ==
    [body.item EXCEPT !.options =
        [n \in DOMAIN @ |->
           [@[n] EXCEPT !.value = MergedValue(body, existing.options, n)]]]

(* MergeSecrets fills in what the body keeps of the existing upstream. *)
MergeSecrets(body, existing) ==
    IF SameOptions(body.item.protocol, existing.protocol)
      THEN [body.item EXCEPT !.options =
              [n \in DOMAIN @ |->
                 [@[n] EXCEPT !.value = MergedValue(body, existing.options, n)]]]
      ELSE body.item

(* Fault: the document is written before the change is made. *)
SaveFault(k, items) ==
    /\ store' = items
    /\ disk' = store /\ dirty' = dirty
    /\ req' = [req EXCEPT ![k].pc = "list"]

(***************************************************************************)
(* Replace the items and write the document (persistLocked), under one     *)
(* lock.  A failed write leaves the file alone, as it replaces it by a     *)
(* rename, keeps the new items in memory and ends the request.             *)
(***************************************************************************)
Save(k, items) ==
    /\ store' = items
    /\ \/ /\ disk' = items
          /\ dirty' = dirty
          /\ req' = [req EXCEPT ![k].pc = "list"]
       \/ /\ disk' = disk
          /\ dirty' = dirty \cup {i \in Ids : items[i] # store[i]}
          /\ req' = [req EXCEPT ![k].pc = "rejected"]

Reject(k) ==
    /\ req' = [req EXCEPT ![k].pc = "rejected"]
    /\ UNCHANGED <<store, disk, dirty>>

-----------------------------------------------------------------------------
(***************************************************************************)
(* The program starts: OpenStore reads the document and checks it,         *)
(* RuntimeList expands it and Apply is called with the result.             *)
(***************************************************************************)
CPInit ==
    /\ Init
    /\ disk \in {items \in Files :
          /\ AddressesUnique(items) /\ Materializes(items)
          /\ \A i \in Ids : items[i] # None => Validate(items[i])}
    /\ store = disk
    /\ req = [k \in Calls |-> IF k = Boot
                                THEN [NoRequest EXCEPT !.pc = "apply",
                                                       !.items = disk]
                                ELSE NoRequest]
    /\ dirty = {}

(* The server accepts a request once cli.run called ListenAndServe. *)
Accepts(k) ==
    /\ call[Boot].pc = "returned"
    /\ closer.pc = "idle"
    /\ req[k].pc = "idle"
    /\ Serialized => Pending = {}

(* PUT: Get, which returns a copy; 404 when there is no such upstream. *)
Update(k, id, body) ==
    /\ Accepts(k)
    /\ req' = [req EXCEPT ![k] =
          [NoRequest EXCEPT !.kind = "put", !.id = id, !.body = body,
             !.existing = store[id],
             !.pc = IF store[id] = None THEN "rejected" ELSE "put"]]
    /\ UNCHANGED <<store, disk, dirty, vars>>

(* POST: the body goes to Put as it is, with its ID or a new one. *)
Create(k, id, body) ==
    /\ Accepts(k)
    /\ req' = [req EXCEPT ![k] =
          [NoRequest EXCEPT !.kind = "put", !.id = id, !.body = body,
             !.existing = None, !.pc = "put"]]
    /\ UNCHANGED <<store, disk, dirty, vars>>

(* What the request hands to Put: for a PUT, merged with what it read. *)
Item(k) ==
    IF req[k].existing = None
      THEN req[k].body.item
      ELSE MergeSecrets(req[k].body, req[k].existing)

(* Put, which stores the upstream without its markers. *)
Put(k) ==
    /\ req[k].pc = "put"
    /\ IF Validate(Item(k)) /\ PutExpands(Item(k)) /\ ~Conflict(req[k].id, Item(k))
         THEN Save(k, [store EXCEPT ![req[k].id] = Item(k)])
         ELSE Reject(k)
    /\ UNCHANGED vars

(* DELETE *)
Delete(k, id) ==
    /\ Accepts(k)
    /\ store[id] # None
    /\ store' = [store EXCEPT ![id] = None]
    /\ \E saved \in BOOLEAN :
          /\ disk' = IF saved THEN store' ELSE disk
          /\ dirty' = IF saved THEN dirty ELSE dirty \cup {id}
          /\ req' = [req EXCEPT ![k] =
                [NoRequest EXCEPT !.kind = "delete", !.id = id,
                   !.pc = IF saved THEN "list" ELSE "rejected"]]
    /\ UNCHANGED vars

DeleteMissing(k, id) ==
    /\ Accepts(k)
    /\ store[id] = None
    /\ req' = [req EXCEPT ![k] = [NoRequest EXCEPT !.kind = "delete",
                                        !.id = id, !.pc = "rejected"]]
    /\ UNCHANGED <<store, disk, dirty, vars>>

(* applyConfiguration, first half: a copy of the items, expanded. *)
RuntimeList(k) ==
    /\ req[k].pc = "list"
    /\ req' = [req EXCEPT ![k].items = store,
                          ![k].pc = IF Materializes(store)
                                      THEN "apply" ELSE "rejected"]
    /\ UNCHANGED <<store, disk, dirty, vars>>

(* applyConfiguration, second half: Apply, whose first step this is. *)
Apply(k) ==
    /\ req[k].pc = "apply"
    /\ ApplyStop(k, req[k].items)
    /\ req' = [req EXCEPT ![k].pc = "applying"]
    /\ dirty' = {i \in dirty : store[i] # req[k].items[i]}
    /\ UNCHANGED <<store, disk>>

Request(k) ==
    \/ \E id \in Ids, body \in Bodies : Update(k, id, body)
    \/ \E id \in Ids, body \in Bodies : Create(k, id, body)
    \/ \E id \in Ids : Delete(k, id) \/ DeleteMissing(k, id)

Handler(k) == Put(k) \/ RuntimeList(k) \/ Apply(k)

(***************************************************************************)
(* Shutdown.  A signal cancels the root context and the server stops       *)
(* accepting; ListenAndServe returns at once, while requests may still be  *)
(* in their handlers, and the deferred Close runs.  ListenAndServe also    *)
(* returns when it cannot listen, before any request; then Close runs      *)
(* first and the deferred cancel after it.  (net/http retries failures of  *)
(* Accept, so a listener that works does not end it.)                      *)
(***************************************************************************)
Signal == RootCancel /\ UNCHANGED apiVars

CloseAfterServe ==
    /\ call[Boot].pc = "returned"
    /\ rootDone \/ \A k \in Calls \ {Boot} : req[k].pc = "idle"
    /\ CloseStop
    /\ UNCHANGED apiVars

CPNext ==
    \/ \E k \in Calls : Request(k) \/ Handler(k)
    \/ \E k \in Calls : ApplyStep(k) /\ UNCHANGED apiVars
    \/ \E p \in Procs : RunStep(p) /\ UNCHANGED apiVars
    \/ (CloseWait \/ CloseReturn) /\ UNCHANGED apiVars
    \/ Signal
    \/ CloseAfterServe

CPSpec == CPInit /\ [][CPNext]_cpVars

-----------------------------------------------------------------------------
(***************************************************************************)
(* Properties                                                              *)
(***************************************************************************)

(* Every variable of this module has its type. *)
CPTypeOK ==
    /\ store \in ItemMaps
    /\ disk  \in ItemMaps
    /\ req   \in [Calls -> RequestState]
    /\ dirty \in SUBSET Ids

(* Upstream i runs as `items` has it; failed to, with that configuration;  *)
(* is disabled; or is unknown.                                             *)
Matches(items, i) ==
    /\ items[i] = None => running[i] = None /\ statuses[i] = NoStatus
    /\ items[i] # None /\ ~items[i].enabled =>
         running[i] = None /\ statuses[i].state = "disabled"
    /\ Enabled(items, i) /\ running[i] # None => proc[running[i]].config = items[i]
    /\ Enabled(items, i) /\ running[i] = None =>
         /\ statuses[i].state = "error"
         /\ statuses[i].by # None => proc[statuses[i].by].config = items[i]

(***************************************************************************)
(* When no request is being handled, the listeners and their statuses are  *)
(* those the file asks for, also after saves that failed: "The runtime     *)
(* manager ... restarts them after configuration changes"                  *)
(* (docs/architecture.md).  It holds when requests do not overlap.         *)
(***************************************************************************)
RunsTheFile ==
    Pending = {} /\ closer.pc = "idle" => \A i \in Ids : Matches(disk, i)

(***************************************************************************)
(* "Configuration updates restart only the affected listener"              *)
(* (docs/protocols.md): Apply stops a process only if the request is about *)
(* its upstream, or if an earlier change to it could not be saved.         *)
(***************************************************************************)
OnlyAffectedStops ==
    [][\A k \in Calls, i \in Ids :
          /\ call[k].pc = "idle" /\ call'[k].pc = "waiting"
          /\ running[i] # None /\ running'[i] = None
          => i = req[k].id \/ i \in dirty]_cpVars

(* The name occurs once in the list. *)
Single(list, n) == \A m \in DOMAIN list : list[m].name = list[n].name => m = n

(* The values of one name are all set, or none of them is. *)
NoGaps(list) ==
    \A n, m \in DOMAIN list : /\ list[n].name = list[m].name
                              /\ list[n].value # NoSecret
                              => list[m].value # NoSecret

(***************************************************************************)
(* The list `new` has the secrets of `item` that the body leaves alone.  A *)
(* body with the secrets as GET shows them leaves the whole list as it is, *)
(* with several header rules of one name too, provided their values are    *)
(* all set or all empty.  A body that changes, drops or moves some secrets *)
(* still keeps each one it marks whose name occurs once.  And nothing else *)
(* is filled in: neither for a value that was sent, nor from the options   *)
(* of another protocol.                                                    *)
(***************************************************************************)
Kept(body, item, new) ==
    LET sent == body.item.options
        old  == item.options
        same == SameOptions(body.item.protocol, item.protocol)
    IN  /\ /\ same /\ NoGaps(old)
           /\ sent = Public(item).item.options /\ body.keep = Public(item).keep
           => new = old
        /\ \A n \in DOMAIN sent :
             IF same /\ n \in Keepers(body)
               THEN \A m \in DOMAIN old :
                      /\ old[m].name = sent[n].name
                      /\ Single(old, m) /\ Single(sent, n)
                      => new[n].value = old[m].value
               ELSE new[n] = sent[n]

(***************************************************************************)
(* A PUT leaves the secrets it does not change as they are: "Stored values *)
(* survive an edit without being disclosed to the client"                  *)
(* (docs/postgres-compatibility.md), however requests overlap, unless      *)
(* another request changed the upstream after the PUT read it              *)
(* (server.go:96).                                                         *)
(***************************************************************************)
SecretsKept ==
    [][\A k \in Calls :
          /\ req[k].pc = "put" /\ req'[k].pc # "put" /\ store' # store
          /\ req[k].existing # None /\ req[k].existing = store[req[k].id]
          => Kept(req[k].body, store[req[k].id], store'[req[k].id].options)]_cpVars

(***************************************************************************)
(* Once Close returned, no process is left that was not told to stop,      *)
(* although a request may call Apply during and after Close: the context   *)
(* its processes derive from is cancelled by then.                         *)
(***************************************************************************)
NothingSurvivesClose ==
    closer.pc = "returned" =>
        \A p \in Procs : Alive(p) => proc[p].cancelled

(***************************************************************************)
(* The manager below the API is the one module Manager specifies: every    *)
(* list that reaches Apply has unique addresses (Requests).                *)
(***************************************************************************)
ImplementsManager == Spec
=============================================================================
