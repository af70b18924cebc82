-------------------------- MODULE ObservationStore --------------------------
(***************************************************************************)
(* The observation store, internal/observation/store.go: a ring of the     *)
(* newest interactions in memory, a journal of one JSON line each that is  *)
(* compacted now and then and replayed at start, and the channels behind   *)
(* GET /api/events.                                                        *)
(*                                                                         *)
(* Record, Clear, Subscribe and its cancel function hold the store's lock  *)
(* from beginning to end, so each is one action.  An interaction is its    *)
(* number in the order of recording.  File operations may fail, an append  *)
(* may stop half way, and the program may be killed and started again.     *)
(***************************************************************************)
EXTENDS Integers, Sequences, FiniteSets

CONSTANTS
    Max,          \* the retention, 5000 in cli.run
    QueueCap,     \* capacity of a subscriber's channel, 64 in Subscribe
    Subscribers,  \* the browsers that may be connected
    Long,         \* interactions whose line exceeds the scanner's 2 MiB
    Appends,      \* the ways an append may end, a subset of AppendOutcomes
    MaxRecords,   \* bound on the interactions recorded
    MaxFaults     \* bound on the file operations that fail

(***************************************************************************)
(* How the append of a line can end:                                       *)
(*   ok           written                                                  *)
(*   failed       encode, open or chmod failed, or nothing was written     *)
(*   torn         a part of the line was written                           *)
(*   unended      all of the line but its newline was written              *)
(*   close        written, but Close reported an error                     *)
(***************************************************************************)
AppendOutcomes == {"ok", "failed", "torn", "unended", "close"}

ASSUME StoreAssumption ==
    /\ Max \in Nat \ {0}
    /\ QueueCap \in Nat
    /\ Long \subseteq Nat
    /\ "ok" \in Appends /\ Appends \subseteq AppendOutcomes
    /\ MaxRecords \in Nat
    /\ MaxFaults \in Nat

VARIABLES
    up,          \* the program runs
    items,       \* s.items
    writes,      \* s.writes
    lastError,   \* s.lastError # nil
    journal,     \* the lines of interactions.jsonl
    open,        \* the last line has no newline
    subs,        \* s.subscribers: the channels, and what their readers saw
    count,       \* interactions recorded so far
    faults,      \* file operations that failed so far
    saved,       \* no append was lost since the file was rewritten or read
    compacted    \* no compaction or truncation failed since then

mem  == <<items, writes, lastError>>
file == <<journal, open>>
ghosts == <<count, faults, saved, compacted>>
vars == <<up, mem, file, subs, ghosts>>

(* A line decodes to an interaction, or to nothing. *)
Line == [item : 1..MaxRecords, valid : BOOLEAN, long : BOOLEAN]

LineOf(n) == [item |-> n, valid |-> TRUE, long |-> n \in Long]

Broken(line) == [line EXCEPT !.valid = FALSE]

(***************************************************************************)
(* Helpers                                                                 *)
(***************************************************************************)

(* Fault: the oldest interactions are kept. *)
NewestFaultOldest(s, n) == SubSeq(s, 1, IF Len(s) > n THEN n ELSE Len(s))

(* s[len(s)-n:], when s is longer than n. *)
Newest(s, n) == IF Len(s) > n THEN SubSeq(s, Len(s) - n + 1, Len(s)) ELSE s

(* max(1, s.max/4): the writes after which a full store is compacted. *)
Quota == IF Max \div 4 > 1 THEN Max \div 4 ELSE 1

(* Fault: the journal is compacted one write late. *)
DueFault(ring) == Len(ring) = Max /\ writes >= Quota

(* Record compacts the journal after its append. *)
Due(ring) == Len(ring) = Max /\ writes + 1 >= Quota

(* The lines that can be decoded, and how many of them come up to line i. *)
Valid(lines) == {i \in 1..Len(lines) : lines[i].valid}

Rank(good, i) == Cardinality({j \in good : j <= i})

(* The interactions OpenStore finds in the lines: its scan skips the others. *)
Decode(lines) ==
    LET good == Valid(lines)
    IN  [k \in 1..Cardinality(good) |->
            lines[CHOOSE i \in good : Rank(good, i) = k].item]

(* Fault: a compaction leaves the newest interaction out. *)
EncodeFault(s) == [i \in 1..(Len(s) - 1) |-> LineOf(s[i])]

(* The lines rewriteLocked writes. *)
Encode(s) == [i \in 1..Len(s) |-> LineOf(s[i])]

(* What the program would show after a restart. *)
Replay == Newest(Decode(journal), Max)

(* bufio.Scanner gives up on a line that does not fit its buffer. *)
Scannable(lines) == \A i \in 1..Len(lines) : ~lines[i].long

(* The file after an append that ends with the given outcome. *)
Appended(n, outcome) ==
    LET line  == IF outcome = "torn" THEN Broken(LineOf(n)) ELSE LineOf(n)
        front == SubSeq(journal, 1, Len(journal) - 1)
        last  == journal[Len(journal)]
    IN  CASE outcome = "failed" -> journal
          [] open /\ outcome # "failed" ->
               Append(front, [item |-> n, valid |-> FALSE,
                              long |-> last.long \/ line.long])
          [] OTHER -> Append(journal, line)

OpenAfter(outcome) ==
    IF outcome = "failed" THEN open ELSE outcome \in {"torn", "unended"}

(* select { case subscriber <- item: default: } *)
Offer(s, n) ==
    IF s.on /\ Len(s.queue) < QueueCap
      THEN [s EXCEPT !.queue = Append(@, n)]
      ELSE s

-----------------------------------------------------------------------------
NoReader == [on |-> FALSE, queue |-> <<>>, seen |-> 0]

Init ==
    /\ up = TRUE
    /\ items = <<>> /\ writes = 0 /\ lastError = FALSE
    /\ journal = <<>> /\ open = FALSE
    /\ subs = [s \in Subscribers |-> NoReader]
    /\ count = 0 /\ faults = 0 /\ saved = TRUE /\ compacted = TRUE

(***************************************************************************)
(* Record: the ring, the append, every Quota writes of a full store a      *)
(* compaction, which replaces the file by a rename, and the subscribers.   *)
(***************************************************************************)
Record(outcome, renamed) ==
    LET n       == count + 1
        ring    == Newest(Append(items, n), Max)
        full    == Due(ring)
        failed  == (IF outcome = "ok" THEN 0 ELSE 1)
                   + (IF full /\ ~renamed THEN 1 ELSE 0)
    IN  /\ up /\ count < MaxRecords
        /\ faults + failed <= MaxFaults
        /\ items' = ring
        /\ writes' = IF full THEN 0 ELSE writes + 1
        /\ lastError' = (failed > 0)
        /\ IF full /\ renamed
             THEN journal' = Encode(ring) /\ open' = FALSE
             ELSE /\ journal' = Appended(n, outcome)
                  /\ open' = OpenAfter(outcome)
        /\ subs' = [s \in Subscribers |-> Offer(subs[s], n)]
        /\ count' = n
        /\ faults' = faults + failed
        /\ saved' = \/ full /\ renamed
                    \/ saved /\ ~open /\ outcome \in {"ok", "close", "unended"}
        /\ compacted' = IF full THEN renamed ELSE compacted
        /\ UNCHANGED up

(* Fault: Clear forgets to truncate the file. *)
ClearFault ==
    /\ up
    /\ items' = <<>> /\ writes' = 0 /\ lastError' = FALSE
    /\ UNCHANGED <<up, file, subs, ghosts>>

(* DELETE /api/interactions: the file is truncated in place. *)
Clear ==
    /\ up
    /\ items' = <<>> /\ writes' = 0 /\ lastError' = FALSE
    /\ journal' = <<>> /\ open' = FALSE
    /\ saved' = TRUE /\ compacted' = TRUE
    /\ UNCHANGED <<up, subs, count, faults>>

(* The same when the file cannot be opened, or was truncated but not closed. *)
ClearFails(truncated) ==
    /\ up /\ faults < MaxFaults
    /\ items' = <<>> /\ writes' = 0 /\ lastError' = TRUE
    /\ IF truncated THEN journal' = <<>> /\ open' = FALSE ELSE UNCHANGED file
    /\ saved' = truncated /\ compacted' = truncated /\ faults' = faults + 1
    /\ UNCHANGED <<up, subs, count>>

-----------------------------------------------------------------------------
(***************************************************************************)
(* GET /api/events                                                         *)
(***************************************************************************)
Subscribe(s) ==
    /\ up /\ ~subs[s].on
    /\ subs' = [subs EXCEPT ![s] = [on |-> TRUE, queue |-> <<>>, seen |-> 0]]
    /\ UNCHANGED <<up, mem, file, ghosts>>

(* The handler takes one interaction from its channel and sends it. *)
Deliver(s) ==
    /\ up /\ subs[s].on /\ subs[s].queue # <<>>
    /\ subs' = [subs EXCEPT ![s].seen = Head(subs[s].queue),
                            ![s].queue = Tail(@)]
    /\ UNCHANGED <<up, mem, file, ghosts>>

(* The browser goes away: the deferred cancel removes and closes it. *)
Unsubscribe(s) ==
    /\ up /\ subs[s].on
    /\ subs' = [subs EXCEPT ![s] = NoReader]
    /\ UNCHANGED <<up, mem, file, ghosts>>

-----------------------------------------------------------------------------
(* The program ends or is killed; only the file is left. *)
Crash ==
    /\ up
    /\ up' = FALSE
    /\ items' = <<>> /\ writes' = 0 /\ lastError' = FALSE
    /\ subs' = [s \in Subscribers |-> NoReader]
    /\ UNCHANGED <<file, ghosts>>

(* OpenStore: replay, and compact a journal with too many interactions. *)
OpenStore ==
    /\ ~up
    /\ Scannable(journal)
    /\ up' = TRUE
    /\ items' = Replay
    /\ IF Len(Decode(journal)) > Max
         THEN journal' = Encode(items') /\ open' = FALSE
         ELSE UNCHANGED file
    /\ saved' = TRUE /\ compacted' = TRUE
    /\ UNCHANGED <<writes, lastError, subs, count, faults>>

Next ==
    \/ \E outcome \in Appends, renamed \in BOOLEAN : Record(outcome, renamed)
    \/ Clear
    \/ \E truncated \in BOOLEAN : ClearFails(truncated)
    \/ \E s \in Subscribers : Subscribe(s) \/ Deliver(s) \/ Unsubscribe(s)
    \/ Crash \/ OpenStore

Spec == Init /\ [][Next]_vars

-----------------------------------------------------------------------------
(***************************************************************************)
(* Properties                                                              *)
(***************************************************************************)

(* Every variable has its type. *)
TypeOK ==
    /\ up \in BOOLEAN /\ lastError \in BOOLEAN /\ open \in BOOLEAN
    /\ saved \in BOOLEAN /\ compacted \in BOOLEAN
    /\ items \in Seq(1..MaxRecords) /\ Len(items) <= Max
    /\ writes \in Nat
    /\ journal \in Seq(Line)
    /\ open => journal # <<>>
    /\ \A s \in Subscribers :
          /\ subs[s].queue \in Seq(1..MaxRecords)
          /\ Len(subs[s].queue) <= QueueCap
    /\ count \in 0..MaxRecords /\ faults \in 0..MaxFaults

(***************************************************************************)
(* After a restart the program shows what it showed before, as long as no  *)
(* append was lost since the file was last rewritten: appends, truncation  *)
(* and the compactions of Record and OpenStore agree with the ring.  This  *)
(* also says that a compaction repairs what earlier failures lost.         *)
(***************************************************************************)
ReplayShowsItems == up /\ saved => Replay = items

(***************************************************************************)
(* "The interaction journal is periodically compacted to its retention     *)
(* window rather than growing indefinitely" (docs/security.md): unless     *)
(* compaction fails, the file never holds more than Quota - 1 decodable    *)
(* lines beyond the retention, whatever the sequence of restarts.          *)
(***************************************************************************)
JournalBounded ==
    compacted => Len(Decode(journal)) <= Max + Quota - 1

(***************************************************************************)
(* "The health endpoint reports degraded status if capture persistence     *)
(* fails" (docs/security.md): when it does not, the newest interaction     *)
(* would be there after a restart, unless its line was appended to one     *)
(* that an earlier append left unfinished.                                 *)
(***************************************************************************)
HealthyIsDurable ==
    up /\ ~lastError /\ items # <<>>
    => \/ journal # <<>> /\ ~journal[Len(journal)].valid
       \/ Replay # <<>> /\ Replay[Len(Replay)] = items[Len(items)]

(***************************************************************************)
(* "Startup replays the journal" (docs/architecture.md): the program can   *)
(* read back every journal it writes.  It holds when no line is too long.  *)
(***************************************************************************)
JournalReadable == Scannable(journal)

(***************************************************************************)
(* "Startup replays the journal, retains the newest 5,000 interactions"    *)
(* (docs/architecture.md): until a file operation fails, appends,          *)
(* compactions, crashes and restarts are invisible; every step is one of a *)
(* bounded log that is never lost.                                         *)
(***************************************************************************)
Log == INSTANCE InteractionLog
         WITH Retention <- Max, log <- IF up THEN items ELSE Replay

ImplementsLog ==
    Log!LogInit /\ [][faults' = 0 => Log!LogNext]_<<Log!logVars, faults>>
=============================================================================
