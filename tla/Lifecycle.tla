------------------------------ MODULE Lifecycle ------------------------------
(***************************************************************************)
(* The life of one execution's log outside the decisions themselves: the   *)
(* snapshots an engine saves, the continuation that archives a stretch of  *)
(* the log and purges it (continue-as-new), the archival and the deletion  *)
(* of a finished execution, and the reads a client makes meanwhile.        *)
(*                                                                         *)
(* An event is its index; every decision has one event.  The live log is   *)
(* the interval first..head.  What a fold computes is left to module Fold: *)
(* here a state is the number of events it has seen, and reading is right  *)
(* when that number is.  Every call to the server is a step of its own.    *)
(***************************************************************************)
EXTENDS Integers, Sequences, FiniteSets, FiniteSetsExt

CONSTANTS
  Engines,    \* the processes that handle the execution's commands
  MaxEvents,  \* bound: no decision is made once the log has this many events
  Limit,      \* HistoryLimit: events in the live log before a continuation
  Every,      \* events between two snapshots
  Manual,     \* TRUE: Archive and Delete are also called by hand
  MaxFaults   \* bound: crashes and failed calls

ASSUME LifecycleAssumption ==
  /\ MaxEvents \in Nat \ {0}
  /\ Limit \in Nat \ {0}
  /\ Every \in Nat \ {0}
  /\ Manual \in BOOLEAN
  /\ MaxFaults \in Nat

VARIABLES
  first,    \* the oldest index left in the live log
  head,     \* the newest index ever appended
  carried,  \* ExecutionContinued's index -> the segments its state lists
  ended,    \* the execution is terminal
  floor,    \* the dispatcher's ack floor
  segs,     \* archive store: first index of a segment -> its last, 0 if absent
  arch,     \* archive store: the execution's own object, <<lo, hi>>, or <<>>
  snap,     \* the stored snapshot's event count, 0 if there is none
  blobs,    \* blobs of the execution are stored
  index,    \* its summary: "none", "live" or "archived"
  cmds,     \* retention commands scheduled and not yet done
  old,      \* the deduplication window since the end has passed
  doom,     \* a Delete has begun to erase ("erasing"), has finished ("gone")
  eng,      \* what each engine has in hand
  reader,   \* what a client's read has in hand
  faults

stores == <<segs, arch, snap, blobs, index>>
vars == <<first, head, carried, ended, floor, stores, cmds, old, doom, eng,
          reader, faults>>

Index == 1..(MaxEvents + 1)
Live == first <= head
IsBase(i) == i = 1 \/ i \in DOMAIN carried

\* State.Base: the last continuation among the first n events, 0 before one.
BaseOf(n) == Max({0} \cup {c \in DOMAIN carried : c <= n})
\* State.Segments after n events.
SegmentsOf(n) == IF BaseOf(n) = 0 THEN << >> ELSE carried[BaseOf(n)]

Idle == [pc |-> "idle", n |-> 0, over |-> FALSE, lo |-> 0, hi |-> 0,
         floor |-> 0, list |-> << >>]
Rest == [pc |-> "idle", kind |-> "state", upTo |-> 0, low |-> 0, st |-> 0,
         lo |-> 0, hi |-> 0, list |-> << >>, res |-> "none", got |-> 0]

Init ==
  /\ first = 1 /\ head = 1 /\ carried = << >>
  /\ ended = FALSE /\ floor = 0
  /\ segs = [i \in Index |-> 0] /\ arch = << >> /\ snap = 0
  /\ blobs = FALSE /\ index = "none"
  /\ cmds = {} /\ old = FALSE /\ doom = "no"
  /\ eng = [e \in Engines |-> Idle]
  /\ reader = Rest
  /\ faults = 0

At(e, pc) == eng[e].pc = pc
Goto(e, pc) == eng' = [eng EXCEPT ![e].pc = pc]
Done(e) == eng' = [eng EXCEPT ![e] = Idle]
Fault == faults < MaxFaults /\ faults' = faults + 1
\* A call that may fail: it succeeds, or it fails and spends a fault.
Either(ok, ko) == (ok /\ UNCHANGED faults) \/ (ko /\ Fault)

-----------------------------------------------------------------------------
(* An engine: a decision, then its housekeeping (afterAppend).             *)

Due(n) == n \div Every > (n - 1) \div Every
Full(n) == n - BaseOf(n) >= Limit
\* What follows a decision that made the execution n events long.
Housekeeping(n, over) ==
  IF Due(n) THEN "save" ELSE IF Full(n) /\ ~over THEN "read" ELSE "idle"

\* A decision is stored; it may end the execution.
Decide(e) ==
  /\ At(e, "idle") /\ ~ended /\ head < MaxEvents
  /\ head' = head + 1 /\ blobs' = TRUE
  /\ ended' \in BOOLEAN
  /\ eng' = [eng EXCEPT ![e] =
               IF Housekeeping(head + 1, ended') = "idle" THEN Idle
               ELSE [Idle EXCEPT !.n = head + 1, !.over = ended',
                                 !.pc = Housekeeping(head + 1, ended')]]
  /\ UNCHANGED <<first, carried, floor, segs, arch, snap, index, cmds, old, doom,
                 reader, faults>>

SaveAhead(e) ==
  /\ At(e, "save")
  /\ snap' = eng[e].n + 1
  /\ Done(e)
  /\ UNCHANGED <<first, head, carried, ended, floor, segs, arch, blobs, index,
                 cmds, old, doom, reader, faults>>

\* The snapshot that is due; failing to save it is only logged.
Save(e) ==
  /\ At(e, "save")
  /\ Either(snap' = eng[e].n, snap' = snap)
  /\ IF Full(eng[e].n) /\ ~eng[e].over THEN Goto(e, "read") ELSE Done(e)
  /\ UNCHANGED <<first, head, carried, ended, floor, segs, arch, blobs, index,
                 cmds, old, doom, reader>>

\* continueAsNew reads the events since the last base: leftovers of an
\* interrupted purge are older.
ReadSegment(e) ==
  /\ At(e, "read")
  /\ LET lo == Max({first, BaseOf(eng[e].n)})
     IN IF lo > eng[e].n THEN Done(e)
        ELSE eng' = [eng EXCEPT ![e].lo = lo, ![e].pc = "put"]
  /\ UNCHANGED <<first, head, carried, ended, floor, stores, cmds, old, doom,
                 reader, faults>>

PutSegment(e) ==
  /\ At(e, "put")
  /\ segs' = [segs EXCEPT ![eng[e].lo] = eng[e].n]
  /\ Goto(e, "continue")
  /\ UNCHANGED <<first, head, carried, ended, floor, arch, snap, blobs, index,
                 cmds, old, doom, reader, faults>>

\* The continuation is appended if nothing was since; it lists the segment.
AppendContinued(e) ==
  /\ At(e, "continue")
  /\ IF head # eng[e].n
     THEN Done(e) /\ UNCHANGED <<head, carried>>
     ELSE /\ head' = head + 1
          /\ carried' = [c \in DOMAIN carried \cup {head + 1} |->
                           IF c \in DOMAIN carried THEN carried[c]
                           ELSE Append(SegmentsOf(head), eng[e].lo)]
          /\ eng' = [eng EXCEPT ![e].n = head + 1, ![e].pc = "resave"]
  /\ UNCHANGED <<first, ended, floor, stores, cmds, old, doom, reader, faults>>

SaveContinued(e) ==
  /\ At(e, "resave")
  /\ Either(snap' = eng[e].n, snap' = snap)
  /\ Goto(e, "floor")
  /\ UNCHANGED <<first, head, carried, ended, floor, segs, arch, blobs, index,
                 cmds, old, doom, reader>>

ReadFloor(e) ==
  /\ At(e, "floor")
  /\ IF floor = 0 THEN Done(e)
     ELSE eng' = [eng EXCEPT ![e].floor = floor, ![e].pc = "purge"]
  /\ UNCHANGED <<first, head, carried, ended, floor, stores, cmds, old, doom,
                 reader, faults>>

PurgeAll(e) ==
  /\ At(e, "purge")
  /\ first' = Max({first, eng[e].n})
  /\ Done(e)
  /\ UNCHANGED <<head, carried, ended, floor, stores, cmds, old, doom, reader,
                 faults>>

\* Only what the dispatcher has processed goes.
Purge(e) ==
  /\ At(e, "purge")
  /\ first' = Max({first, Min({eng[e].n, eng[e].floor + 1})})
  /\ Done(e)
  /\ UNCHANGED <<head, carried, ended, floor, stores, cmds, old, doom, reader,
                 faults>>

-----------------------------------------------------------------------------
(* Archive: the handler of the archive command, or a call by hand.         *)

\* A command leads to work when it is scheduled, or when it comes by hand.
Asked(c) == c \in cmds \/ (Manual /\ ended)

\* No live log: archived already, the command is done.
Archive(e) ==
  /\ At(e, "idle") /\ Asked("archive")
  /\ IF Live /\ ended
     THEN Goto(e, "aread") /\ UNCHANGED cmds
     ELSE cmds' = cmds \ {"archive"} /\ UNCHANGED eng
  /\ UNCHANGED <<first, head, carried, ended, floor, stores, old, doom, reader,
                 faults>>

ArchiveRead(e) ==
  /\ At(e, "aread")
  /\ eng' = [eng EXCEPT ![e].lo = first, ![e].hi = head, ![e].pc = "aput"]
  /\ UNCHANGED <<first, head, carried, ended, floor, stores, cmds, old, doom,
                 reader, faults>>

LateExpiry == [aput |-> "apurge", apurge |-> "aexpire", aexpire |-> "aclean"]
\* The order of Archive's steps: the expiry is scheduled before the purge.
ArchiveThen == [aput |-> "aexpire", aexpire |-> "apurge", apurge |-> "aclean"]

ArchivePut(e) ==
  /\ At(e, "aput")
  /\ arch' = <<eng[e].lo, eng[e].hi>>
  /\ Goto(e, ArchiveThen["aput"])
  /\ UNCHANGED <<first, head, carried, ended, floor, segs, snap, blobs, index,
                 cmds, old, doom, reader, faults>>

\* scheduleArchiveExpiry, for a flow with an archive retention.
ArchiveExpire(e) ==
  /\ At(e, "aexpire")
  /\ cmds' = cmds \cup {"delete"}
  /\ Goto(e, ArchiveThen["aexpire"])
  /\ UNCHANGED <<first, head, carried, ended, floor, stores, old, doom, reader,
                 faults>>

ArchivePurge(e) ==
  /\ At(e, "apurge")
  /\ first' = head + 1
  /\ Goto(e, ArchiveThen["apurge"])
  /\ UNCHANGED <<head, carried, ended, floor, stores, cmds, old, doom, reader,
                 faults>>

\* What is derived from the log goes, except for the calls that fail.
Derived == {"snap", "blobs", "index"}
DeleteSnapshot(left) == snap' = IF "snap" \in left THEN snap ELSE 0
DeleteBlobs(left) == blobs' = ("blobs" \in left /\ blobs)
MarkArchived(left) ==
  index' = IF "index" \in left \/ index = "none" THEN index ELSE "archived"
DeleteIndex(left) == index' = IF "index" \in left THEN index ELSE "none"

\* Snapshot, blobs and summary are each attempted; an error brings the
\* command back, which then finds no live log.
ArchiveClean(e) ==
  /\ At(e, "aclean")
  /\ \E left \in SUBSET Derived :
       /\ DeleteSnapshot(left) /\ DeleteBlobs(left) /\ MarkArchived(left)
       /\ Either(left = {} /\ cmds' = cmds \ {"archive"},
                 left # {} /\ cmds' = cmds)
  /\ Done(e)
  /\ UNCHANGED <<first, head, carried, ended, floor, segs, arch, old, doom,
                 reader>>

-----------------------------------------------------------------------------
(* Delete: the handler of the delete command, or a call by hand.           *)

\* The own archive object holds no event a state can be folded from first.
Unreadable == arch # << >> /\ ~IsBase(arch[1])

\* An execution that runs is left alone, one that cannot be loaded is an
\* error, one that ended within the deduplication window is postponed.
Delete(e) ==
  /\ At(e, "idle") /\ Asked("delete") /\ ended
  /\ Live \/ ~Unreadable
  /\ old \/ (~Live /\ arch = << >>)
  /\ doom' = IF doom = "gone" THEN doom ELSE "erasing"
  /\ eng' = [eng EXCEPT ![e].pc = "derive",
               ![e].list = IF Live \/ arch # << >> THEN SegmentsOf(head) ELSE << >>]
  /\ UNCHANGED <<first, head, carried, ended, floor, stores, cmds, old, reader,
                 faults>>

\* Index, blobs, snapshot and timers: all attempted, any error ends it here.
DeleteDerived(e) ==
  /\ At(e, "derive")
  /\ \E left \in SUBSET Derived :
       /\ DeleteSnapshot(left) /\ DeleteBlobs(left) /\ DeleteIndex(left)
       /\ Either(left = {} /\ Goto(e, "objects"), left # {} /\ Done(e))
  /\ UNCHANGED <<first, head, carried, ended, floor, segs, arch, cmds, old, doom,
                 reader>>

OwnObjectFirst(e) ==
  /\ At(e, "objects")
  /\ IF arch # << >>
     THEN arch' = << >> /\ UNCHANGED <<segs, eng>>
     ELSE IF eng[e].list # << >>
     THEN /\ segs' = [segs EXCEPT ![Head(eng[e].list)] = 0]
          /\ eng' = [eng EXCEPT ![e].list = Tail(@)]
          /\ UNCHANGED arch
     ELSE Goto(e, "dpurge") /\ UNCHANGED <<arch, segs>>
  /\ UNCHANGED <<first, head, carried, ended, floor, snap, blobs, index, cmds,
                 old, doom, reader, faults>>

\* deleteArchive: the listed segments one by one, the own object last.
DeleteObjects(e) ==
  /\ At(e, "objects")
  /\ IF eng[e].list # << >>
     THEN /\ segs' = [segs EXCEPT ![Head(eng[e].list)] = 0]
          /\ eng' = [eng EXCEPT ![e].list = Tail(@)]
          /\ UNCHANGED arch
     ELSE arch' = << >> /\ Goto(e, "dpurge") /\ UNCHANGED segs
  /\ UNCHANGED <<first, head, carried, ended, floor, snap, blobs, index, cmds,
                 old, doom, reader, faults>>

DeletePurge(e) ==
  /\ At(e, "dpurge")
  /\ first' = head + 1 /\ doom' = "gone" /\ cmds' = cmds \ {"delete"}
  /\ Done(e)
  /\ UNCHANGED <<head, carried, ended, floor, stores, old, reader, faults>>

\* The process dies, or a call fails and the handler returns its error.
Stop(e) ==
  /\ ~At(e, "idle") /\ Fault /\ Done(e)
  /\ UNCHANGED <<first, head, carried, ended, floor, stores, cmds, old, doom,
                 reader>>

-----------------------------------------------------------------------------
(* The dispatcher, reduced to its ack floor, and time.                     *)

\* The next event is processed and acknowledged: the summary is written, and
\* the terminal event schedules what the flow's on_expire says.
Dispatch ==
  /\ Live /\ floor < head
  /\ floor' = Max({floor + 1, first})
  /\ index' = "live"
  /\ IF ended /\ floor' = head
     THEN \E c \in {"archive", "delete"} : cmds' = cmds \cup {c}
     ELSE UNCHANGED cmds
  /\ UNCHANGED <<first, head, carried, ended, segs, arch, snap, blobs, old, doom,
                 eng, reader, faults>>

\* DedupWindow after the end; no handler is that slow.
WindowPasses ==
  /\ ended /\ ~old /\ \A e \in Engines : At(e, "idle")
  /\ old' = TRUE
  /\ UNCHANGED <<first, head, carried, ended, floor, stores, cmds, doom, eng,
                 reader, faults>>

-----------------------------------------------------------------------------
(* A client's read: StateAt(upTo), with upTo = 0 for Get, or History.      *)

system == <<first, head, carried, ended, floor, stores, cmds, old, doom, eng,
            faults>>

ReaderAt(pc) == reader.pc = pc
Answers(r, n) == reader' = [Rest EXCEPT !.pc = "done", !.kind = reader.kind,
                              !.upTo = reader.upTo, !.low = reader.low,
                              !.res = r, !.got = n]
Returns(n) == Answers("ok", n)
Refuses(why) == Answers(why, 0)
Moves(pc) == reader' = [reader EXCEPT !.pc = pc]
Bound(hi) == IF reader.upTo = 0 THEN hi ELSE Min({reader.upTo, hi})

StartRead ==
  /\ reader.pc \in {"idle", "done"}
  /\ \E kind \in {"state", "history"}, upTo \in 0..head :
       /\ kind = "history" => upTo = 0
       /\ reader' = [Rest EXCEPT !.pc = IF kind = "history" THEN "live" ELSE "snap",
                       !.kind = kind, !.upTo = upTo, !.low = head]
  /\ UNCHANGED system

\* snapshotFor: a snapshot younger than upTo is of no use.
ReadSnapshot ==
  /\ ReaderAt("snap")
  /\ reader' = [reader EXCEPT !.pc = "log",
                  !.st = IF reader.upTo > 0 /\ snap > reader.upTo THEN 0 ELSE snap]
  /\ UNCHANGED system

\* The log from lo to hi, folded on a state of st events (0: from scratch).
\* Leftovers in front of a continuation are skipped; with no base in range
\* the state is older than the live log's.
Settle(st, lo, hi) ==
  IF st = 0 /\ lo > hi
  THEN Moves(IF reader.upTo > 0 THEN "live" ELSE "archive")
  ELSE IF \E i \in lo..hi : IsBase(i) THEN Returns(hi)
  ELSE IF st = 0 THEN Moves("live")
  ELSE IF lo = st + 1 THEN Returns(hi) ELSE Refuses("gap")

WithoutSnapshot == reader' = [reader EXCEPT !.st = 0]

AlwaysContinues(st, lo, hi) == TRUE
\* continues: the events read begin right after the snapshot.
Continues(st, lo, hi) == st = 0 \/ lo > hi \/ lo = st + 1

\* Load's read after the snapshot; read again from scratch when the log has
\* moved past it.  Nothing read: the first sequence of the log decides.
ReadLog ==
  /\ ReaderAt("log")
  /\ LET st == reader.st
         lo == Max({first, st + 1})
         hi == Bound(head)
     IN IF st # 0 /\ lo > hi THEN Moves("first")
        ELSE IF ~Continues(st, lo, hi) THEN WithoutSnapshot
        ELSE Settle(st, lo, hi)
  /\ UNCHANGED system

FirstSeq ==
  /\ ReaderAt("first")
  /\ IF Live /\ first <= reader.st
     THEN Returns(reader.st)
     ELSE reader' = [reader EXCEPT !.st = 0, !.pc = "log"]
  /\ UNCHANGED system

\* foldUpTo of the events lo..hi, or History's answer when they are all.
Whole(lo, hi) ==
  IF reader.kind = "history" THEN IF lo = 1 THEN Returns(hi) ELSE Refuses("gap")
  ELSE IF IsBase(lo) THEN Returns(Bound(hi)) ELSE Refuses("error")

\* withSegments: the last continuation's state names what comes before it.
Assemble(lo, hi) ==
  IF \E c \in DOMAIN carried : c \in lo..hi
  THEN reader' = [reader EXCEPT !.pc = "segments", !.lo = BaseOf(hi), !.hi = hi,
                    !.list = carried[BaseOf(hi)]]
  ELSE Whole(lo, hi)

\* loadFromHistory and History read the whole live log.
ReadLive ==
  /\ ReaderAt("live")
  /\ IF Live THEN Assemble(first, head) ELSE Moves("archive")
  /\ UNCHANGED system

\* The objects of the segments, each written once before it is listed.
ReadSegments ==
  /\ ReaderAt("segments")
  /\ LET part(k) == segs[reader.list[k]]
         n == Len(reader.list)
         joined == /\ reader.list[1] = 1 /\ reader.lo = part(n) + 1
                   /\ \A k \in 2..n : reader.list[k] = part(k - 1) + 1
     IN IF \E k \in 1..n : part(k) = 0 THEN Refuses("error")
        ELSE IF joined THEN Returns(Bound(reader.hi))
        ELSE Refuses("gap")
  /\ UNCHANGED system

\* LoadArchived, and History of an execution with no live log.
ReadArchive ==
  /\ ReaderAt("archive")
  /\ IF arch = << >> \/ arch[1] > arch[2] THEN Refuses("missing")
     ELSE IF reader.kind = "history" \/ (reader.upTo > 0 /\ arch[1] > reader.upTo)
     THEN Assemble(arch[1], arch[2])
     ELSE Whole(arch[1], arch[2])
  /\ UNCHANGED system

Reads == \/ StartRead \/ ReadSnapshot \/ ReadLog \/ FirstSeq \/ ReadLive
         \/ ReadSegments \/ ReadArchive

-----------------------------------------------------------------------------
Work(e) ==
  \/ Save(e) \/ ReadSegment(e) \/ PutSegment(e) \/ AppendContinued(e)
  \/ SaveContinued(e) \/ ReadFloor(e) \/ Purge(e)
  \/ Archive(e) \/ ArchiveRead(e) \/ ArchivePut(e) \/ ArchiveExpire(e)
  \/ ArchivePurge(e) \/ ArchiveClean(e)
  \/ Delete(e) \/ DeleteDerived(e) \/ DeleteObjects(e) \/ DeletePurge(e)

Next ==
  \/ \E e \in Engines : Decide(e) \/ Work(e) \/ Stop(e)
  \/ Dispatch
  \/ WindowPasses
  \/ Reads

\* Commands are redelivered until they are handled, the dispatcher goes on,
\* time passes.  No new decision and no read need ever be made.
Fairness ==
  /\ \A e \in Engines : WF_vars(Work(e))
  /\ WF_vars(Dispatch)
  /\ WF_vars(WindowPasses)

Spec == Init /\ [][Next]_vars /\ Fairness

-----------------------------------------------------------------------------
(* Properties.                                                             *)

Range2 == {<<lo, hi>> : lo \in 1..(MaxEvents + 2), hi \in Index}

\* Types, the bounds of the live log, and no snapshot ahead of the log (Save).
TypeOK ==
  /\ head \in Index /\ first \in 1..(head + 1)
  /\ DOMAIN carried \subseteq 2..head /\ ended \in BOOLEAN
  /\ floor \in 0..head /\ segs \in [Index -> 0..head]
  /\ arch \in Range2 \cup {<< >>} /\ snap \in 0..head
  /\ blobs \in BOOLEAN /\ index \in {"none", "live", "archived"}
  /\ cmds \subseteq {"archive", "delete"} /\ old \in BOOLEAN
  /\ doom \in {"no", "erasing", "gone"} /\ faults \in 0..MaxFaults
  /\ \A e \in Engines : eng[e].n \in 0..head /\ eng[e].floor \in 0..floor

\* Whatever a continuation, a lost snapshot, a crash, the purge behind it or
\* an archival does between two calls of a read, StateAt(n) gives the state
\* after n events, Get a state no older than the call, History every event
\* from the first (loader.go Load, loadFromHistory, withSegments).  Only a
\* deletion makes an execution missing.  The error of an archive that begins
\* with leftovers is ArchivedReadable's.
ReadsRight ==
  ReaderAt("done") =>
    \/ /\ reader.res = "ok"
       /\ IF reader.upTo > 0 THEN reader.got = reader.upTo
          ELSE reader.got \in reader.low..head
    \/ reader.res \in {"missing", "error"} /\ doom # "no"
    \/ reader.res = "error" /\ Unreadable

\* No purge takes an event the dispatcher has not processed: its effects, a
\* job to publish or a parent to tell, would never happen (continueAsNew).
EffectsBeforePurge == first <= floor + 1

\* Once Delete has finished, however often it was interrupted and retried,
\* nothing of the execution is left: log, snapshot, blobs, summary, own
\* archive object, and every segment that its last state lists.
DeletedClean ==
  doom = "gone" =>
    /\ ~Live /\ snap = 0 /\ ~blobs /\ index = "none" /\ arch = << >>
    /\ \A k \in 1..Len(SegmentsOf(head)) : segs[SegmentsOf(head)[k]] = 0

\* A finished execution whose flow bounds its retention is in the end deleted
\* even if its archival is interrupted (scheduleArchiveExpiry comes before
\* the purge), unless its archive cannot be loaded.
EventuallyGone == ended ~> (doom = "gone" \/ Unreadable)

\* Archived executions are still readable: no read of one that was not
\* deleted fails.
ArchivedReadable ==
  ReaderAt("done") /\ arch # << >> /\ doom = "no" => reader.res = "ok"

=============================================================================
