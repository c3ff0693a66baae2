------------------------------- MODULE Engine -------------------------------
(***************************************************************************)
(* The command loop of internal/engine: several engines, the command       *)
(* stream of one partition and the event log of one execution.             *)
(*                                                                         *)
(* A command is delivered (more than once if need be) to the engine the    *)
(* consumer is pinned to; the engine loads the state, from its cache or    *)
(* from the log, decides, appends the decision under the sequence it       *)
(* expects, and acknowledges.  An append that times out may still be       *)
(* stored later; a read may come from a replica that lags; an engine may   *)
(* crash between any two steps; acks are not confirmed.                    *)
(*                                                                         *)
(* The cached state is the object the decision mutates (fold.Decide works  *)
(* in place), so an entry keeps the decisions folded into it apart from    *)
(* the sequence it believes to be the last one stored.                     *)
(***************************************************************************)
EXTENDS Decisions

CONSTANTS
    Engines,        \* the engine processes
    Asked,          \* the commands whose caller waits for an answer
    MaxDeliver,     \* maxDeliver: deliveries before a failing command is dead-lettered
    Spare,          \* deadLetterSpare: deliveries left for recording the dead letter
    NotFoundGrace,  \* notFoundGrace: deliveries a missing execution gets
    MaxConflicts,   \* maxConflicts: attempts at one append
    MaxFaults,      \* bound: crashes, lost acks, missed heartbeats and failed calls
    PinReturns,     \* whether the pin may leave an engine that goes on running
    LaggingReads    \* whether a read may miss the latest decisions

ASSUME EngineAssumption ==
    /\ Asked \subseteq Commands
    /\ MaxDeliver \in Nat /\ Spare \in Nat /\ NotFoundGrace \in Nat
    /\ MaxConflicts \in Nat /\ MaxFaults \in Nat
    /\ PinReturns \in BOOLEAN /\ LaggingReads \in BOOLEAN

VARIABLES
    log,        \* the stored decisions of the execution
    wire,       \* appends whose engine gave up waiting, not yet at the server
    msgs,       \* the message of each command in the command stream
    delivered,  \* how often it was delivered
    dlq,        \* the commands recorded as dead letters
    pin,        \* the engine the partition's consumer is pinned to
    cache,      \* statecache.Cache of each engine: at most one entry
    at,         \* the handler of each engine
    faults      \* how many faults happened

vars == <<log, wire, msgs, delivered, dlq, pin, cache, at, faults>>

\* A cached state: the decisions folded into it and State.LastSeq.
EntryType == [events : Seq(DecisionType), lastSeq : Nat]

\* Where a handler is: idle, before the decision, reloading to abort one that
\* is too large, appending, acknowledging, or recording a dead letter; the
\* state the decision was taken on and the sequence it expects.
Handler(pc, c, n, st, seq) == [pc |-> pc, cmd |-> c, tries |-> n, state |-> st, expected |-> seq]
Idle == Handler("idle", Start, 0, <<>>, 0)
HandlerType ==
    [pc : {"idle", "decide", "abort", "append", "ack", "dead"}, cmd : Commands, tries : Nat,
     state : Seq(DecisionType), expected : Nat]

\* An append under way: the decision and the sequence it is to follow.
AppendType == [expected : Nat, decision : DecisionType]

Init ==
    /\ log = <<>> /\ wire = {} /\ dlq = {} /\ faults = 0
    /\ msgs = [c \in Commands |-> "unsent"]
    /\ delivered = [c \in Commands |-> 0]
    /\ pin \in Engines
    /\ cache = [e \in Engines |-> {}]
    /\ at = [e \in Engines |-> Idle]

----------------------------------------------------------------------------
(* The command stream. *)

\* A client, a worker, a timer or a child sends c.  What answers earlier work is
\* sent only once the decision that created the work is stored: the dispatcher
\* reads it from the log.
Send(c) ==
    /\ msgs[c] = "unsent" /\ Needs[c] \subseteq Applied(log)
    /\ msgs' = [msgs EXCEPT ![c] = "pending"]
    /\ UNCHANGED <<log, wire, delivered, dlq, pin, cache, at, faults>>

\* A server that counts one delivery too many.
DeliverableOnceMore(c) == msgs[c] = "pending" /\ delivered[c] <= MaxDeliver + Spare

\* MaxDeliver of the consumer, past which the server drops the message.
Deliverable(c) == msgs[c] = "pending" /\ delivered[c] < MaxDeliver + Spare

Handles(e, c) == at[e].pc # "idle" /\ at[e].cmd = c
Takes(e, c) ==
    /\ pin = e /\ at[e].pc = "idle" /\ Deliverable(c)
    /\ delivered' = [delivered EXCEPT ![c] = @ + 1]
    /\ at' = [at EXCEPT ![e] = Handler("decide", c, 0, <<>>, 0)]
    /\ UNCHANGED <<log, wire, msgs, dlq, pin, cache>>

\* The consumer hands c to the pinned engine, which handles one message at a
\* time; the heartbeats of a handler keep its message from coming again.
Deliver(e, c) == Takes(e, c) /\ (\A x \in Engines : ~Handles(x, c)) /\ faults' = faults

\* Without heartbeats the message goes to the pinned engine while another still
\* handles it.
Redeliver(e, c) ==
    /\ faults < MaxFaults /\ faults' = faults + 1
    /\ Takes(e, c) /\ \E x \in Engines : Handles(x, c)

----------------------------------------------------------------------------
(* Loading and deciding. *)

\* What Loader.Load may return: direct gets are answered by any replica.
Readable == IF LaggingReads THEN {SubSeq(log, 1, n) : n \in 0..Len(log)} ELSE {log}

\* Engine.load: the cached entry, as it is, or a fresh read.
Entries(e) ==
    IF cache[e] # {} THEN cache[e] ELSE {[events |-> st, lastSeq |-> Len(st)] : st \in Readable}

Dropped(e) == [cache EXCEPT ![e] = {}]
Goes(e, h) == [at EXCEPT ![e] = h]
Then(e, pc) == Goes(e, [at[e] EXCEPT !.pc = pc])

\* ackOrRetry of a transient error: give up after MaxDeliver deliveries.
Exhausted(c) == delivered[c] >= MaxDeliver
Retry(e) == IF Exhausted(at[e].cmd) THEN Then(e, "dead") ELSE Goes(e, Idle)

\* A decision without events is acknowledged at once.
DecideNothing(e) ==
    /\ at[e].pc = "decide"
    /\ \E ent \in Entries(e) : Outcome(ent.events, at[e].cmd) = "nothing"
    /\ at' = Then(e, "ack")
    /\ UNCHANGED <<log, wire, msgs, delivered, dlq, pin, cache, faults>>

\* A refusal is final: it is acknowledged.  A payload that cannot be read is a
\* dead letter, unless its caller waits for an answer and is told so.
DecideRefused(e) ==
    /\ at[e].pc = "decide"
    /\ \E ent \in Entries(e) :
        \/ /\ Outcome(ent.events, at[e].cmd) = "rejected"
           /\ at' = Then(e, "ack")
        \/ /\ Outcome(ent.events, at[e].cmd) = "invalid"
           /\ at' = IF at[e].cmd \in Asked THEN Then(e, "ack") ELSE Then(e, "dead")
    /\ cache' = Dropped(e)
    /\ UNCHANGED <<log, wire, msgs, delivered, dlq, pin, faults>>

\* Retrying a missing execution for as long as the server delivers.
DecideNotFoundForever(e) ==
    /\ at[e].pc = "decide"
    /\ \E ent \in Entries(e) : Outcome(ent.events, at[e].cmd) = "notfound"
    /\ at' = Goes(e, Idle) /\ cache' = Dropped(e)
    /\ UNCHANGED <<log, wire, msgs, delivered, dlq, pin, faults>>

\* A missing execution may be a lagging read: retried for a few deliveries.
DecideNotFound(e) ==
    /\ at[e].pc = "decide"
    /\ \E ent \in Entries(e) : Outcome(ent.events, at[e].cmd) = "notfound"
    /\ at' = IF delivered[at[e].cmd] < NotFoundGrace THEN Goes(e, Idle) ELSE Then(e, "dead")
    /\ cache' = Dropped(e)
    /\ UNCHANGED <<log, wire, msgs, delivered, dlq, pin, faults>>

Moved(ent, c) == [events |-> Append(ent.events, Decision(c)), lastSeq |-> ent.lastSeq]

\* A decision with events moves the loaded state; if it is the cached one, the
\* cache now holds a state that is not stored.
DecideEvents(e) ==
    LET c == at[e].cmd IN
    /\ at[e].pc = "decide" /\ c \notin Large
    /\ \E ent \in Entries(e) :
        /\ Outcome(ent.events, c) = "events"
        /\ at' = Goes(e, Handler("append", c, at[e].tries, ent.events, ent.lastSeq))
        /\ cache' = [cache EXCEPT ![e] = {Moved(x, c) : x \in @}]
    /\ UNCHANGED <<log, wire, msgs, delivered, dlq, pin, faults>>

\* A decision over the limit is not stored: the state is loaded again.
DecideTooLarge(e) ==
    LET c == at[e].cmd IN
    /\ at[e].pc = "decide" /\ c \in Large
    /\ \E ent \in Entries(e) :
        /\ Outcome(ent.events, c) = "events"
        /\ at' = Goes(e, Handler("abort", c, at[e].tries, <<>>, ent.lastSeq))
    /\ cache' = Dropped(e)
    /\ UNCHANGED <<log, wire, msgs, delivered, dlq, pin, faults>>

\* abortTooLarge on the fresh state.  The sequence expected is still the one of
\* the decision it replaces; with nothing left to abort there is nothing to
\* append either, and that sequence becomes the entry's.
AbortTooLarge(e) ==
    LET h == at[e] IN
    /\ h.pc = "abort"
    /\ \E st \in Readable :
        \/ /\ Exists(st) /\ Ended(st)
           /\ at' = Then(e, "ack")
           /\ cache' = [cache EXCEPT ![e] = {[events |-> st, lastSeq |-> h.expected]}]
        \/ /\ ~Ended(st) /\ (Exists(st) \/ h.cmd = Start)
           /\ at' = Goes(e, Handler("append", h.cmd, h.tries, st, h.expected))
           /\ cache' = cache
        \/ /\ ~Exists(st) /\ h.cmd # Start  \* no definition to abort it with
           /\ at' = Retry(e) /\ cache' = cache
    /\ UNCHANGED <<log, wire, msgs, delivered, dlq, pin, faults>>

\* The body (the cache is left alone), the log or the definition cannot be read.
LoadFails(e) ==
    /\ faults < MaxFaults /\ at[e].pc \in {"decide", "abort"}
    /\ at' = Retry(e) /\ cache' \in {cache, Dropped(e)} /\ faults' = faults + 1
    /\ UNCHANGED <<log, wire, msgs, delivered, dlq, pin>>

----------------------------------------------------------------------------
(* Appending. *)

\* An append without the expected-last-subject-sequence header.
MayStoreAlways(expected) == TRUE

\* The server stores an append only right after the decision it expects.
MayStore(expected) == expected = Len(log)
Sent(h) == [expected |-> h.expected, decision |-> Decision(h.cmd)]

\* Storing the decision the limit was to keep out of the log.
AppendStoredWhole(e) ==
    /\ at[e].pc = "append" /\ MayStore(at[e].expected)
    /\ log' = Append(log, [cmd |-> at[e].cmd, kind |-> "decided"])
    /\ cache' = [cache EXCEPT ![e] = {[events |-> Append(at[e].state, Decision(at[e].cmd)), lastSeq |-> Len(log')]}]
    /\ at' = Then(e, "ack")
    /\ UNCHANGED <<wire, msgs, delivered, dlq, pin, faults>>

AppendStored(e) ==
    /\ at[e].pc = "append" /\ MayStore(at[e].expected)
    /\ log' = Append(log, Decision(at[e].cmd))
    /\ cache' = [cache EXCEPT ![e] = {[events |-> Append(at[e].state, Decision(at[e].cmd)), lastSeq |-> Len(log')]}]
    /\ at' = Then(e, "ack")
    /\ UNCHANGED <<wire, msgs, delivered, dlq, pin, faults>>

\* Another engine wrote first: decide again on what it wrote.
AppendConflicts(e) ==
    LET h == at[e] IN
    /\ h.pc = "append" /\ ~MayStore(h.expected)
    /\ at' = IF h.tries + 1 < MaxConflicts THEN Goes(e, Handler("decide", h.cmd, h.tries + 1, <<>>, 0))
             ELSE Retry(e)
    /\ cache' = Dropped(e)
    /\ UNCHANGED <<log, wire, msgs, delivered, dlq, pin, faults>>

\* Keeping the state the decision moved after an append that failed.
AppendUnknownKeepsState(e) ==
    /\ faults < MaxFaults /\ at[e].pc = "append"
    /\ wire' = wire \cup {Sent(at[e])}
    /\ at' = Retry(e) /\ faults' = faults + 1
    /\ UNCHANGED <<log, msgs, delivered, dlq, pin, cache>>

\* The call fails and the engine cannot tell whether the append is stored, now,
\* later or never.
AppendUnknown(e) ==
    /\ faults < MaxFaults /\ at[e].pc = "append"
    /\ wire' = wire \cup {Sent(at[e])}
    /\ at' = Retry(e) /\ cache' = Dropped(e) /\ faults' = faults + 1
    /\ UNCHANGED <<log, msgs, delivered, dlq, pin>>

\* Such an append reaches the server after all.
Land(a) ==
    /\ wire' = wire \ {a}
    /\ log' = IF MayStore(a.expected) THEN Append(log, a.decision) ELSE log
    /\ UNCHANGED <<msgs, delivered, dlq, pin, cache, at, faults>>

----------------------------------------------------------------------------
(* Acknowledging. *)

Ack(e) ==
    /\ at[e].pc = "ack"
    /\ msgs' = [msgs EXCEPT ![at[e].cmd] = "acked"]
    /\ at' = Goes(e, Idle)
    /\ UNCHANGED <<log, wire, delivered, dlq, pin, cache, faults>>

\* The dead letter is recorded once however often it is written.
DeadLetter(e) ==
    /\ at[e].pc = "dead"
    /\ dlq' = dlq \cup {at[e].cmd}
    /\ msgs' = [msgs EXCEPT ![at[e].cmd] = "dead"]
    /\ at' = Goes(e, Idle)
    /\ UNCHANGED <<log, wire, delivered, pin, cache, faults>>

\* Neither an ack nor the term of a dead letter is confirmed, and a dead letter
\* may not be recorded: the message comes again.
SettleFails(e) ==
    /\ faults < MaxFaults /\ faults' = faults + 1
    /\ \/ at[e].pc = "ack" /\ dlq' = dlq
       \/ at[e].pc = "dead" /\ dlq' \in {dlq, dlq \cup {at[e].cmd}}
    /\ at' = Goes(e, Idle)
    /\ UNCHANGED <<log, wire, msgs, delivered, pin, cache>>

\* The process restarts with nothing (an append may be on its way to the
\* server); the pin of an engine that is gone expires.
Crash(e) ==
    /\ faults < MaxFaults /\ faults' = faults + 1
    /\ wire' \in IF at[e].pc = "append" THEN {wire, wire \cup {Sent(at[e])}} ELSE {wire}
    /\ at' = Goes(e, Idle) /\ cache' = Dropped(e)
    /\ pin' \in IF pin = e THEN Engines ELSE {pin}
    /\ UNCHANGED <<log, msgs, delivered, dlq>>

\* An engine that does not pull in time loses the pin and keeps its cache.
PinMoves ==
    /\ PinReturns
    /\ pin' \in Engines \ {pin}
    /\ UNCHANGED <<log, wire, msgs, delivered, dlq, cache, at, faults>>

\* Another execution takes the place of this one in a full cache.
Evict(e) ==
    /\ cache[e] # {} /\ cache' = Dropped(e)
    /\ UNCHANGED <<log, wire, msgs, delivered, dlq, pin, at, faults>>

Handle(e) ==
    \/ DecideNothing(e) \/ DecideRefused(e) \/ DecideNotFound(e) \/ DecideEvents(e)
    \/ DecideTooLarge(e) \/ AbortTooLarge(e) \/ AppendStored(e) \/ AppendConflicts(e)
    \/ Ack(e) \/ DeadLetter(e)
Fault(e) == LoadFails(e) \/ AppendUnknown(e) \/ SettleFails(e) \/ Crash(e)

Next ==
    \/ \E c \in Commands : Send(c)
    \/ \E e \in Engines, c \in Commands : Deliver(e, c) \/ Redeliver(e, c)
    \/ \E e \in Engines : Handle(e) \/ Fault(e) \/ Evict(e)
    \/ \E a \in wire : Land(a)
    \/ PinMoves

Spec == Init /\ [][Next]_vars

\* A running engine finishes what it handles and pulls again; the server offers
\* every pending message, though not while the pinned engine is busy.
Fairness ==
    /\ \A e \in Engines : WF_vars(Handle(e))
    /\ \A c \in Commands : SF_vars(\E e \in Engines : Deliver(e, c))
FairSpec == Spec /\ Fairness

----------------------------------------------------------------------------
(* Properties. *)

\* Types; no message is delivered more often than its consumer allows
\* (MaxDeliver and its spare, RunPartition).
TypeOK ==
    /\ log \in Seq(DecisionType) /\ wire \subseteq AppendType
    /\ msgs \in [Commands -> {"unsent", "pending", "acked", "dead"}]
    /\ delivered \in [Commands -> 0 .. (MaxDeliver + Spare)] /\ dlq \subseteq Commands
    /\ pin \in Engines /\ faults \in Nat
    /\ cache \in [Engines -> SUBSET EntryType]
    /\ at \in [Engines -> HandlerType]

\* The promise of the event log: engines that race, retry, crash and read old
\* states write together what one engine would have written alone (the expected
\* sequence of apply's append).
J == INSTANCE Journal WITH journal <- log
ImplementsJournal == J!Spec

\* However often a command is delivered and appended, it is applied at most once.
AppliedOnce == \A i, j \in 1..Len(log) : log[i].cmd = log[j].cmd => i = j

\* Nothing is stored after the decision that ended the execution, whichever
\* engine still worked on an older state.
NothingAfterEnd == \A i \in 1..Len(log) : i < Len(log) => ~Ended(SubSeq(log, 1, i))

\* A command is acknowledged only when it has nothing left to do: its decision is
\* stored, or the stored history absorbs it (apply returns without an append).
NoLostCommand == \A c \in Commands : msgs[c] = "acked" => Outcome(log, c) # "events"

\* Every command that was sent is acknowledged or dead-lettered: the consumer
\* never drops one silently (maxDeliver and deadLetterSpare).
EventuallySettled == \A c \in Commands : msgs[c] = "pending" ~> msgs[c] \in {"acked", "dead"}

----------------------------------------------------------------------------
(* The inductive invariant. *)

\* c was decided on the first n decisions of the log.
Fits(lg, n, c) == n \in 0 .. Len(lg) /\ Outcome(SubSeq(lg, 1, n), c) = "events"

\* A state that is a prefix of the log, or that decides nothing any more.
Genuine(lg, st, n) == n \in 0 .. Len(lg) /\ (st = SubSeq(lg, 1, n) \/ (Exists(st) /\ Ended(st)))

WireOK == \A a \in wire : Fits(log, a.expected, a.decision.cmd) /\ a.decision = Decision(a.decision.cmd)

HandlerOK(lg, h) ==
    /\ h.pc \in {"append", "abort"} => Fits(lg, h.expected, h.cmd)
    /\ h.pc = "append" => h.cmd \in Large \/ h.state = SubSeq(lg, 1, h.expected)
    /\ h.pc = "abort" => h.cmd \in Large

CacheOK(lg, ents, h) ==
    \A ent \in ents :
        /\ ent.lastSeq \in 0 .. Len(lg)
        /\ h.pc # "append" => Genuine(lg, ent.events, ent.lastSeq)

EnginesOK == \A e \in Engines : HandlerOK(log, at[e]) /\ CacheOK(log, cache[e], at[e])

Inductive == WireOK /\ EnginesOK

\* With a pin that does not return and reads that do not lag: only the pinned
\* engine works or caches, on the whole log, and what it has done stays done.
Absorbed(lg, c) == Outcome(lg, c) \in {"nothing", "rejected", "invalid"}

\* Deciding on st is deciding on the log.
Sees(lg, st) == st = lg \/ (Exists(st) /\ Ended(st) /\ Ended(lg))

Alone ==
    /\ \A e \in Engines : e # pin => at[e].pc = "idle" /\ cache[e] = {}
    /\ cache[pin] # {} => \A a \in wire : a.expected < Len(log)
    /\ at[pin].pc # "append" => \A ent \in cache[pin] : Sees(log, ent.events)

NoneLost ==
    /\ \A c \in Commands : msgs[c] # "unsent" => Needs[c] \subseteq Applied(log)
    /\ \A c \in Commands : msgs[c] = "acked" => Absorbed(log, c)
    /\ \A e \in Engines : at[e].pc # "idle" => msgs[at[e].cmd] # "unsent"
    /\ \A e \in Engines : at[e].pc = "ack" => Absorbed(log, at[e].cmd)
=============================================================================
