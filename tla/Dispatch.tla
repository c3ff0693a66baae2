------------------------------ MODULE Dispatch ------------------------------
(***************************************************************************)
(* The dispatcher: internal/dispatch and the index of internal/projection. *)
(*                                                                         *)
(* The log of one execution grows one decision at a time.  The processes   *)
(* take its decisions in order, one unacknowledged message at a time, fold *)
(* each into the state before it, run its effects and write the index.     *)
(* A decision that can never be processed quarantines the execution: its   *)
(* later decisions are skipped, but for the one that ends it, until an     *)
(* operator asks for a replay, which runs in an engine's process beside    *)
(* the dispatchers.  Quarantine and release are broadcast on core NATS,    *)
(* which may lose or delay a notice; the mark in the index decides.        *)
(*                                                                         *)
(* Decision n stands for the n-th message of the log.  A state is the      *)
(* number of decisions folded into it.                                     *)
(***************************************************************************)
EXTENDS Naturals

CONSTANTS
    Procs,        \* the processes with a dispatcher of the partition
    Home,         \* the one whose engine handles the replay
    Replayer,     \* the replay, beside the dispatchers
    Last,         \* the length of the log; decision Last ends the execution
    Status,       \* the status of the execution after each decision
    Jobs,         \* the decisions that schedule an attempt of a task
    EndedBy,      \* the decision that ends the attempt
    Failures,     \* what may be wrong: pairs of a decision and "fold" (it cannot be
                  \* decoded or folded) or "effect" (the server refuses its effects)
    MaxFaults,    \* bound: crashes, failed calls, second deliveries
    Risks         \* where a fault may also hit: "again", a decision that is being
                  \* handled is delivered to a second process; "confirm", the read of
                  \* the mark after a failure; "catchup", a replay that has lifted the mark

Decisions == 1 .. Last
Actors == Procs \cup {Replayer}

ASSUME DispatchAssumption ==
    /\ Home \in Procs /\ Replayer \notin Procs /\ Last \in Nat \ {0}
    /\ Jobs \subseteq Decisions /\ EndedBy \in [Jobs -> Decisions] /\ \A n \in Jobs : EndedBy[n] > n
    /\ Failures \subseteq Decisions \X {"fold", "effect"}
    /\ MaxFaults \in Nat /\ Risks \subseteq {"again", "confirm", "catchup"}

VARIABLES
    head,       \* how many decisions the log holds
    acked,      \* how many of them the dispatchers have acknowledged
    bad,        \* what is wrong, if anything, until the operator has seen to it
    at,         \* what the dispatchers and the replay are doing
    cache,      \* Dispatcher.Cache: the state a process keeps (0: none)
    view,       \* Dispatcher.heads: the head state a process keeps (0: none)
    marked,     \* Dispatcher.quarantined: the processes that know of the mark
    notices,    \* broadcasts that have not arrived
    mark,       \* the q key: the decision that failed (0: not quarantined)
    index,      \* the status in the summary and the status keys
    published,  \* the attempts given to the workers
    closed,     \* whether the closing effects of the last decision have run
    asked,      \* whether a redispatch command is pending
    faults      \* how many faults happened

vars == <<head, acked, bad, at, cache, view, marked, notices, mark, index, published, closed, asked, faults>>
effects == <<published, closed>>
know == <<marked, notices, mark>>

\* An actor: where it is, its decision, the last one of its scan, whether its
\* scan is the replay's catch-up, and whether an error is deterministic.
Pcs == {"idle", "skip", "apply", "effects", "index", "delete", "ack", "failed", "quarantine", "close", "release", "notify"}
ActorType == [pc : Pcs, n : 0 .. Last, to : 0 .. Last, catchUp : BOOLEAN, det : BOOLEAN]
Idle == [pc |-> "idle", n |-> 0, to |-> 0, catchUp |-> FALSE, det |-> FALSE]

Init ==
    /\ head = 0 /\ acked = 0 /\ bad \in SUBSET Failures /\ (\A x, y \in bad : x = y) /\ at = [a \in Actors |-> Idle]
    /\ cache = [a \in Actors |-> 0] /\ view = [p \in Procs |-> 0]
    /\ marked = {} /\ notices = {} /\ mark = 0 /\ index = [shown |-> "none", keys |-> {}]
    /\ published = {} /\ closed = FALSE /\ asked = FALSE /\ faults = 0

Process(a) == IF a = Replayer THEN Home ELSE a
At(a, pc) == at[a].pc = pc
Goes(a, pc) == at' = [at EXCEPT ![a].pc = pc, ![a].det = FALSE]
Ends(a) == at' = [at EXCEPT ![a] = Idle]
Fails(a, det) == at' = [at EXCEPT ![a].pc = "failed", ![a].det = det]
Failing == faults < MaxFaults /\ faults' = faults + 1
Quiet == \A a \in Actors : At(a, "idle")
Forgets(a) == cache' = [cache EXCEPT ![a] = 0]

\* The index is followed until two actors work on the execution at once: whose
\* write of it comes last is not followed any more.
Raced == [shown |-> "raced", keys |-> {}]
StartsWork == index' = IF Quiet THEN index ELSE Raced
Shows(i) == index' = IF index = Raced THEN Raced ELSE i

\* The attempt decision n schedules has not ended in a log of h decisions.
Live(n, h) == h < EndedBy[n]
Folds(ns) == \A n \in ns : <<n, "fold">> \notin bad
Refused(n) == <<n, "effect">> \in bad

----------------------------------------------------------------------------
(* The log and the consumer. *)

\* The engine appends a decision.
Append ==
    /\ head < Last /\ head' = head + 1
    /\ UNCHANGED <<acked, bad, at, cache, view, know, index, effects, asked, faults>>

\* The consumer hands out the oldest unacknowledged decision, to one process
\* at a time unless its heartbeats are missed.
Deliver(p) ==
    /\ At(p, "idle") /\ acked < head
    /\ \/ (\A q \in Procs : At(q, "idle")) /\ faults' = faults
       \/ (\E q \in Procs : ~At(q, "idle")) /\ "again" \in Risks /\ Failing
    /\ at' = [at EXCEPT ![p] = [Idle EXCEPT !.pc = "skip", !.n = acked + 1]]
    /\ StartsWork
    /\ UNCHANGED <<head, acked, bad, cache, view, know, effects, asked>>

\* The end is skipped like the rest.
SkipsAll(p) == Goes(p, "ack")

\* handleQuarantined: only the end of the execution matters, if it can be read.
Skips(p) == Goes(p, IF at[p].n = Last /\ Folds({Last}) THEN "close" ELSE "ack")

\* handle, skip: what the process remembers is confirmed against the index.
Skip(p) ==
    /\ At(p, "skip")
    /\ IF p \in marked /\ mark # 0
       THEN Skips(p) /\ UNCHANGED <<marked, cache>>
       ELSE /\ Goes(p, "apply") /\ marked' = marked \ {p}
            /\ cache' = IF p \in marked THEN [cache EXCEPT ![p] = 0] ELSE cache
    /\ UNCHANGED <<head, acked, bad, view, notices, mark, index, effects, asked, faults>>

----------------------------------------------------------------------------
(* applyDecision. *)

\* stateBefore and Apply: the decisions to fold, from the cached state if it is
\* exactly one decision behind, else from the start of the log.
ToFold(a) == (IF cache[a] = at[a].n - 1 THEN at[a].n ELSE 1) .. at[a].n

\* endedAtHead: the state an attempt is judged by: the kept head state if it is not
\* behind the decision, none if the decision is the last one, or the whole log's.
HeadView(a) ==
    LET kept == view[Process(a)]
    IN  IF at[a].n <= kept THEN kept ELSE IF head <= at[a].n THEN 0 ELSE head
NeedsLoad(a) == at[a].n > view[Process(a)] /\ head > at[a].n

\* The state is folded; an attempt the log has ended is not started. An error
\* drops the cached state.
Apply(a) ==
    LET n == at[a].n
        job == n \in Jobs
        ended == job /\ HeadView(a) # 0 /\ ~Live(n, HeadView(a))
        fails == ~Folds(ToFold(a)) \/ (job /\ NeedsLoad(a) /\ ~Folds(1 .. head))
    IN  /\ At(a, "apply")
        /\ IF fails THEN Fails(a, TRUE) ELSE Goes(a, IF ended THEN "index" ELSE "effects")
        /\ view' = IF ~job \/ ~Folds(ToFold(a)) THEN view
                   ELSE [view EXCEPT ![Process(a)] = IF fails THEN 0 ELSE HeadView(a)]
        /\ cache' = [cache EXCEPT ![a] = IF fails THEN 0 ELSE IF ended THEN n ELSE @]
        /\ UNCHANGED <<head, acked, bad, know, index, effects, asked, faults>>

\* effects: the job, or the result the cache has for it; timers, children and
\* the closing effects of the last decision; then the state is kept.
Effects(a) ==
    /\ At(a, "effects")
    /\ IF Refused(at[a].n)
       THEN Fails(a, TRUE) /\ Forgets(a) /\ UNCHANGED effects
       ELSE /\ Goes(a, "index") /\ cache' = [cache EXCEPT ![a] = at[a].n]
            /\ closed' = (closed \/ at[a].n = Last)
            /\ published' = published \cup ({at[a].n} \cap Jobs)
    /\ UNCHANGED <<head, acked, bad, view, know, index, asked, faults>>

\* IndexFrom: the summary and the key of a new status.
Writes(a, then) ==
    LET status == Status[at[a].n]
    IN  /\ At(a, "index") /\ Shows([shown |-> status, keys |-> index.keys \cup {status}]) /\ Goes(a, then)
        /\ UNCHANGED <<head, acked, bad, cache, view, know, effects, asked, faults>>

\* The old key stays.
IndexAlone(a) == Writes(a, "ack")

\* Then the key of the old status goes.
Index(a) ==
    LET n == at[a].n
    IN  Writes(a, IF n = 1 \/ Status[n] = Status[n - 1] THEN "ack" ELSE "delete")

\* What is left of it when it stops before the key.
HalfIndexed(a) ==
    {index} \cup (IF At(a, "index") /\ index # Raced THEN {[index EXCEPT !.shown = Status[at[a].n]]} ELSE {})

Delete(a) ==
    /\ At(a, "delete") /\ Shows([index EXCEPT !.keys = @ \ {Status[at[a].n - 1]}]) /\ Goes(a, "ack")
    /\ UNCHANGED <<head, acked, bad, cache, view, know, effects, asked, faults>>

\* The ack of the message, if it arrives; one for an older delivery says nothing.
Ack(p) ==
    /\ At(p, "ack") /\ p # Replayer /\ Ends(p)
    /\ \/ acked' = (IF at[p].n > acked THEN at[p].n ELSE acked) /\ faults' = faults
       \/ acked' = acked /\ Failing
    /\ UNCHANGED <<head, bad, cache, view, know, index, effects, asked>>

\* A call fails that may succeed next time; work may have been published first.
\* Past the effects the state is kept.
Upset(a) ==
    /\ at[a].pc \in {"apply", "effects", "index", "delete"}
    /\ at[a].catchUp => "catchup" \in Risks
    /\ Failing /\ Fails(a, FALSE)
    /\ IF at[a].pc \in {"apply", "effects"} THEN Forgets(a) ELSE cache' = cache
    /\ published' \in {published} \cup (IF At(a, "effects") /\ ~Refused(at[a].n)
                                        THEN {published \cup ({at[a].n} \cap Jobs)} ELSE {})
    /\ index' \in HalfIndexed(a)
    /\ UNCHANGED <<head, acked, bad, view, know, closed, asked>>

\* skip cannot read the mark: the message comes again.
SkipFails(p) ==
    /\ At(p, "skip") /\ p \in marked /\ Failing /\ Ends(p)
    /\ UNCHANGED <<head, acked, bad, cache, view, know, index, effects, asked>>

----------------------------------------------------------------------------
(* Quarantine. *)

\* The retry or the quarantine of a decision that failed, the mark having been
\* found absent or not having been read.
Judge(p) == IF at[p].det THEN Goes(p, "quarantine") ELSE Ends(p)

\* The outcomes of a call that fails only where a fault may hit.
Outcomes(risk) == IF risk \in Risks /\ faults < MaxFaults THEN BOOLEAN ELSE {TRUE}

\* The mark is not looked at again.
ConfirmNot(p) ==
    /\ p # Replayer /\ At(p, "failed") /\ Judge(p)
    /\ UNCHANGED <<head, acked, bad, cache, view, know, index, effects, asked, faults>>

\* handle after an error: the mark may be there by now, if it can be read.
Confirm(p) ==
    /\ p # Replayer /\ At(p, "failed")
    /\ \E read \in Outcomes("confirm") :
          /\ IF read /\ mark # 0 THEN marked' = marked \cup {p} /\ Skips(p)
             ELSE marked' = marked /\ Judge(p)
          /\ faults' = IF read THEN faults ELSE faults + 1
    /\ UNCHANGED <<head, acked, bad, cache, view, notices, mark, index, effects, asked>>

\* quarantine: the mark is written, every process is told, the message is
\* acknowledged.
Quarantine(p) ==
    /\ At(p, "quarantine") /\ mark' = at[p].n /\ marked' = marked \cup {p}
    /\ notices' = notices \cup {<<q, "quarantine">> : q \in Procs}
    /\ Forgets(p) /\ Goes(p, "ack")
    /\ UNCHANGED <<head, acked, bad, view, index, effects, asked, faults>>

QuarantineFails(p) ==
    /\ At(p, "quarantine") /\ Failing /\ Ends(p) /\ mark' \in {mark, at[p].n}
    /\ UNCHANGED <<head, acked, bad, cache, view, marked, notices, index, effects, asked>>

\* closeQuarantined: the closing effects and SetTerminal (the summary, if there is
\* one, and every status key); or a retry, whatever the error.
Close(p) ==
    /\ At(p, "close")
    /\ IF Refused(Last)
       THEN Ends(p) /\ UNCHANGED <<closed, index>>
       ELSE /\ Goes(p, "ack") /\ closed' = TRUE
            /\ Shows([shown |-> IF index.shown = "none" THEN "none" ELSE Status[Last], keys |-> {Status[Last]}])
    /\ UNCHANGED <<head, acked, bad, cache, view, know, published, asked, faults>>

CloseFails(p) ==
    /\ At(p, "close") /\ Failing /\ Ends(p)
    /\ closed' \in {closed, closed \/ ~Refused(Last)}
    /\ UNCHANGED <<head, acked, bad, cache, view, know, index, published, asked>>

\* WatchControl: a notice arrives, in any order; one that is lost never does.
Notice(p, kind) ==
    /\ <<p, kind>> \in notices /\ notices' = notices \ {<<p, kind>>} /\ Forgets(p)
    /\ marked' = IF kind = "quarantine" THEN marked \cup {p} ELSE marked \ {p}
    /\ UNCHANGED <<head, acked, bad, at, view, mark, index, effects, asked, faults>>

----------------------------------------------------------------------------
(* Replay. *)

\* The operator removes the cause, and asks for the replay of an execution that
\* is quarantined.
Fix ==
    /\ bad # {} /\ mark # 0 /\ bad' = {}
    /\ UNCHANGED <<head, acked, at, cache, view, know, index, effects, asked, faults>>

Ask ==
    /\ ~asked /\ mark # 0 /\ At(Replayer, "idle") /\ asked' = TRUE
    /\ UNCHANGED <<head, acked, bad, at, cache, view, know, index, effects, faults>>

\* The replay's next scan: decisions from .. head, at the time it starts.
Scans(from, catchUp) ==
    at' = [at EXCEPT ![Replayer] =
             IF from > head THEN [Idle EXCEPT !.pc = "ack", !.n = head, !.to = head, !.catchUp = catchUp]
             ELSE [pc |-> "apply", n |-> from, to |-> head, catchUp |-> catchUp, det |-> FALSE]]

\* Replay: nothing to do without a mark; else the first pass, with a cache of its own.
Replay ==
    /\ asked /\ At(Replayer, "idle")
    /\ IF mark = 0
       THEN asked' = FALSE /\ UNCHANGED <<at, cache, index>>
       ELSE /\ Scans(mark, FALSE) /\ asked' = asked /\ StartsWork
            /\ Forgets(Home)
    /\ UNCHANGED <<head, acked, bad, view, know, effects, faults>>

\* The scan runs one decision past its end.
OnwardPast ==
    LET r == at[Replayer]
    IN  /\ At(Replayer, "ack")
        /\ \/ /\ r.n <= r.to /\ asked' = asked /\ cache' = cache
              /\ at' = [at EXCEPT ![Replayer].pc = "apply", ![Replayer].n = r.n + 1]
           \/ r.n > r.to /\ Ends(Replayer) /\ asked' = FALSE /\ Forgets(Replayer)
        /\ UNCHANGED <<head, acked, bad, view, know, index, effects, faults>>

\* replayFrom goes on; after the first pass the mark is lifted, after the second
\* the command is acknowledged.
Onward ==
    LET r == at[Replayer]
    IN  /\ At(Replayer, "ack")
        /\ \/ /\ r.n < r.to /\ asked' = asked
              /\ at' = [at EXCEPT ![Replayer].pc = "apply", ![Replayer].n = r.n + 1]
           \/ r.n >= r.to /\ ~r.catchUp /\ Goes(Replayer, "release") /\ asked' = asked
           \/ r.n >= r.to /\ r.catchUp /\ Ends(Replayer) /\ asked' = FALSE
        /\ IF r.n >= r.to /\ r.catchUp THEN Forgets(Replayer) ELSE cache' = cache
        /\ UNCHANGED <<head, acked, bad, view, know, index, effects, faults>>

\* Unquarantine.
Release ==
    /\ At(Replayer, "release") /\ Goes(Replayer, "notify") /\ mark' = 0
    /\ UNCHANGED <<head, acked, bad, cache, view, marked, notices, index, effects, asked, faults>>

\* No catch-up pass: the command is done with once every process is told.
CatchUpNot ==
    /\ At(Replayer, "notify") /\ Ends(Replayer) /\ asked' = FALSE /\ Forgets(Replayer)
    /\ marked' = marked \ {Home} /\ notices' = notices \cup {<<q, "release">> : q \in Procs}
    /\ UNCHANGED <<head, acked, bad, view, mark, index, effects, faults>>

\* Every process is told, this one at once; then the catch-up pass.
CatchUp ==
    /\ At(Replayer, "notify") /\ Scans(at[Replayer].to + 1, TRUE)
    /\ marked' = marked \ {Home} /\ notices' = notices \cup {<<q, "release">> : q \in Procs}
    /\ UNCHANGED <<head, acked, bad, cache, view, mark, index, effects, asked, faults>>

\* The replay failed: the command comes again, or ends as a dead letter.
ReplayFailed ==
    /\ At(Replayer, "failed") /\ Ends(Replayer) /\ asked' \in BOOLEAN /\ Forgets(Replayer)
    /\ UNCHANGED <<head, acked, bad, view, know, index, effects, faults>>

\* Lifting the mark, or what follows it, fails.
ReleaseFails ==
    /\ at[Replayer].pc \in {"release"} \cup (IF "catchup" \in Risks THEN {"notify"} ELSE {})
    /\ Failing /\ Ends(Replayer) /\ Forgets(Replayer)
    /\ UNCHANGED <<head, acked, bad, view, know, index, effects, asked>>

\* The replay is done but its command is not acknowledged: it comes again.
CommandAgain ==
    /\ At(Replayer, "ack") /\ at[Replayer].catchUp /\ at[Replayer].n >= at[Replayer].to
    /\ Failing /\ Ends(Replayer) /\ Forgets(Replayer)
    /\ UNCHANGED <<head, acked, bad, view, know, index, effects, asked>>

----------------------------------------------------------------------------
\* Whether the mark is lifted and the catch-up not done.
CatchingUp == At(Replayer, "notify") \/ at[Replayer].catchUp

\* A process dies; Home takes its replay along. The next one reads the list of
\* marks, if it can.
Crash(p) ==
    /\ Failing /\ (p = Home /\ CatchingUp => "catchup" \in Risks)
    /\ at' = [a \in Actors |-> IF Process(a) = p THEN Idle ELSE at[a]]
    /\ cache' = [a \in Actors |-> IF Process(a) = p THEN 0 ELSE cache[a]]
    /\ view' = [view EXCEPT ![p] = 0]
    /\ marked' \in {marked \ {p}} \cup (IF mark # 0 THEN {marked \cup {p}} ELSE {})
    /\ notices' = {x \in notices : x[1] # p}
    /\ index' \in UNION {HalfIndexed(a) : a \in {b \in Actors : Process(b) = p}}
    /\ UNCHANGED <<head, acked, bad, mark, effects, asked>>

\* applyDecision, by a dispatcher or by the replay.
ApplyDecision(a) == Apply(a) \/ Effects(a) \/ Index(a) \/ Delete(a)

Handle(p) ==
    \/ ApplyDecision(p) \/ Skip(p) \/ Ack(p) \/ Confirm(p) \/ Quarantine(p) \/ Close(p)

Replays == ApplyDecision(Replayer) \/ Replay \/ Onward \/ Release \/ CatchUp \/ ReplayFailed

Next ==
    \/ Append \/ Fix \/ Ask \/ Replays \/ ReleaseFails \/ CommandAgain
    \/ \E a \in Actors : Upset(a)
    \/ \E p \in Procs : \/ Deliver(p) \/ Handle(p) \/ SkipFails(p) \/ QuarantineFails(p) \/ CloseFails(p) \/ Crash(p)
                        \/ \E kind \in {"quarantine", "release"} : Notice(p, kind)

Spec == Init /\ [][Next]_vars

----------------------------------------------------------------------------
\* Types; nothing is acknowledged, folded, marked or run beyond the head of
\* the log (handle, stateBefore, Replay).
TypeOK ==
    /\ head \in 0 .. Last /\ acked \in 0 .. head /\ bad \subseteq Failures /\ at \in [Actors -> ActorType]
    /\ cache \in [Actors -> 0 .. Last] /\ view \in [Procs -> 0 .. head]
    /\ marked \subseteq Procs /\ notices \subseteq Procs \X {"quarantine", "release"} /\ mark \in 0 .. head
    /\ index \in [shown : {"none", "raced"} \cup {Status[n] : n \in 1 .. head}, keys : SUBSET {Status[n] : n \in 1 .. head}]
    /\ published \subseteq Jobs \cap (1 .. head) /\ closed \in BOOLEAN /\ asked \in BOOLEAN /\ faults \in 0 .. MaxFaults

\* Decision n is one the mark keeps for a replay, or one a replay is to run.
Kept(n) ==
    \/ mark # 0 /\ mark <= n
    \/ At(Replayer, "notify")
    \/ at[Replayer].catchUp /\ at[Replayer].n <= n /\ n <= at[Replayer].to

\* A message is acknowledged only when its effects have run or are known to be
\* owed: an acknowledged decision that scheduled an attempt has given it to the
\* workers, or the log has ended the attempt, or the execution's quarantine mark
\* or the replay that lifted it covers the decision. Crashes, skips by processes
\* that missed a broadcast and the race between the end of a replay and a
\* dispatcher that still saw the mark leave no attempt behind (handle, Replay).
NoWorkLost ==
    \A n \in Jobs : n <= acked => n \in published \/ (head >= EndedBy[n]) \/ Kept(n)

\* The closing effects of an execution, among them the message to its parent,
\* have run once its last decision is acknowledged, quarantined or not ("so a
\* quarantined child never strands its parent") -- unless that decision cannot be
\* read, or is itself the one that failed and waits for a replay.
ParentTold == (acked = Last /\ <<Last, "fold">> \notin Failures) => (closed \/ mark = Last)

\* When all is quiet and nothing is quarantined the summary shows the status of
\* the execution and it is listed under that status alone, whatever failed and
\* was retried half-way (IndexFrom puts the new key before it deletes the old) --
\* provided the replay of the execution and a dispatcher were not at it at once.
IndexSettled ==
    (Quiet /\ index # Raced /\ acked = head /\ head > 0 /\ mark = 0)
        => index = [shown |-> Status[head], keys |-> {Status[head]}]

\* The mark is of the first decision that could not be processed
\* (QuarantineMark): while an execution is quarantined it never moves forward.
MarkIsFirst == [][mark # 0 /\ mark' # 0 => mark' <= mark]_vars
=============================================================================
