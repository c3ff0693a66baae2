---------------------------- MODULE ConsumeProofs ----------------------------
(***************************************************************************)
(* What the consumer loops of a process guarantee, proved with TLAPS for   *)
(* any parts, messages, capacity and number of runs and faults.            *)
(*                                                                         *)
(* The inductive invariant says of every part what each point of its loop  *)
(* holds (LoopOK), that its semaphore counts its handlers and the slots it *)
(* has set aside (SlotsOK), and what its callbacks may still announce      *)
(* (PartSignalOK); of every message, which part may have it (MsgOK).       *)
(***************************************************************************)
EXTENDS Consume, FiniteSetTheorems, TLAPS

PartType == [pc : {"off", "setup", "subscribe", "serial", "fenced", "acquire", "fetch", "batch", "release", "core", "drain"},
             sem : 0 .. Cap, want : 0 .. Cap, got : 0 .. Cap, leaving : 0 .. Cap,
             pulled : BOOLEAN, stopping : BOOLEAN, cancelled : BOOLEAN]

Count(p) == Cardinality(Busy(p))

\* Where a part may be: at a place of its own mode, off when no run goes on, and
\* draining only once its context is done.
LoopOK(p) ==
  /\ part[p].pc \in {"subscribe", "serial", "fenced"} => Mode[p] = "serial"
  /\ part[p].pc \in {"acquire", "fetch", "batch", "release"} => Mode[p] = "fetch"
  /\ part[p].pc = "core" => Mode[p] = "core"
  /\ part[p].pc \in {"fenced", "drain"} => stop /\ Mode[p] # "core"
  /\ ~running => part[p].pc = "off"

\* What a part's semaphore counts; slots are set aside for a request only.
SlotsOK(p) ==
  /\ part[p].got <= part[p].want
  /\ part[p].pc \notin {"fetch", "batch", "release"} => part[p].want = 0 /\ part[p].got = 0
  /\ part[p].pc \in {"off", "setup", "core"} => part[p].leaving = 0
  /\ IF Mode[p] = "fetch" THEN part[p].sem = Count(p) + part[p].leaving + part[p].want - part[p].got
     ELSE part[p].sem = 0 /\ part[p].leaving = 0

\* Where the part of a message is while the client or a handler has it.
MsgOK(m) ==
  /\ msg[m] \in {"held", "late"} => Mode[Of[m]] = "serial"
  /\ msg[m] = "held" => part[Of[m]].pc \in {"subscribe", "serial", "fenced"}
  /\ msg[m] = "busy" => part[Of[m]].pc \notin {"off", "setup", "core"}

\* Part p pulls, or its subscription is flushed.
Pulls(p) ==
  IF Mode[p] = "core" THEN part[p].pc = "core" /\ <<signal.run, p>> \notin flush
  ELSE part[p].pulled

\* The signal is of the run that goes on and counts its callbacks; what is left
\* of an earlier run to flush is not of this one.
SignalOK ==
  /\ runs \in Nat /\ runs <= MaxRuns /\ (running => runs > 0)
  /\ signal.run = (IF running THEN 2 * runs - 1 ELSE 2 * runs)
  /\ signal.left = (IF runs > 0 THEN Cardinality(Parts) - Cardinality(called) ELSE 0)
  /\ signal.up => running /\ called = Parts
  /\ \A run, p : <<run, p>> \in flush => run <= signal.run /\ (run = signal.run => running)

PartSignalOK(p) ==
  /\ <<signal.run, p>> \in flush => Mode[p] = "core" /\ (part[p].pc = "core" \/ (part[p].pc = "off" /\ stop))
  /\ p \in called => part[p].pc # "setup"
  /\ p \in called /\ running /\ ~stop => Pulls(p)

Types ==
  /\ running \in BOOLEAN /\ stop \in BOOLEAN /\ runs \in Nat /\ faults \in 0 .. MaxFaults
  /\ signal \in [run : Nat, left : Int, up : BOOLEAN]
  /\ called \subseteq Parts /\ flush \subseteq (1 .. (2 * MaxRuns)) \X Parts
  /\ part \in [Parts -> PartType]
  /\ msg \in [Msgs -> {"queued", "held", "late", "busy", "done", "dead"}]

IInv ==
  /\ Types /\ SignalOK
  /\ \A p \in Parts : LoopOK(p) /\ SlotsOK(p) /\ PartSignalOK(p)
  /\ \A m \in Msgs : MsgOK(m)
----------------------------------------------------------------------------
\* Counting handlers and callbacks.

LEMMA BusyCount ==
    ASSUME Types, NEW p \in Parts
    PROVE  IsFiniteSet(Busy(p)) /\ Count(p) \in Nat /\ (Count(p) = 0 <=> Busy(p) = {})
  <1>1. Busy(p) \in SUBSET Msgs
    BY Zenon DEF Busy
  <1>2. IsFiniteSet(Busy(p))
    BY Zenon, <1>1, FS_Subset, ConsumeAssumption
  <1> QED
    BY Zenon, <1>2, FS_CardinalityType, FS_EmptySet DEF Count

\* A message that is taken into a handler, and one that leaves it.
LEMMA BusyGains ==
    ASSUME Types, NEW m \in Msgs, msg[m] # "busy", msg' = [msg EXCEPT ![m] = "busy"]
    PROVE  /\ Count(Of[m])' = Count(Of[m]) + 1
           /\ \A q \in Parts : q # Of[m] => Busy(q)' = Busy(q)
  <1>1. msg'[m] = "busy" /\ \A o \in Msgs : o # m => msg'[o] = msg[o]
    BY Zenon DEF Types
  <1>2. Of[m] \in Parts
    BY Zenon, ConsumeAssumption
  <1>3. Busy(Of[m])' = Busy(Of[m]) \cup {m} /\ m \notin Busy(Of[m])
    BY Zenon, <1>1 DEF Busy
  <1>4. Count(Of[m])' = Count(Of[m]) + 1
    BY Zenon, <1>2, <1>3, BusyCount, FS_AddElement DEF Count
  <1> QED
    BY Zenon, <1>1, <1>4 DEF Busy

LEMMA BusyLoses ==
    ASSUME Types, NEW m \in Msgs, msg[m] = "busy", NEW to, to # "busy", msg' = [msg EXCEPT ![m] = to]
    PROVE  /\ Count(Of[m])' = Count(Of[m]) - 1
           /\ \A q \in Parts : q # Of[m] => Busy(q)' = Busy(q)
  <1>1. msg'[m] = to /\ \A o \in Msgs : o # m => msg'[o] = msg[o]
    BY Zenon DEF Types
  <1>2. Of[m] \in Parts
    BY Zenon, ConsumeAssumption
  <1>3. Busy(Of[m])' = Busy(Of[m]) \ {m} /\ m \in Busy(Of[m])
    BY Zenon, <1>1 DEF Busy
  <1>4. Count(Of[m])' = Count(Of[m]) - 1
    BY Zenon, <1>2, <1>3, BusyCount, FS_RemoveElement DEF Count
  <1> QED
    BY Zenon, <1>1, <1>4 DEF Busy

\* The callback of a part counts it once.
LEMMA ReadyCounts ==
    ASSUME IInv, NEW p \in Parts, NEW run, Ready(p, run), run = signal.run => running,
           running' = running, runs' = runs, flush' \subseteq flush
    PROVE  /\ SignalOK' /\ signal' \in [run : Nat, left : Int, up : BOOLEAN]
           /\ signal'.run = signal.run /\ called' \subseteq called \cup {p}
           /\ called' \subseteq Parts
  <1>1. CASE UNCHANGED <<signal, called>>
    BY <1>1 DEF IInv, Types, SignalOK
  <1>2. CASE /\ signal.run = run /\ p \notin called /\ called' = called \cup {p}
             /\ signal' = [signal EXCEPT !.left = @ - 1, !.up = @ \/ signal.left = 1]
    <2>1. called \in SUBSET Parts /\ called' \in SUBSET Parts /\ IsFiniteSet(Parts)
      BY Zenon, <1>2, ConsumeAssumption DEF IInv, Types
    <2>2. IsFiniteSet(called) /\ IsFiniteSet(called')
      BY Zenon, <2>1, FS_Subset
    <2>3. Cardinality(called) \in Nat /\ Cardinality(called') \in Nat /\ Cardinality(Parts) \in Nat
      BY Zenon, <2>1, <2>2, FS_CardinalityType
    <2>4. Cardinality(called') = Cardinality(called) + 1
      BY Zenon, <1>2, <2>2, FS_AddElement
    <2>5. Cardinality(Parts) = Cardinality(called') => called' = Parts
      BY Zenon, <2>1, FS_Subset
    <2>6. running /\ runs > 0 /\ signal.left = Cardinality(Parts) - Cardinality(called)
      BY <1>2 DEF IInv, SignalOK
    <2>7. /\ signal'.run = signal.run /\ signal'.left = signal.left - 1
          /\ signal'.up = (signal.up \/ signal.left = 1) /\ signal' \in [run : Nat, left : Int, up : BOOLEAN]
      <3>1. signal \in [run : Nat, left : Int, up : BOOLEAN] /\ signal.left - 1 \in Int
        BY DEF IInv, Types
      <3>2. (signal.up \/ signal.left = 1) \in BOOLEAN
        BY Zenon
      <3> QED
        BY Zenon, <1>2, <3>1, <3>2
    <2>8. signal.up => called' = Parts
      BY Zenon, <1>2 DEF IInv, SignalOK
    <2>9. signal.left = 1 => called' = Parts
      BY <2>3, <2>4, <2>5, <2>6
    <2>10. signal'.up => running' /\ called' = Parts
      BY Zenon, <2>6, <2>7, <2>8, <2>9
    <2>11. signal'.left = IF runs' > 0 THEN Cardinality(Parts) - Cardinality(called') ELSE 0
      BY <2>3, <2>4, <2>6, <2>7
    <2> QED
      BY <1>2, <2>1, <2>7, <2>10, <2>11 DEF IInv, SignalOK
  <1> QED
    BY Zenon, <1>1, <1>2 DEF Ready
\* Nothing happens to the signal.
LEMMA SignalKept ==
    ASSUME IInv, UNCHANGED <<running, runs, signal, called>>, flush' \subseteq flush
    PROVE  /\ SignalOK' /\ signal' \in [run : Nat, left : Int, up : BOOLEAN]
           /\ signal'.run = signal.run /\ called' \subseteq Parts
  BY Zenon DEF IInv, Types, SignalOK

----------------------------------------------------------------------------
\* One part moves: the others are as they were.

LEMMA OthersKept ==
    ASSUME IInv, NEW q \in Parts, part'[q] = part[q], UNCHANGED <<running, stop>>, Busy(q)' = Busy(q),
           signal'.run = signal.run, <<signal.run, q>> \in flush' <=> <<signal.run, q>> \in flush,
           q \in called' => q \in called
    PROVE  LoopOK(q)' /\ SlotsOK(q)' /\ PartSignalOK(q)'
  <1>1. LoopOK(q) /\ SlotsOK(q) /\ PartSignalOK(q)
    BY Zenon DEF IInv
  <1>2. LoopOK(q)'
    BY Zenon, <1>1 DEF LoopOK
  <1>3. SlotsOK(q)'
    BY Zenon, <1>1 DEF SlotsOK, Count
  <1>4. PartSignalOK(q)'
    BY Zenon, <1>1 DEF PartSignalOK, Pulls
  <1> QED
    BY Zenon, <1>2, <1>3, <1>4

LEMMA PartStep ==
    ASSUME IInv, NEW p \in Parts, NEW r \in PartType, part' = [part EXCEPT ![p] = r],
           UNCHANGED <<running, runs, stop, msg>>, faults' \in 0 .. MaxFaults,
           flush' \subseteq (1 .. (2 * MaxRuns)) \X Parts,
           \A q \in Parts : q # p => (<<signal.run, q>> \in flush' <=> <<signal.run, q>> \in flush),
           SignalOK', signal' \in [run : Nat, left : Int, up : BOOLEAN],
           signal'.run = signal.run, called' \subseteq called \cup {p},
           LoopOK(p)', SlotsOK(p)', PartSignalOK(p)',
           part[p].pc \in {"subscribe", "serial", "fenced"} => r.pc \in {"subscribe", "serial", "fenced"},
           r.pc \in {"off", "setup", "core"} => part[p].pc \in {"off", "setup", "core"} \/ Busy(p) = {}
    PROVE  IInv'
  <1>1. part'[p] = r /\ \A q \in Parts : q # p => part'[q] = part[q]
    BY Zenon DEF IInv, Types
  <1>2. Types'
    BY Zenon DEF IInv, Types
  <1>3. \A q \in Parts : LoopOK(q)' /\ SlotsOK(q)' /\ PartSignalOK(q)'
    <2> SUFFICES ASSUME NEW q \in Parts, q # p PROVE LoopOK(q)' /\ SlotsOK(q)' /\ PartSignalOK(q)'
      BY Zenon
    <2>1. Busy(q)' = Busy(q)
      BY Zenon DEF Busy
    <2>2. q \in called' => q \in called
      BY Zenon
    <2> QED
      BY Zenon, <1>1, <2>1, <2>2, OthersKept
  <1>4. \A m \in Msgs : MsgOK(m)'
    <2> SUFFICES ASSUME NEW m \in Msgs PROVE MsgOK(m)'
      BY Zenon
    <2>1. MsgOK(m) /\ Of[m] \in Parts
      BY Zenon, ConsumeAssumption DEF IInv
    <2>2. CASE Of[m] # p
      BY Zenon, <1>1, <2>1, <2>2 DEF MsgOK
    <2>3. CASE Of[m] = p
      <3>1. Busy(p) = {} => msg[m] # "busy"
        BY Zenon, <2>3 DEF Busy
      <3> QED
        BY Zenon, <1>1, <2>1, <2>3, <3>1 DEF MsgOK
    <2> QED
      BY Zenon, <2>2, <2>3
  <1> QED
    BY Zenon, <1>2, <1>3, <1>4 DEF IInv
\* The record of a part with another place.
LEMMA MovedPart ==
    ASSUME Types, NEW p \in Parts, NEW pc, Go(p, pc),
           pc \in {"off", "setup", "subscribe", "serial", "fenced", "acquire", "fetch", "batch", "release", "core", "drain"}
    PROVE  \E r \in PartType :
              /\ part' = [part EXCEPT ![p] = r] /\ part'[p] = r
              /\ r = [part[p] EXCEPT !.pc = pc] /\ r.pc = pc /\ r.sem = part[p].sem /\ r.want = part[p].want
              /\ r.got = part[p].got /\ r.leaving = part[p].leaving /\ r.pulled = part[p].pulled
  <1> DEFINE r == [part[p] EXCEPT !.pc = pc]
  <1>1. part[p] \in PartType
    BY Zenon DEF Types
  <1>2. r \in PartType /\ r.pc = pc /\ r.sem = part[p].sem /\ r.want = part[p].want
           /\ r.got = part[p].got /\ r.leaving = part[p].leaving /\ r.pulled = part[p].pulled
    BY <1>1 DEF PartType
  <1>3. part' = [part EXCEPT ![p] = r] /\ part'[p] = r
    BY Zenon DEF Types, Go
  <1> QED
    BY Zenon, <1>2, <1>3

\* A part that only moves on between two places of its loop.
LEMMA MoveStep ==
    ASSUME IInv, NEW p \in Parts, NEW pc, Go(p, pc), UNCHANGED <<running, runs, stop, flush, signal, called, msg>>,
           faults' \in 0 .. MaxFaults, running,
           \/ PartAt(p, "setup") /\ pc = "off"
           \/ PartAt(p, "core") /\ pc = "off" /\ stop
           \/ part[p].pc \in {"fetch", "batch"} /\ pc = "release"
    PROVE  IInv'
  <1>1. Types /\ LoopOK(p) /\ SlotsOK(p) /\ PartSignalOK(p)
    BY Zenon DEF IInv
  <1>2. pc \in {"off", "release"}
    BY Zenon
  <1>3. PICK r \in PartType :
              /\ part' = [part EXCEPT ![p] = r] /\ part'[p] = r
              /\ r = [part[p] EXCEPT !.pc = pc] /\ r.pc = pc /\ r.sem = part[p].sem /\ r.want = part[p].want
              /\ r.got = part[p].got /\ r.leaving = part[p].leaving /\ r.pulled = part[p].pulled
    <2>1. pc \in {"off", "setup", "subscribe", "serial", "fenced", "acquire", "fetch", "batch", "release", "core", "drain"}
      BY Zenon, <1>2
    <2> QED
      BY ZenonT(60), <1>1, <2>1, MovedPart
  <1>4. LoopOK(p)'
    BY SMT, <1>1, <1>3 DEF LoopOK, PartAt
  <1>5. Busy(p)' = Busy(p)
    BY Zenon DEF Busy
  <1>6. SlotsOK(p)'
    BY SMT, <1>1, <1>3, <1>5 DEF SlotsOK, Count, PartAt
  <1>7. PartSignalOK(p)'
    BY SMT, <1>1, <1>3 DEF PartSignalOK, Pulls, PartAt, LoopOK
  <1>8. /\ SignalOK' /\ signal' \in [run : Nat, left : Int, up : BOOLEAN]
        /\ signal'.run = signal.run /\ called' \subseteq called \cup {p} /\ flush' \subseteq (1 .. (2 * MaxRuns)) \X Parts
    BY Zenon, <1>1, SignalKept DEF Types
  <1>9. part[p].pc \in {"subscribe", "serial", "fenced"} => r.pc \in {"subscribe", "serial", "fenced"}
    BY SMT, <1>3 DEF PartAt
  <1>10. r.pc \in {"off", "setup", "core"} => part[p].pc \in {"off", "setup", "core"} \/ Busy(p) = {}
    BY SMT, <1>3 DEF PartAt
  <1> QED
    BY Zenon, <1>3, <1>4, <1>6, <1>7, <1>8, <1>9, <1>10, PartStep
\* A new record of a part that is in its loop: where it is, and its slots.
LoopsTo(p, r) ==
  /\ r.pc \in {"subscribe", "serial", "fenced"} => Mode[p] = "serial"
  /\ r.pc \in {"acquire", "fetch", "batch", "release"} => Mode[p] = "fetch"
  /\ r.pc \in {"fenced", "drain"} => stop
  /\ r.pc \notin {"core", "setup"}
  /\ part[p].pc \in {"subscribe", "serial", "fenced"} => r.pc \in {"subscribe", "serial", "fenced"}
  /\ r.pc = "off" => Busy(p) = {} /\ stop
  /\ r.pulled = part[p].pulled \/ stop

SlotsTo(p, r) ==
  /\ r.got <= r.want
  /\ r.pc \notin {"fetch", "batch", "release"} => r.want = 0 /\ r.got = 0
  /\ r.pc = "off" => r.leaving = 0
  /\ IF Mode[p] = "fetch" THEN r.sem = Count(p) + r.leaving + r.want - r.got
     ELSE r.sem = 0 /\ r.leaving = 0

\* A part whose step leaves the signal alone, within its loop.
LEMMA PlainStep ==
    ASSUME IInv, NEW p \in Parts, NEW r \in PartType, part' = [part EXCEPT ![p] = r],
           UNCHANGED <<running, runs, stop, flush, signal, called, msg, faults>>,
           part[p].pc \notin {"off", "setup", "core"},
           LoopsTo(p, r), SlotsTo(p, r)
    PROVE  IInv'
  <1>1. Types /\ LoopOK(p) /\ SlotsOK(p) /\ PartSignalOK(p)
    BY Zenon DEF IInv
  <1>2. part'[p] = r /\ running
    BY Zenon, <1>1 DEF Types, LoopOK
  <1>3. Mode[p] # "core"
    <2>1. part[p] \in PartType
      BY Zenon, <1>1 DEF Types
    <2>2. part[p].pc \in {"off", "setup", "subscribe", "serial", "fenced", "acquire", "fetch", "batch", "release", "core", "drain"}
      BY Zenon, <2>1 DEF PartType
    <2> QED
      BY SMT, <1>1, <2>2 DEF LoopOK
  <1>4. LoopOK(p)'
    BY Zenon, <1>2, <1>3 DEF LoopOK, LoopsTo
  <1>5. Busy(p)' = Busy(p)
    BY Zenon DEF Busy
  <1>6. SlotsOK(p)'
    BY Zenon, <1>2, <1>5 DEF SlotsOK, SlotsTo, LoopsTo, Count
  <1>7. PartSignalOK(p)'
    BY Zenon, <1>1, <1>2, <1>3 DEF PartSignalOK, Pulls, LoopsTo
  <1>8. /\ SignalOK' /\ signal' \in [run : Nat, left : Int, up : BOOLEAN]
        /\ signal'.run = signal.run /\ called' \subseteq called \cup {p} /\ flush' \subseteq (1 .. (2 * MaxRuns)) \X Parts
        /\ faults' \in 0 .. MaxFaults
    BY Zenon, <1>1, SignalKept DEF Types
  <1>9. r.pc \in {"off", "setup", "core"} => part[p].pc \in {"off", "setup", "core"} \/ Busy(p) = {}
    BY Zenon DEF LoopsTo
  <1>10. part[p].pc \in {"subscribe", "serial", "fenced"} => r.pc \in {"subscribe", "serial", "fenced"}
    BY Zenon DEF LoopsTo
  <1> QED
    BY Zenon, <1>4, <1>6, <1>7, <1>8, <1>9, <1>10, PartStep

LEMMA LoopSteps ==
    ASSUME IInv, NEW p \in Parts, Fence(p) \/ Leave(p) \/ Acquire(p) \/ Release(p) \/ BudgetSpent(p) \/ Drained(p) \/ Free(p)
    PROVE  IInv'
  <1>1. Types /\ LoopOK(p) /\ SlotsOK(p) /\ part[p] \in PartType /\ Cap \in Nat
    BY Zenon, ConsumeAssumption DEF IInv, Types
  <1>2. Count(p) \in Nat /\ (Count(p) = 0 <=> Busy(p) = {})
    BY Zenon, <1>1, BusyCount
  <1>3. CASE Fence(p)
    <2> DEFINE r == [part[p] EXCEPT !.pc = "fenced", !.stopping = TRUE]
    <2>1. r \in PartType /\ r.pc = "fenced" /\ r.sem = part[p].sem /\ r.want = part[p].want /\ r.got = part[p].got /\ r.leaving = part[p].leaving /\ r.pulled = part[p].pulled
      BY Zenon, <1>1 DEF PartType
    <2>2. part' = [part EXCEPT ![p] = r] /\ UNCHANGED <<running, runs, stop, flush, signal, called, msg, faults>>
      BY Zenon, <1>3 DEF Fence, loop
    <2> HIDE DEF r
    <2>3. LoopsTo(p, r) /\ part[p].pc \notin {"off", "setup", "core"}
      BY SMT, <1>1, <1>2, <1>3, <2>1 DEF Fence, PartAt, LoopOK, SlotsOK, LoopsTo
    <2>4. SlotsTo(p, r)
      BY SMT, <1>1, <1>2, <1>3, <2>1 DEF Fence, PartAt, LoopOK, SlotsOK, SlotsTo, PartType
    <2> QED
      BY Zenon, <2>1, <2>2, <2>3, <2>4, PlainStep
  <1>4. CASE Leave(p)
    <2> DEFINE r == [part[p] EXCEPT !.pc = "drain", !.stopping = TRUE]
    <2>1. r \in PartType /\ r.pc = "drain" /\ r.sem = part[p].sem /\ r.want = part[p].want /\ r.got = part[p].got /\ r.leaving = part[p].leaving /\ r.pulled = part[p].pulled
      BY Zenon, <1>1 DEF PartType
    <2>2. part' = [part EXCEPT ![p] = r] /\ UNCHANGED <<running, runs, stop, flush, signal, called, msg, faults>>
      BY Zenon, <1>4 DEF Leave, loop
    <2> HIDE DEF r
    <2>3. LoopsTo(p, r) /\ part[p].pc \notin {"off", "setup", "core"}
      BY SMT, <1>1, <1>2, <1>4, <2>1 DEF Leave, PartAt, LoopOK, SlotsOK, LoopsTo
    <2>4. SlotsTo(p, r)
      BY SMT, <1>1, <1>2, <1>4, <2>1 DEF Leave, PartAt, LoopOK, SlotsOK, SlotsTo, PartType
    <2> QED
      BY Zenon, <2>1, <2>2, <2>3, <2>4, PlainStep
  <1>5. CASE Acquire(p)
    <2> DEFINE r == [part[p] EXCEPT !.sem = Cap, !.want = Cap - part[p].sem, !.got = 0, !.pc = "fetch"]
    <2>1. r \in PartType /\ r.pc = "fetch" /\ r.sem = Cap /\ r.want = Cap - part[p].sem /\ r.got = 0 /\ r.leaving = part[p].leaving /\ r.pulled = part[p].pulled
      <3>1. Cap \in 0 .. Cap /\ Cap - part[p].sem \in 0 .. Cap /\ 0 \in 0 .. Cap
        BY SMT, <1>1 DEF PartType
      <3> QED
        BY Zenon, <1>1, <3>1 DEF PartType
    <2>2. part' = [part EXCEPT ![p] = r] /\ UNCHANGED <<running, runs, stop, flush, signal, called, msg, faults>>
      BY Zenon, <1>5 DEF Acquire, loop
    <2> HIDE DEF r
    <2>3. LoopsTo(p, r) /\ part[p].pc \notin {"off", "setup", "core"}
      BY SMT, <1>1, <1>2, <1>5, <2>1 DEF Acquire, PartAt, LoopOK, SlotsOK, LoopsTo
    <2>4. SlotsTo(p, r)
      BY SMT, <1>1, <1>2, <1>5, <2>1 DEF Acquire, PartAt, LoopOK, SlotsOK, SlotsTo, PartType
    <2> QED
      BY Zenon, <2>1, <2>2, <2>3, <2>4, PlainStep
  <1>6. CASE Release(p)
    <2> DEFINE r == [part[p] EXCEPT !.sem = @ - (part[p].want - part[p].got), !.want = 0, !.got = 0, !.pc = "acquire"]
    <2>1. part[p].sem - (part[p].want - part[p].got) \in 0 .. Cap /\ 0 \in 0 .. Cap
      BY SMT, <1>1, <1>2, <1>6 DEF PartType, Release, PartAt, LoopOK, SlotsOK
    <2>2. r \in PartType /\ r.pc = "acquire" /\ r.sem = part[p].sem - (part[p].want - part[p].got) /\ r.want = 0 /\ r.got = 0 /\ r.leaving = part[p].leaving /\ r.pulled = part[p].pulled
      BY Zenon, <1>1, <2>1 DEF PartType
    <2>3. part' = [part EXCEPT ![p] = r] /\ UNCHANGED <<running, runs, stop, flush, signal, called, msg, faults>>
      BY Zenon, <1>6 DEF Release, loop
    <2> HIDE DEF r
    <2>4. LoopsTo(p, r) /\ part[p].pc \notin {"off", "setup", "core"}
      BY SMT, <1>1, <1>2, <1>6, <2>1, <2>2 DEF Release, PartAt, LoopOK, SlotsOK, LoopsTo
    <2>5. SlotsTo(p, r)
      BY SMT, <1>1, <1>2, <1>6, <2>1, <2>2 DEF Release, PartAt, LoopOK, SlotsOK, SlotsTo, PartType
    <2> QED
      BY Zenon, <2>2, <2>3, <2>4, <2>5, PlainStep
  <1>7. CASE BudgetSpent(p)
    <2> DEFINE r == [part[p] EXCEPT !.cancelled = TRUE]
    <2>1. r \in PartType /\ r.pc = part[p].pc /\ r.sem = part[p].sem /\ r.want = part[p].want /\ r.got = part[p].got /\ r.leaving = part[p].leaving /\ r.pulled = part[p].pulled
      BY Zenon, <1>1 DEF PartType
    <2>2. part' = [part EXCEPT ![p] = r] /\ UNCHANGED <<running, runs, stop, flush, signal, called, msg, faults>>
      BY Zenon, <1>7 DEF BudgetSpent, loop
    <2> HIDE DEF r
    <2>3. LoopsTo(p, r) /\ part[p].pc \notin {"off", "setup", "core"}
      BY SMT, <1>1, <1>2, <1>7, <2>1 DEF BudgetSpent, PartAt, LoopOK, SlotsOK, LoopsTo
    <2>4. SlotsTo(p, r)
      BY SMT, <1>1, <1>2, <1>7, <2>1 DEF BudgetSpent, PartAt, LoopOK, SlotsOK, SlotsTo, PartType
    <2> QED
      BY Zenon, <2>1, <2>2, <2>3, <2>4, PlainStep
  <1>8. CASE Drained(p)
    <2> DEFINE r == Off
    <2>1. r \in PartType /\ r.pc = "off" /\ r.sem = 0 /\ r.want = 0 /\ r.got = 0 /\ r.leaving = 0
      BY SMT, <1>1 DEF PartType, Off
    <2>2. part' = [part EXCEPT ![p] = r] /\ UNCHANGED <<running, runs, stop, flush, signal, called, msg, faults>>
      BY Zenon, <1>8 DEF Drained, loop
    <2> HIDE DEF r
    <2>3. LoopsTo(p, r) /\ part[p].pc \notin {"off", "setup", "core"}
      BY SMT, <1>1, <1>2, <1>8, <2>1 DEF Drained, PartAt, LoopOK, SlotsOK, LoopsTo
    <2>4. SlotsTo(p, r)
      BY SMT, <1>1, <1>2, <1>8, <2>1 DEF Drained, PartAt, LoopOK, SlotsOK, SlotsTo, PartType
    <2> QED
      BY Zenon, <2>1, <2>2, <2>3, <2>4, PlainStep
  <1>9. CASE Free(p)
    <2> DEFINE r == [part[p] EXCEPT !.leaving = @ - 1, !.sem = @ - 1]
    <2>1. Mode[p] = "fetch" /\ part[p].sem - 1 \in 0 .. Cap /\ part[p].leaving - 1 \in 0 .. Cap
      BY SMTT(30), <1>1, <1>2, <1>9 DEF PartType, Free, SlotsOK
    <2>2. r \in PartType /\ r.pc = part[p].pc /\ r.sem = part[p].sem - 1 /\ r.leaving = part[p].leaving - 1 /\ r.want = part[p].want /\ r.got = part[p].got /\ r.pulled = part[p].pulled
      BY Zenon, <1>1, <2>1 DEF PartType
    <2>3. part' = [part EXCEPT ![p] = r] /\ UNCHANGED <<running, runs, stop, flush, signal, called, msg, faults>>
      BY Zenon, <1>9 DEF Free, loop
    <2> HIDE DEF r
    <2>4. LoopsTo(p, r) /\ part[p].pc \notin {"off", "setup", "core"}
      BY SMT, <1>1, <1>2, <1>9, <2>1, <2>2 DEF Free, PartAt, LoopOK, SlotsOK, LoopsTo
    <2>5. SlotsTo(p, r)
      BY SMT, <1>1, <1>2, <1>9, <2>1, <2>2 DEF Free, PartAt, LoopOK, SlotsOK, SlotsTo, PartType
    <2> QED
      BY Zenon, <2>2, <2>3, <2>4, <2>5, PlainStep
  <1> QED
    BY Zenon, <1>3, <1>4, <1>5, <1>6, <1>7, <1>8, <1>9
LEMMA EndSteps ==
    ASSUME IInv, NEW p \in Parts, SetupFails(p) \/ FetchFails(p) \/ EndBatch(p) \/ Unsubscribe(p)
    PROVE  IInv'
  <1>1. LoopOK(p) /\ faults \in 0 .. MaxFaults /\ MaxFaults \in Nat
    BY Zenon, ConsumeAssumption DEF IInv, Types
  <1>2. Fault => faults' \in 0 .. MaxFaults
    BY <1>1 DEF Fault
  <1>3. UNCHANGED <<running, runs, stop, flush, signal, called, msg>> /\ faults' \in 0 .. MaxFaults
    BY Zenon, <1>1, <1>2 DEF SetupFails, FetchFails, EndBatch, Unsubscribe, loop
  <1>4. part[p].pc # "off" => running
    BY Zenon, <1>1 DEF LoopOK
  <1>5. CASE SetupFails(p)
    <2>1. PartAt(p, "setup") /\ Go(p, "off")
      BY Zenon, <1>5 DEF SetupFails
    <2> QED
      BY Zenon, <1>3, <1>4, <2>1, MoveStep DEF PartAt
  <1>6. CASE Unsubscribe(p)
    <2>1. PartAt(p, "core") /\ Go(p, "off") /\ stop
      BY Zenon, <1>6 DEF Unsubscribe
    <2> QED
      BY Zenon, <1>3, <1>4, <2>1, MoveStep DEF PartAt
  <1>7. CASE FetchFails(p) \/ EndBatch(p)
    <2>1. part[p].pc \in {"fetch", "batch"} /\ Go(p, "release")
      BY Zenon, <1>7 DEF FetchFails, EndBatch, PartAt
    <2> QED
      BY Zenon, <1>3, <1>4, <2>1, MoveStep
  <1> QED
    BY Zenon, <1>5, <1>6, <1>7

\* The set-up of a part: a core part's callback is still to come.
LEMMA SetupStep ==
    ASSUME IInv, NEW p \in Parts, Setup(p)
    PROVE  IInv'
  <1> DEFINE pc == IF stop THEN "off"
                   ELSE CASE Mode[p] = "serial" -> "subscribe"
                          [] Mode[p] = "fetch" -> "acquire"
                          [] Mode[p] = "core" -> "core"
  <1>1. Types /\ LoopOK(p) /\ SlotsOK(p) /\ PartSignalOK(p) /\ SignalOK /\ Mode[p] \in {"serial", "fetch", "core"}
    BY Zenon, ConsumeAssumption DEF IInv
  <1>2. /\ part[p].pc = "setup" /\ Go(p, pc) /\ UNCHANGED <<running, runs, stop, signal, called, msg, faults>>
        /\ flush' = IF Mode[p] = "core" /\ ~stop THEN flush \cup {<<signal.run, p>>} ELSE flush
    BY Zenon DEF Setup, PartAt
  <1>3. /\ pc \in {"off", "setup", "subscribe", "serial", "fenced", "acquire", "fetch", "batch", "release", "core", "drain"}
        /\ (stop /\ pc = "off") \/ (~stop /\ Mode[p] = "serial" /\ pc = "subscribe")
              \/ (~stop /\ Mode[p] = "fetch" /\ pc = "acquire") \/ (~stop /\ Mode[p] = "core" /\ pc = "core")
    BY SMT, <1>1
  <1> HIDE DEF pc
  <1>4. PICK r \in PartType :
              /\ part' = [part EXCEPT ![p] = r] /\ part'[p] = r
              /\ r = [part[p] EXCEPT !.pc = pc] /\ r.pc = pc /\ r.sem = part[p].sem /\ r.want = part[p].want
              /\ r.got = part[p].got /\ r.leaving = part[p].leaving /\ r.pulled = part[p].pulled
    BY Zenon, <1>1, <1>2, <1>3, MovedPart
  <1>5. running /\ p \notin called /\ <<signal.run, p>> \notin flush
    BY SMT, <1>1, <1>2 DEF LoopOK, PartSignalOK
  <1>6. LoopOK(p)'
    BY SMT, <1>1, <1>2, <1>3, <1>4, <1>5 DEF LoopOK
  <1>7. Busy(p)' = Busy(p)
    BY Zenon, <1>2 DEF Busy
  <1>8. SlotsOK(p)'
    BY SMT, <1>1, <1>2, <1>3, <1>4, <1>7 DEF SlotsOK, Count
  <1>9. PartSignalOK(p)'
    <2>1. <<signal'.run, p>> \in flush' => Mode[p] = "core" /\ ~stop
      BY Zenon, <1>2, <1>5
    <2>2. Mode[p] = "core" /\ ~stop => pc = "core"
      BY SMT, <1>3
    <2> QED
      BY Zenon, <1>2, <1>4, <1>5, <2>1, <2>2 DEF PartSignalOK
  <1>10. signal.run \in 1 .. (2 * MaxRuns)
    BY SMT, <1>1, <1>5, ConsumeAssumption DEF SignalOK, Types
  <1>11. flush' \subseteq (1 .. (2 * MaxRuns)) \X Parts
    <2>1. <<signal.run, p>> \in (1 .. (2 * MaxRuns)) \X Parts
      BY Zenon, <1>10
    <2> QED
      BY Zenon, <1>1, <1>2, <2>1 DEF Types
  <1>12. \A q \in Parts : q # p => (<<signal.run, q>> \in flush' <=> <<signal.run, q>> \in flush)
    BY SMT, <1>2
  <1>13. \A run, q : <<run, q>> \in flush' => run <= signal'.run /\ (run = signal'.run => running')
    <2> SUFFICES ASSUME NEW run, NEW q, <<run, q>> \in flush' PROVE run <= signal'.run /\ (run = signal'.run => running')
      BY Zenon
    <2>1. CASE <<run, q>> \in flush
      BY Zenon, <1>1, <1>2, <2>1 DEF SignalOK
    <2>2. CASE <<run, q>> = <<signal.run, p>>
      BY SMT, <1>2, <1>5, <1>10, <2>2
    <2> QED
      BY Zenon, <1>2, <2>1, <2>2
  <1>14. SignalOK'
    BY Zenon, <1>1, <1>2, <1>13 DEF SignalOK
  <1>15. part[p].pc \notin {"subscribe", "serial", "fenced"} /\ part[p].pc \in {"off", "setup", "core"}
    BY SMT, <1>2
  <1>16. /\ signal' \in [run : Nat, left : Int, up : BOOLEAN] /\ signal'.run = signal.run /\ called' \subseteq called \cup {p}
         /\ faults' \in 0 .. MaxFaults /\ UNCHANGED <<running, runs, stop, msg>>
    BY Zenon, <1>1, <1>2 DEF Types
  <1> QED
    BY Zenon, <1>4, <1>6, <1>8, <1>9, <1>11, <1>12, <1>14, <1>15, <1>16, PartStep

\* The callback of a part that pulls: Subscribe, and the first Fetch.
LEMMA PullingStep ==
    ASSUME IInv, NEW p \in Parts, Subscribe(p) \/ Fetch(p)
    PROVE  IInv'
  <1> DEFINE pc == IF Subscribe(p) THEN "serial" ELSE "batch"
             r == [part[p] EXCEPT !.pc = pc, !.pulled = TRUE]
  <1>1. Types /\ LoopOK(p) /\ SlotsOK(p) /\ PartSignalOK(p) /\ part[p] \in PartType
    BY Zenon DEF IInv, Types
  <1>2. /\ (part[p].pc = "subscribe" /\ pc = "serial") \/ (part[p].pc = "fetch" /\ pc = "batch")
        /\ part' = [part EXCEPT ![p] = r]
    <2>1. CASE Subscribe(p)
      BY Zenon, <2>1 DEF Subscribe, PartAt
    <2>2. CASE Fetch(p) /\ ~Subscribe(p)
      BY Zenon, <2>2 DEF Fetch, PartAt
    <2> QED
      BY Zenon, <2>1, <2>2
  <1>3. /\ pc \in {"serial", "batch"} /\ part[p].pc \notin {"off", "setup", "core"} /\ running /\ Mode[p] # "core"
        /\ (Mode[p] = "serial" /\ pc = "serial") \/ (Mode[p] = "fetch" /\ pc = "batch")
    BY SMT, <1>1, <1>2 DEF LoopOK
  <1>4. UNCHANGED <<running, runs, stop, flush, msg, faults>>
    BY Zenon DEF Subscribe, Fetch, loop
  <1>5. Ready(p, signal.run) \/ UNCHANGED <<signal, called>>
    BY Zenon DEF Subscribe, Fetch, Pulling
  <1>6. /\ SignalOK' /\ signal' \in [run : Nat, left : Int, up : BOOLEAN]
        /\ signal'.run = signal.run /\ called' \subseteq called \cup {p}
    BY Zenon, <1>3, <1>4, <1>5, ReadyCounts, SignalKept
  <1> HIDE DEF pc
  <1>7. /\ r \in PartType /\ r.pc = pc /\ r.pulled = TRUE /\ r.sem = part[p].sem /\ r.want = part[p].want
        /\ r.got = part[p].got /\ r.leaving = part[p].leaving
    <2>1. pc \in {"off", "setup", "subscribe", "serial", "fenced", "acquire", "fetch", "batch", "release", "core", "drain"}
      BY Zenon, <1>3
    <2> QED
      BY Zenon, <1>1, <2>1 DEF PartType
  <1>8. part'[p] = r
    BY Zenon, <1>1, <1>2 DEF Types
  <1> HIDE DEF r
  <1>9. LoopOK(p)'
    BY SMT, <1>3, <1>4, <1>7, <1>8 DEF LoopOK
  <1>10. Busy(p)' = Busy(p)
    BY Zenon, <1>4 DEF Busy
  <1>11. SlotsOK(p)'
    BY SMT, <1>1, <1>2, <1>3, <1>7, <1>8, <1>10 DEF SlotsOK, Count
  <1>12. PartSignalOK(p)'
    BY SMT, <1>1, <1>3, <1>4, <1>6, <1>7, <1>8 DEF PartSignalOK, Pulls
  <1>13. /\ part[p].pc \in {"subscribe", "serial", "fenced"} => r.pc \in {"subscribe", "serial", "fenced"}
         /\ r.pc \notin {"off", "setup", "core"}
    BY SMT, <1>2, <1>7
  <1>14. /\ faults' \in 0 .. MaxFaults /\ flush' \subseteq (1 .. (2 * MaxRuns)) \X Parts
    BY Zenon, <1>1, <1>4 DEF Types
  <1> QED
    BY Zenon, <1>2, <1>4, <1>6, <1>7, <1>9, <1>11, <1>12, <1>13, <1>14, PartStep
----------------------------------------------------------------------------
\* Engine.Run and what is left to flush.

LEMMA InitHolds == Init => IInv
  <1> SUFFICES ASSUME Init PROVE IInv
    BY Zenon
  <1>1. part \in [Parts -> PartType] /\ Cap \in Nat /\ \A p \in Parts : part[p] = Off
    <2>1. Off \in PartType /\ Cap \in Nat
      BY SMT, ConsumeAssumption DEF Off, PartType
    <2> QED
      BY Zenon, <2>1 DEF Init
  <1>2. Types
    <2>1. signal \in [run : Nat, left : Int, up : BOOLEAN] /\ faults \in 0 .. MaxFaults /\ runs \in Nat
      BY SMT, ConsumeAssumption DEF Init
    <2>2. msg \in [Msgs -> {"queued", "held", "late", "busy", "done", "dead"}]
      BY Zenon DEF Init
    <2> QED
      BY Zenon, <1>1, <2>1, <2>2 DEF Init, Types
  <1>3. SignalOK
    BY SMT, ConsumeAssumption DEF Init, SignalOK
  <1>4. ASSUME NEW p \in Parts PROVE LoopOK(p) /\ SlotsOK(p) /\ PartSignalOK(p)
    <2>1. Busy(p) = {}
      BY SMT DEF Init, Busy
    <2>2. Count(p) = 0
      BY Zenon, <1>2, <2>1, BusyCount
    <2> QED
      BY SMT, <1>1, <2>2 DEF Init, LoopOK, SlotsOK, PartSignalOK, Off
  <1>5. ASSUME NEW m \in Msgs PROVE MsgOK(m)
    BY SMT DEF Init, MsgOK
  <1> QED
    BY Zenon, <1>2, <1>3, <1>4, <1>5 DEF IInv

LEMMA RunStep == IInv /\ Run => IInv'
  <1> SUFFICES ASSUME IInv, Run PROVE IInv'
    BY Zenon
  <1> DEFINE r == [Off EXCEPT !.pc = "setup"]
  <1>1. Types /\ SignalOK /\ Cap \in Nat /\ MaxRuns \in Nat /\ IsFiniteSet(Parts)
    BY Zenon, ConsumeAssumption DEF IInv
  <1>2. r \in PartType /\ r.pc = "setup" /\ r.sem = 0 /\ r.want = 0 /\ r.got = 0 /\ r.leaving = 0 /\ r.pulled = FALSE
    <2>1. Off \in PartType /\ Off.sem = 0 /\ Off.want = 0 /\ Off.got = 0 /\ Off.leaving = 0 /\ Off.pulled = FALSE
      BY SMT, <1>1 DEF Off, PartType
    <2> QED
      BY Zenon, <2>1 DEF PartType
  <1>3. /\ ~running /\ runs < MaxRuns /\ running' = TRUE /\ runs' = runs + 1 /\ stop' = FALSE /\ called' = {}
        /\ part' = [p \in Parts |-> r] /\ UNCHANGED <<flush, msg, faults>>
        /\ signal' = [run |-> signal.run + 1, left |-> Cardinality(Parts), up |-> Cardinality(Parts) = 0]
    BY Zenon DEF Run, Begin
  <1> HIDE DEF r
  <1>4. Cardinality(Parts) \in Nat /\ (Cardinality(Parts) = 0 <=> Parts = {}) /\ Cardinality({}) = 0
    BY Zenon, <1>1, FS_CardinalityType, FS_EmptySet
  <1>5. (Cardinality(Parts) = 0) \in BOOLEAN
    BY Zenon
  <1>6. /\ signal'.run = signal.run + 1 /\ signal'.left = Cardinality(Parts) /\ signal'.up = (Cardinality(Parts) = 0)
        /\ signal' \in [run : Nat, left : Int, up : BOOLEAN]
    <2>1. signal.run + 1 \in Nat /\ Cardinality(Parts) \in Int
      BY SMT, <1>1, <1>4 DEF Types
    <2> QED
      BY Zenon, <1>3, <1>5, <2>1
  <1>7. runs' \in Nat /\ runs' <= MaxRuns /\ runs' > 0 /\ signal'.run = 2 * runs' - 1 /\ signal.run < signal'.run /\ signal.run \in Nat /\ signal'.run \in Nat
    BY SMT, <1>1, <1>3, <1>6 DEF SignalOK, Types
  <1>8. Types'
    BY Zenon, <1>1, <1>2, <1>3, <1>6, <1>7 DEF Types
  <1>9. \A run, p : <<run, p>> \in flush' => run < signal'.run
    <2> SUFFICES ASSUME NEW run, NEW p, <<run, p>> \in flush' PROVE run < signal'.run
      BY Zenon
    <2>1. run <= signal.run /\ run \in 1 .. (2 * MaxRuns)
      BY Zenon, <1>1, <1>3 DEF SignalOK, Types
    <2> QED
      <3>1. \A a \in 1 .. (2 * MaxRuns), b \in Nat, c \in Nat : a <= b /\ b < c => a < c
        BY SMT, <1>1
      <3> QED
        BY Zenon, <1>7, <2>1, <3>1
  <1>10. SignalOK'
    <2>1. \A run, p : <<run, p>> \in flush' => run <= signal'.run /\ (run = signal'.run => running')
      <3> SUFFICES ASSUME NEW run, NEW p, <<run, p>> \in flush' PROVE run <= signal'.run /\ (run = signal'.run => running')
        BY Zenon
      <3>1. run < signal'.run /\ run \in 1 .. (2 * MaxRuns)
        BY Zenon, <1>1, <1>3, <1>9 DEF Types
      <3> QED
        BY SMT, <1>1, <1>3, <1>7, <3>1
    <2>2. signal'.up => running' /\ called' = Parts
      BY Zenon, <1>3, <1>4, <1>6
    <2>3. signal'.left = Cardinality(Parts) - Cardinality(called')
      BY SMT, <1>3, <1>4, <1>6
    <2> QED
      BY SMT, <1>3, <1>7, <2>1, <2>2, <2>3 DEF SignalOK
  <1>11. \A m \in Msgs : msg'[m] \notin {"held", "busy"}
    <2> SUFFICES ASSUME NEW m \in Msgs PROVE msg[m] \notin {"held", "busy"}
      BY Zenon, <1>3
    <2>1. MsgOK(m) /\ Of[m] \in Parts
      BY Zenon, ConsumeAssumption DEF IInv
    <2>2. part[Of[m]].pc = "off"
      BY Zenon, <1>3, <2>1 DEF IInv, LoopOK
    <2> QED
      BY SMT, <2>1, <2>2 DEF MsgOK
  <1>12. ASSUME NEW p \in Parts PROVE LoopOK(p)' /\ SlotsOK(p)' /\ PartSignalOK(p)'
    <2>1. part'[p] = r
      BY Zenon, <1>3
    <2>2. LoopOK(p)'
      BY SMT, <1>2, <1>3, <2>1 DEF LoopOK
    <2>3. Busy(p)' = {}
      BY SMT, <1>11 DEF Busy
    <2>4. Count(p)' = 0
      BY Zenon, <2>3, <1>4 DEF Count
    <2>5. SlotsOK(p)'
      BY SMT, <1>2, <2>1, <2>4 DEF SlotsOK
    <2>6. <<signal'.run, p>> \notin flush'
      <3>1. ~(signal'.run < signal'.run)
        <4>1. \A a \in Nat : ~(a < a)
          BY SMT
        <4> QED
          BY Zenon, <1>7, <4>1
      <3> QED
        BY Zenon, <1>9, <3>1
    <2>7. PartSignalOK(p)'
      BY Zenon, <1>3, <2>6 DEF PartSignalOK
    <2> QED
      BY Zenon, <2>2, <2>5, <2>7
  <1>13. ASSUME NEW m \in Msgs PROVE MsgOK(m)'
    <2>1. MsgOK(m)
      BY Zenon DEF IInv
    <2> QED
      BY SMT, <1>3, <1>11, <2>1 DEF MsgOK
  <1> QED
    BY Zenon, <1>8, <1>10, <1>12, <1>13 DEF IInv
\* Messages that stay where they are, with the parts.
LEMMA MsgsKept ==
    ASSUME IInv, UNCHANGED <<part, msg>>
    PROVE  (\A m \in Msgs : MsgOK(m)') /\ \A p \in Parts : Busy(p)' = Busy(p)
  BY Zenon DEF IInv, MsgOK, Busy

LEMMA CancelStep == IInv /\ Cancel => IInv'
  <1> SUFFICES ASSUME IInv, Cancel PROVE IInv'
    BY Zenon
  <1>1. stop' = TRUE /\ UNCHANGED <<running, runs, signal, called, flush, part, msg, faults>>
    BY Zenon DEF Cancel
  <1>2. (\A m \in Msgs : MsgOK(m)') /\ \A p \in Parts : Busy(p)' = Busy(p)
    BY Zenon, <1>1, MsgsKept
  <1>3. Types'
    BY Zenon, <1>1 DEF IInv, Types
  <1>4. SignalOK'
    BY Zenon, <1>1 DEF IInv, SignalOK
  <1>5. ASSUME NEW p \in Parts PROVE LoopOK(p)' /\ SlotsOK(p)' /\ PartSignalOK(p)'
    <2>1. LoopOK(p) /\ SlotsOK(p) /\ PartSignalOK(p)
      BY Zenon DEF IInv
    <2>2. LoopOK(p)'
      BY Zenon, <1>1, <2>1 DEF LoopOK
    <2>3. SlotsOK(p)'
      BY Zenon, <1>1, <1>2, <2>1 DEF SlotsOK, Count
    <2>4. PartSignalOK(p)'
      BY Zenon, <1>1, <2>1 DEF PartSignalOK
    <2> QED
      BY Zenon, <2>2, <2>3, <2>4
  <1> QED
    BY Zenon, <1>2, <1>3, <1>4, <1>5 DEF IInv

LEMMA ReturnStep == IInv /\ Return => IInv'
  <1> SUFFICES ASSUME IInv, Return PROVE IInv'
    BY Zenon
  <1>1. /\ running /\ running' = FALSE /\ UNCHANGED <<runs, stop, called, flush, part, msg, faults>>
        /\ \A p \in Parts : part[p].pc = "off"
        /\ signal' = [signal EXCEPT !.run = @ + 1, !.up = FALSE]
    BY Zenon DEF Return, End, PartAt
  <1>2. (\A m \in Msgs : MsgOK(m)') /\ \A p \in Parts : Busy(p)' = Busy(p)
    BY Zenon, <1>1, MsgsKept
  <1>3. Types /\ SignalOK /\ MaxRuns \in Nat
    BY Zenon, ConsumeAssumption DEF IInv
  <1>4. /\ signal.run + 1 \in Nat /\ signal.run \in Nat
    BY SMT, <1>3 DEF Types
  <1>5. /\ signal' \in [run : Nat, left : Int, up : BOOLEAN] /\ signal'.run = signal.run + 1
        /\ signal'.left = signal.left /\ signal'.up = FALSE
    BY Zenon, <1>1, <1>3, <1>4 DEF Types
  <1>6. Types'
    BY Zenon, <1>1, <1>3, <1>5 DEF Types
  <1>7. \A run, p : <<run, p>> \in flush' => run < signal'.run /\ run <= signal'.run /\ run # signal'.run
    <2> SUFFICES ASSUME NEW run, NEW p, <<run, p>> \in flush PROVE run < signal'.run /\ run <= signal'.run /\ run # signal'.run
      BY Zenon, <1>1
    <2>1. run <= signal.run /\ run \in 1 .. (2 * MaxRuns)
      BY Zenon, <1>3 DEF SignalOK, Types
    <2>2. \A a \in 1 .. (2 * MaxRuns), b \in Nat : a <= b => a < b + 1 /\ a <= b + 1 /\ a # b + 1
      BY SMT, <1>3
    <2> QED
      BY ZenonT(60), <1>4, <1>5, <2>1, <2>2
  <1>8. signal'.run = 2 * runs'
    BY SMT, <1>1, <1>3, <1>5 DEF SignalOK
  <1>9. SignalOK'
    BY Zenon, <1>1, <1>3, <1>5, <1>7, <1>8 DEF SignalOK
  <1>10. ASSUME NEW p \in Parts PROVE LoopOK(p)' /\ SlotsOK(p)' /\ PartSignalOK(p)'
    <2>1. LoopOK(p) /\ SlotsOK(p) /\ PartSignalOK(p)
      BY Zenon DEF IInv
    <2>2. LoopOK(p)'
      BY Zenon, <1>1, <2>1 DEF LoopOK
    <2>3. SlotsOK(p)'
      BY Zenon, <1>1, <1>2, <2>1 DEF SlotsOK, Count
    <2>4. PartSignalOK(p)'
      BY Zenon, <1>1, <1>7, <2>1 DEF PartSignalOK
    <2> QED
      BY Zenon, <2>2, <2>3, <2>4
  <1> QED
    BY Zenon, <1>2, <1>6, <1>9, <1>10 DEF IInv

\* The callback of a core part comes late, or never.
LEMMA FlushStep ==
    ASSUME IInv, NEW p \in Parts, NEW run, Flushed(run, p) \/ FlushGivesUp(run, p)
    PROVE  IInv'
  <1>1. /\ <<run, p>> \in flush /\ flush' = flush \ {<<run, p>>} /\ UNCHANGED <<running, runs, stop, part, msg, faults>>
        /\ Ready(p, run) \/ UNCHANGED <<signal, called>>
    BY Zenon DEF Flushed, FlushGivesUp
  <1>2. Types /\ SignalOK /\ PartSignalOK(p) /\ LoopOK(p) /\ SlotsOK(p)
    BY Zenon DEF IInv
  <1>3. run = signal.run => running
    BY Zenon, <1>1, <1>2 DEF SignalOK
  <1>4. flush' \subseteq flush
    BY Zenon, <1>1
  <1>5. /\ SignalOK' /\ signal' \in [run : Nat, left : Int, up : BOOLEAN]
        /\ signal'.run = signal.run /\ called' \subseteq called \cup {p} /\ called' \subseteq Parts
    <2>1. CASE Ready(p, run)
      BY Zenon, <1>1, <1>3, <1>4, <2>1, ReadyCounts
    <2>2. CASE UNCHANGED <<signal, called>>
      BY Zenon, <1>1, <1>4, <2>2, SignalKept
    <2> QED
      BY Zenon, <1>1, <2>1, <2>2
  <1>6. (\A m \in Msgs : MsgOK(m)') /\ \A q \in Parts : Busy(q)' = Busy(q)
    BY Zenon, <1>1, MsgsKept
  <1>7. Types'
    BY Zenon, <1>1, <1>2, <1>4, <1>5 DEF Types
  <1>8. ASSUME NEW q \in Parts, q # p PROVE LoopOK(q)' /\ SlotsOK(q)' /\ PartSignalOK(q)'
    <2>1. <<signal.run, q>> # <<run, p>>
      BY SMT, <1>8
    <2>2. <<signal.run, q>> \in flush' <=> <<signal.run, q>> \in flush
      BY Zenon, <1>1, <2>1
    <2>3. q \in called' => q \in called
      BY Zenon, <1>5, <1>8
    <2> QED
      BY Zenon, <1>1, <1>5, <1>6, <2>2, <2>3, OthersKept
  <1>9. LoopOK(p)'
    BY Zenon, <1>1, <1>2 DEF LoopOK
  <1>10. SlotsOK(p)'
    BY Zenon, <1>1, <1>2, <1>6 DEF SlotsOK, Count
  <1>11. PartSignalOK(p)'
    <2>1. CASE run = signal.run
      <3>1. Mode[p] = "core" /\ (part[p].pc = "core" \/ (part[p].pc = "off" /\ stop))
        BY Zenon, <1>1, <1>2, <2>1 DEF PartSignalOK
      <3>2. <<signal'.run, p>> \notin flush'
        BY Zenon, <1>1, <1>5, <2>1
      <3>3. part'[p].pc # "setup"
        BY SMT, <1>1, <3>1
      <3> QED
        BY Zenon, <1>1, <3>1, <3>2, <3>3 DEF PartSignalOK, Pulls
    <2>2. CASE run # signal.run
      <3>1. UNCHANGED <<signal, called>>
        BY Zenon, <1>1, <2>2 DEF Ready
      <3> QED
        BY Zenon, <1>1, <1>2, <3>1 DEF PartSignalOK, Pulls
    <2> QED
      BY Zenon, <2>1, <2>2
  <1> QED
    BY Zenon, <1>5, <1>6, <1>7, <1>8, <1>9, <1>10, <1>11 DEF IInv
----------------------------------------------------------------------------
\* Messages: what happens to those of one part.

MsgStates == {"queued", "held", "late", "busy", "done", "dead"}

LEMMA MsgStep ==
    ASSUME IInv, NEW p \in Parts, UNCHANGED <<running, runs, stop, flush, signal, called>>, faults' \in 0 .. MaxFaults,
           part' \in [Parts -> PartType], \A q \in Parts : q # p => part'[q] = part[q],
           msg' \in [Msgs -> MsgStates], \A m \in Msgs : Of[m] # p => msg'[m] = msg[m],
           part'[p].pc = part[p].pc \/ (stop /\ part[p].pc = "fenced" /\ part'[p].pc = "drain"),
           part'[p].pulled = part[p].pulled, SlotsOK(p)',
           \A m \in Msgs : Of[m] = p => MsgOK(m)'
    PROVE  IInv'
  <1>1. /\ SignalOK' /\ signal' \in [run : Nat, left : Int, up : BOOLEAN]
        /\ signal'.run = signal.run /\ called' \subseteq Parts
    BY Zenon, SignalKept
  <1>2. Types'
    BY Zenon, <1>1 DEF IInv, Types, MsgStates
  <1>3. ASSUME NEW q \in Parts, q # p PROVE LoopOK(q)' /\ SlotsOK(q)' /\ PartSignalOK(q)'
    <2>1. Busy(q)' = Busy(q)
      BY Zenon, <1>3 DEF Busy
    <2> QED
      BY Zenon, <1>1, <1>3, <2>1, OthersKept
  <1>4. LoopOK(p) /\ PartSignalOK(p)
    BY Zenon DEF IInv
  <1>5. LoopOK(p)'
    BY SMT, <1>4 DEF LoopOK
  <1>6. PartSignalOK(p)'
    <2>1. /\ part[p].pc = "core" \/ part[p].pc = "off" => part'[p].pc = part[p].pc
          /\ part[p].pc # "setup" => part'[p].pc # "setup"
      BY SMT
    <2> QED
      BY Zenon, <1>4, <2>1 DEF PartSignalOK, Pulls
  <1>7. ASSUME NEW m \in Msgs PROVE MsgOK(m)'
    <2>1. CASE Of[m] # p
      <3>1. MsgOK(m) /\ Of[m] \in Parts
        BY Zenon, ConsumeAssumption DEF IInv
      <3> QED
        BY Zenon, <2>1, <3>1 DEF MsgOK
    <2> QED
      BY Zenon, <2>1
  <1> QED
    BY Zenon, <1>1, <1>2, <1>3, <1>5, <1>6, <1>7 DEF IInv

\* The client of a serial part.
LEMMA ClientSteps ==
    ASSUME IInv, NEW p \in Parts, NEW m \in Msgs, Receive(p, m) \/ Deliver(p, m)
    PROVE  IInv'
  <1>1. Types /\ LoopOK(p) /\ SlotsOK(p) /\ MsgOK(m)
    BY Zenon DEF IInv
  <1>2. /\ UNCHANGED <<running, runs, stop, flush, signal, called, part, faults>> /\ Of[m] = p
        /\ \/ msg[m] = "queued" /\ msg' = [msg EXCEPT ![m] = "held"] /\ Receive(p, m)
           \/ msg[m] \in {"held", "late"} /\ msg' = [msg EXCEPT ![m] = "queued"]
           \/ msg[m] = "held" /\ msg' = [msg EXCEPT ![m] = "busy"]
    BY SMT DEF Receive, Deliver, Waiting, loop
  <1>3. Mode[p] = "serial"
    BY SMT, <1>1, <1>2 DEF MsgOK, Receive
  <1>4. PICK to \in MsgStates :
          /\ msg' = [msg EXCEPT ![m] = to]
          /\ to = "held" => part[p].pc \in {"subscribe", "serial", "fenced"}
          /\ to = "busy" => msg[m] = "held"
          /\ to # "late"
    BY SMT, <1>2 DEF MsgStates, Receive
  <1>5. msg' \in [Msgs -> MsgStates] /\ msg'[m] = to /\ \A o \in Msgs : o # m => msg'[o] = msg[o]
    BY Zenon, <1>1, <1>4 DEF Types, MsgStates
  <1>6. SlotsOK(p)'
    <2>1. Mode[p] # "fetch"
      BY SMT, <1>3
    <2> QED
      BY Zenon, <1>1, <1>2, <2>1 DEF SlotsOK
  <1>7. ASSUME NEW o \in Msgs, Of[o] = p PROVE MsgOK(o)'
    <2>1. MsgOK(o)
      BY Zenon DEF IInv
    <2>2. CASE o # m
      BY Zenon, <1>2, <1>5, <2>1, <2>2 DEF MsgOK
    <2>3. CASE o = m
      BY SMT, <1>1, <1>2, <1>3, <1>4, <1>5, <2>3 DEF MsgOK
    <2> QED
      BY Zenon, <2>2, <2>3
  <1>8. \A o \in Msgs : Of[o] # p => msg'[o] = msg[o]
    BY Zenon, <1>2, <1>5
  <1>9. /\ part' \in [Parts -> PartType] /\ faults' \in 0 .. MaxFaults
        /\ part'[p].pc = part[p].pc /\ part'[p].pulled = part[p].pulled /\ \A q \in Parts : q # p => part'[q] = part[q]
    BY Zenon, <1>1, <1>2 DEF Types
  <1> QED
    BY Zenon, <1>2, <1>5, <1>6, <1>7, <1>8, <1>9, MsgStep

LEMMA StopStep ==
    ASSUME IInv, NEW p \in Parts, StopSubscription(p)
    PROVE  IInv'
  <1>1. Types /\ LoopOK(p) /\ SlotsOK(p)
    BY Zenon DEF IInv
  <1>2. /\ UNCHANGED <<running, runs, stop, flush, signal, called, faults>> /\ part[p].pc = "fenced" /\ Go(p, "drain")
        /\ \E to \in {"queued", "late"} : msg' = [m \in Msgs |-> IF Of[m] = p /\ msg[m] = "held" THEN to ELSE msg[m]]
    BY Zenon DEF StopSubscription, loop, PartAt
  <1>3. PICK to \in {"queued", "late"} : msg' = [m \in Msgs |-> IF Of[m] = p /\ msg[m] = "held" THEN to ELSE msg[m]]
    BY Zenon, <1>2
  <1>4. PICK r \in PartType :
              /\ part' = [part EXCEPT ![p] = r] /\ part'[p] = r /\ r.pc = "drain" /\ r.sem = part[p].sem
              /\ r.want = part[p].want /\ r.got = part[p].got /\ r.leaving = part[p].leaving /\ r.pulled = part[p].pulled
    <2> DEFINE r == [part[p] EXCEPT !.pc = "drain"]
    <2>1. part[p] \in PartType
      BY Zenon, <1>1 DEF Types
    <2>2. r \in PartType /\ r.pc = "drain" /\ r.sem = part[p].sem /\ r.want = part[p].want /\ r.got = part[p].got
             /\ r.leaving = part[p].leaving /\ r.pulled = part[p].pulled
      BY Zenon, <2>1 DEF PartType
    <2>3. part' = [part EXCEPT ![p] = r] /\ part'[p] = r
      BY Zenon, <1>1, <1>2 DEF Types, Go
    <2> QED
      BY Zenon, <2>2, <2>3
  <1>5. stop /\ Mode[p] = "serial"
    BY Zenon, <1>1, <1>2 DEF LoopOK
  <1>6. SlotsOK(p)'
    BY SMT, <1>1, <1>2, <1>4, <1>5 DEF SlotsOK
  <1>7. msg' \in [Msgs -> MsgStates] /\ \A m \in Msgs : Of[m] # p => msg'[m] = msg[m]
    BY Zenon, <1>1, <1>3 DEF Types, MsgStates
  <1>8. ASSUME NEW m \in Msgs, Of[m] = p PROVE MsgOK(m)'
    <2>1. msg'[m] = IF msg[m] = "held" THEN to ELSE msg[m]
      BY Zenon, <1>3, <1>8
    <2>2. msg'[m] # "held"
      BY SMT, <1>3, <2>1
    <2>3. part'[Of[m]].pc = "drain" /\ Mode[Of[m]] = "serial"
      BY Zenon, <1>4, <1>5, <1>8
    <2> QED
      BY SMT, <2>2, <2>3 DEF MsgOK
  <1>9. /\ part' \in [Parts -> PartType] /\ \A q \in Parts : q # p => part'[q] = part[q]
    BY Zenon, <1>1, <1>4 DEF Types
  <1>10. faults' \in 0 .. MaxFaults
    BY Zenon, <1>1, <1>2 DEF Types
  <1> QED
    BY Zenon, <1>2, <1>4, <1>5, <1>6, <1>7, <1>8, <1>9, <1>10, MsgStep
\* A message of a batch goes to a handler: its slot was set aside.
LEMMA HandStep ==
    ASSUME IInv, NEW p \in Parts, NEW m \in Msgs, Hand(p, m)
    PROVE  IInv'
  <1> DEFINE r == [part[p] EXCEPT !.got = @ + 1]
  <1>1. Types /\ LoopOK(p) /\ SlotsOK(p) /\ part[p] \in PartType /\ Cap \in Nat
    BY Zenon, ConsumeAssumption DEF IInv, Types
  <1>2. /\ UNCHANGED <<running, runs, stop, flush, signal, called, faults>> /\ part[p].pc = "batch" /\ Of[m] = p
        /\ msg[m] = "queued" /\ msg' = [msg EXCEPT ![m] = "busy"] /\ part[p].got < part[p].want
        /\ part' = [part EXCEPT ![p] = r]
    BY Zenon DEF Hand, loop, PartAt
  <1>3. part[p].got + 1 \in 0 .. Cap
    BY SMT, <1>1, <1>2 DEF PartType
  <1>4. /\ r \in PartType /\ r.pc = part[p].pc /\ r.sem = part[p].sem /\ r.want = part[p].want /\ r.got = part[p].got + 1
        /\ r.leaving = part[p].leaving /\ r.pulled = part[p].pulled
    BY Zenon, <1>1, <1>3 DEF PartType
  <1>5. part' \in [Parts -> PartType] /\ part'[p] = r /\ \A q \in Parts : q # p => part'[q] = part[q]
    BY Zenon, <1>1, <1>2, <1>4 DEF Types
  <1> HIDE DEF r
  <1>6. msg[m] # "busy"
    BY SMT, <1>2
  <1>7. Count(p)' = Count(p) + 1 /\ Count(p) \in Nat
    BY Zenon, <1>1, <1>2, <1>6, BusyGains, BusyCount
  <1>8. Mode[p] = "fetch"
    BY Zenon, <1>1, <1>2 DEF LoopOK
  <1>9. SlotsOK(p)'
    BY SMT, <1>1, <1>2, <1>4, <1>5, <1>7, <1>8 DEF SlotsOK, PartType
  <1>10. msg' \in [Msgs -> MsgStates] /\ msg'[m] = "busy" /\ \A o \in Msgs : o # m => msg'[o] = msg[o]
    BY Zenon, <1>1, <1>2 DEF Types, MsgStates
  <1>11. ASSUME NEW o \in Msgs, Of[o] = p PROVE MsgOK(o)'
    <2>1. MsgOK(o) /\ part'[Of[o]].pc = part[Of[o]].pc /\ part'[Of[o]].pc = "batch"
      BY Zenon, <1>2, <1>4, <1>5, <1>11 DEF IInv
    <2>2. CASE o # m
      BY Zenon, <1>10, <2>1, <2>2 DEF MsgOK
    <2>3. CASE o = m
      BY SMT, <1>10, <2>1, <2>3 DEF MsgOK
    <2> QED
      BY Zenon, <2>2, <2>3
  <1>12. \A o \in Msgs : Of[o] # p => msg'[o] = msg[o]
    BY Zenon, <1>2, <1>10
  <1>13. faults' \in 0 .. MaxFaults /\ part'[p].pc = part[p].pc /\ part'[p].pulled = part[p].pulled
    BY Zenon, <1>1, <1>2, <1>4, <1>5 DEF Types
  <1> QED
    BY Zenon, <1>2, <1>5, <1>9, <1>10, <1>11, <1>12, <1>13, MsgStep

\* A handler ends: its message is counted out, its slot is still to free.
LEMMA HandlerStep ==
    ASSUME IInv, NEW m \in Msgs, GivesBack(m) \/ Starts(m) \/ Fails(m)
    PROVE  IInv'
  <1>1. PICK p \in Parts : p = Of[m]
    BY Zenon, ConsumeAssumption
  <1>2. Types /\ LoopOK(p) /\ SlotsOK(p) /\ part[p] \in PartType /\ Cap \in Nat /\ MsgOK(m) /\ MaxFaults \in Nat
    BY Zenon, ConsumeAssumption DEF IInv, Types
  <1>3. /\ UNCHANGED <<running, runs, stop, flush, signal, called>> /\ msg[m] = "busy" /\ HandlerEnds(m)
        /\ Fault \/ faults' = faults
    BY Zenon DEF GivesBack, Starts, Fails, loop
  <1>4. PICK to \in {"queued", "done", "dead"} : msg' = [msg EXCEPT ![m] = to]
    BY Zenon DEF GivesBack, Starts, Fails
  <1>5. faults' \in 0 .. MaxFaults
    BY SMT, <1>2, <1>3 DEF Types, Fault
  <1>6. to # "busy" /\ to # "held" /\ to # "late" /\ to \in MsgStates
    BY SMT DEF MsgStates
  <1>7. Count(p)' = Count(p) - 1 /\ Count(p) \in Nat
    BY Zenon, <1>1, <1>2, <1>3, <1>4, <1>6, BusyLoses, BusyCount
  <1>8. Count(p) > 0
    <2>1. m \in Busy(p)
      BY Zenon, <1>1, <1>3 DEF Busy
    <2>2. Count(p) # 0
      BY Zenon, <1>2, <2>1, BusyCount
    <2> QED
      BY SMT, <1>7, <2>2
  <1>9. /\ part' \in [Parts -> PartType] /\ \A q \in Parts : q # p => part'[q] = part[q]
        /\ part'[p].pc = part[p].pc /\ part'[p].pulled = part[p].pulled /\ SlotsOK(p)'
    <2>1. CASE Mode[p] = "fetch"
      <3> DEFINE r == [part[p] EXCEPT !.leaving = @ + 1]
      <3>1. part' = [part EXCEPT ![p] = r]
        BY Zenon, <1>1, <1>3, <2>1 DEF HandlerEnds
      <3>2. part[p].leaving + 1 \in 0 .. Cap
        BY SMT, <1>2, <1>7, <1>8, <2>1 DEF SlotsOK, PartType
      <3>3. /\ r \in PartType /\ r.pc = part[p].pc /\ r.sem = part[p].sem /\ r.want = part[p].want /\ r.got = part[p].got
            /\ r.leaving = part[p].leaving + 1 /\ r.pulled = part[p].pulled
        BY Zenon, <1>2, <3>2 DEF PartType
      <3>4. part' \in [Parts -> PartType] /\ part'[p] = r /\ \A q \in Parts : q # p => part'[q] = part[q]
        BY Zenon, <1>2, <3>1, <3>3 DEF Types
      <3> HIDE DEF r
      <3>5. part[p].pc \notin {"off", "setup", "core"}
        BY Zenon, <1>1, <1>2, <1>3 DEF MsgOK
      <3>6. SlotsOK(p)'
        BY SMT, <1>2, <1>7, <2>1, <3>3, <3>4, <3>5 DEF SlotsOK, PartType
      <3> QED
        BY Zenon, <3>3, <3>4, <3>6
    <2>2. CASE Mode[p] # "fetch"
      <3>1. part' = part
        BY Zenon, <1>1, <1>3, <2>2 DEF HandlerEnds
      <3> QED
        BY Zenon, <1>2, <2>2, <3>1 DEF Types, SlotsOK
    <2> QED
      BY Zenon, <2>1, <2>2
  <1>10. msg' \in [Msgs -> MsgStates] /\ msg'[m] = to /\ \A o \in Msgs : o # m => msg'[o] = msg[o]
    BY Zenon, <1>2, <1>4, <1>6 DEF Types, MsgStates
  <1>11. ASSUME NEW o \in Msgs, Of[o] = p PROVE MsgOK(o)'
    <2>1. MsgOK(o) /\ part'[Of[o]].pc = part[Of[o]].pc
      BY Zenon, <1>9, <1>11 DEF IInv
    <2>2. CASE o # m
      BY Zenon, <1>10, <2>1, <2>2 DEF MsgOK
    <2>3. CASE o = m
      BY SMT, <1>6, <1>10, <2>3 DEF MsgOK
    <2> QED
      BY Zenon, <2>2, <2>3
  <1>12. \A o \in Msgs : Of[o] # p => msg'[o] = msg[o]
    BY Zenon, <1>1, <1>10
  <1> QED
    BY Zenon, <1>3, <1>5, <1>9, <1>10, <1>11, <1>12, MsgStep
----------------------------------------------------------------------------
\* The invariant, and what follows from it.

LEMMA InvStep == IInv /\ [Next]_vars => IInv'
  <1> SUFFICES ASSUME IInv, [Next]_vars PROVE IInv'
    BY Zenon
  <1>1. CASE UNCHANGED vars
    <2>1. UNCHANGED <<running, runs, stop, signal, called, flush, part, msg, faults>>
      BY Zenon, <1>1 DEF vars
    <2>2. (\A m \in Msgs : MsgOK(m)') /\ \A p \in Parts : Busy(p)' = Busy(p)
      BY Zenon, <2>1, MsgsKept
    <2>3. SignalOK' /\ signal'.run = signal.run
      BY Zenon, <2>1, SignalKept
    <2>4. \A p \in Parts : LoopOK(p)' /\ SlotsOK(p)' /\ PartSignalOK(p)'
      BY Zenon, <2>1, <2>2, <2>3, OthersKept
    <2>5. Types'
      BY Zenon, <2>1 DEF IInv, Types
    <2> QED
      BY Zenon, <2>2, <2>3, <2>4, <2>5 DEF IInv
  <1>2. CASE Run \/ Cancel \/ Return
    BY Zenon, <1>2, RunStep, CancelStep, ReturnStep
  <1>3. ASSUME NEW p \in Parts, Step(p) \/ Leave(p) \/ Free(p) PROVE IInv'
    BY Zenon, <1>3, SetupStep, PullingStep, StopStep, EndSteps, LoopSteps DEF Step
  <1>4. ASSUME NEW p \in Parts, SetupFails(p) \/ FetchFails(p) PROVE IInv'
    BY Zenon, <1>4, EndSteps
  <1>5. ASSUME NEW p \in Parts, NEW m \in Msgs, Receive(p, m) \/ Deliver(p, m) \/ Hand(p, m) PROVE IInv'
    BY Zenon, <1>5, ClientSteps, HandStep
  <1>6. ASSUME NEW p \in Parts, NEW run \in 1 .. (2 * MaxRuns), Flushed(run, p) \/ FlushGivesUp(run, p) PROVE IInv'
    BY Zenon, <1>6, FlushStep
  <1>7. ASSUME NEW m \in Msgs, GivesBack(m) \/ Starts(m) \/ Fails(m) PROVE IInv'
    BY Zenon, <1>7, HandlerStep
  <1> QED
    BY Zenon, <1>1, <1>2, <1>3, <1>4, <1>5, <1>6, <1>7 DEF Next

LEMMA InvAlways == Spec => []IInv
  BY InitHolds, InvStep, PTL DEF Spec

\* The variables have their types; the semaphore of a part stays within its
\* capacity, whatever the parts and messages (consume.go fetchLoop).
THEOREM TypeCorrect == Spec => []TypeOK
  <1>1. IInv => TypeOK
    <2> SUFFICES ASSUME IInv PROVE TypeOK
      BY Zenon
    <2>1. Types /\ SignalOK /\ IsFiniteSet(Parts) /\ MaxRuns \in Nat
      BY Zenon, ConsumeAssumption DEF IInv
    <2>2. \A p \in Parts : part[p].sem \in 0 .. Cap /\ part[p].leaving \in 0 .. Cap
      BY Zenon, <2>1 DEF Types, PartType
    <2>3. runs \in 0 .. MaxRuns /\ signal.run \in 0 .. (2 * MaxRuns)
      BY SMT, <2>1 DEF SignalOK
    <2>4. Cardinality(called) \in Nat /\ Cardinality(Parts) \in Nat /\ Cardinality(called) <= Cardinality(Parts)
      <3>1. called \in SUBSET Parts
        BY Zenon, <2>1 DEF Types
      <3> QED
        BY Zenon, <2>1, <3>1, FS_Subset, FS_CardinalityType
    <2>5. signal.left \in 0 .. Cardinality(Parts)
      BY SMT, <2>1, <2>4 DEF SignalOK
    <2>6. signal \in [run : 0 .. (2 * MaxRuns), left : 0 .. Cardinality(Parts), up : BOOLEAN]
      BY Zenon, <2>1, <2>3, <2>5 DEF Types
    <2> QED
      BY Zenon, <2>1, <2>2, <2>3, <2>6 DEF Types, TypeOK
  <1> QED
    BY <1>1, InvAlways, PTL

\* The semaphore of a part counts the handlers, those that have yet to free
\* their slot and the slots set aside for a request, and nothing else
\* (consume.go fetchLoop, fetchBatch).
THEOREM SlotsAreHeld == Spec => []SlotsHeld
  <1>1. IInv => SlotsHeld
    BY Zenon DEF IInv, SlotsOK, SlotsHeld, Count
  <1> QED
    BY <1>1, InvAlways, PTL

\* Once Run has returned no handler runs and the client holds no message
\* (consume.go fence, drain).
THEOREM QuietOnReturn == Spec => []QuietAfterReturn
  <1>1. IInv => QuietAfterReturn
    <2> SUFFICES ASSUME IInv, ~running, NEW m \in Msgs PROVE msg[m] \notin {"held", "busy"}
      BY Zenon DEF QuietAfterReturn
    <2>1. MsgOK(m) /\ Of[m] \in Parts
      BY Zenon, ConsumeAssumption DEF IInv
    <2>2. part[Of[m]].pc = "off"
      BY Zenon, <2>1 DEF IInv, LoopOK
    <2> QED
      BY SMT, <2>1, <2>2 DEF MsgOK
  <1> QED
    BY <1>1, InvAlways, PTL

\* Readiness is announced only while every part of the run in progress pulls,
\* or the run has been told to stop (ready.go Begin, Signal).
THEOREM ReadinessIsTruthful == Spec => []ReadyTruthful
  <1>1. IInv => ReadyTruthful
    BY Zenon DEF IInv, SignalOK, PartSignalOK, Pulls, ReadyTruthful, PartAt
  <1> QED
    BY <1>1, InvAlways, PTL

=============================================================================
