------------------------------- MODULE MCFold -------------------------------
(***************************************************************************)
(* Small flows for model-checking Fold: each exercises one family of nodes.*)
(***************************************************************************)
EXTENDS Fold

\* A flow of plain nodes ns, to be overridden with EXCEPT.
Blank(ns) ==
    [type |-> [n \in ns |-> "task"], next |-> [n \in ns |-> None],
     onFailure |-> [n \in ns |-> None], onTimeout |-> [n \in ns |-> None],
     dynamic |-> [n \in ns |-> {}], rules |-> [n \in ns |-> {}], onErrorFail |-> {},
     branches |-> [n \in ns |-> <<>>], waitFor |-> [n \in ns |-> {}],
     kind |-> [n \in ns |-> "all"], count |-> [n \in ns |-> 0],
     signal |-> [n \in ns |-> CHOOSE s \in SignalNames : TRUE],
     timeout |-> {}, retry |-> [n \in ns |-> 0], maxParallel |-> [n \in ns |-> 0],
     subflow |-> {}, abandon |-> {},
     start |-> "a", maxSteps |-> 0, budget |-> [c \in Counters |-> 0]]

\* One flow whose first choice leads to one of several parts, so that one run
\* covers them: a task t (timeout, two attempts) with a choice loop and a handler;
\* a fan-out of a retried task, a subflow and a task under join any; a map of
\* items, two at a time, run by workers, and one run by subflows; two awaits.
WorkNodes == {"a", "t", "c", "h", "f", "x", "y", "z", "j", "m", "n", "w", "v"}
WorkFlow ==
    [Blank(WorkNodes) EXCEPT
        !.type["a"] = "choice", !.rules["a"] = {"t", "f", "m", "n", "w"},
        !.next["t"] = "c", !.onFailure["t"] = "h", !.dynamic["t"] = {"h"},
        !.type["c"] = "choice", !.rules["c"] = {"t", "end"}, !.onErrorFail = {"c"},
        !.type["f"] = "fanout", !.branches["f"] = <<"x", "y", "z">>, !.next["f"] = "j", !.type["j"] = "join",
        !.kind["j"] = "any", !.waitFor["j"] = {"x", "y"}, !.type["y"] = "subflow",
        !.type["m"] = "map", !.maxParallel["m"] = 2, !.onFailure["m"] = "h",
        !.type["n"] = "map", !.maxParallel["n"] = 2, !.onFailure["n"] = "h",
        !.type["w"] = "await", !.type["v"] = "await", !.next["w"] = "v", !.onTimeout["v"] = "h",
        !.subflow = {"y", "n"}, !.timeout = {"t", "w", "v"}, !.retry["t"] = 2, !.retry["x"] = 2,
        !.maxSteps = 5, !.budget = [c \in Counters |-> 1]]

\* Every kind of wait in one cycle, which only max_steps ends.
LoopNodes == {"a", "f", "x", "y", "j", "w", "m", "c", "s"}
LoopFlow ==
    [Blank(LoopNodes) EXCEPT
        !.type["f"] = "fanout", !.branches["f"] = <<"x", "y">>, !.next["f"] = "j", !.type["j"] = "join",
        !.kind["j"] = "min", !.count["j"] = 1, !.type["y"] = "subflow", !.subflow = {"y", "s"},
        !.next["a"] = "f", !.retry["a"] = 2, !.onFailure["a"] = "s", !.onFailure["j"] = "w", !.next["j"] = "w",
        !.type["w"] = "await", !.timeout = {"x", "w"}, !.next["w"] = "m", !.onTimeout["w"] = "m",
        !.type["m"] = "map", !.next["m"] = "c", !.onFailure["m"] = "c", !.maxParallel["m"] = 1,
        !.type["c"] = "choice", !.rules["c"] = {"a", "end"}, !.type["s"] = "subflow",
        !.maxSteps = 8]
=============================================================================
