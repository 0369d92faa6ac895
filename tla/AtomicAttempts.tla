---------------------------- MODULE AtomicAttempts ----------------------------
(***************************************************************************)
(* What the validation service promises of its attempts, said without      *)
(* threads, transactions or crashes: every operation takes place at once,  *)
(* on what the attempt shows then.  An attempt is decided once, by its     *)
(* evidence or by a suspension, and is history from then on; its evidence  *)
(* grows while it is open; only decided executions are repeated, and once. *)
(***************************************************************************)
CONSTANTS Attempts, Targets, TestOf, Runs, RunsFor, Checkpoints, Obligations,
          NoRun, NoAttempt

VARIABLE book  \* attempt -> what its tables say of it

Change(a, entry) == book' = [book EXCEPT ![a] = entry]

Select(a, target) ==
    /\ a \notin DOMAIN book
    /\ book' = [b \in DOMAIN book \cup {a} |->
                   IF b # a THEN book[b]
                   ELSE [outcome |-> "NONE", target |-> target, run |-> NoRun,
                         started |-> FALSE, source |-> NoAttempt, shown |-> << >>]]

\* An attempt that may still be given a run.
IsUnbound(a) ==
    /\ book[a].outcome = "NONE"
    /\ ~book[a].started
    /\ book[a].run = NoRun

Enter(a, run) ==
    /\ IsUnbound(a)
    /\ run \in RunsFor[book[a].target]
    /\ Change(a, [book[a] EXCEPT !.run = run])

\* A repeat is of a passed or failed execution of the same test that has no other.
Repeatable(a, source) ==
    /\ source \in DOMAIN book
    /\ book[source].outcome \in {"PASS", "FAIL"}
    /\ TestOf[book[source].target] = TestOf[book[a].target]
    /\ \A b \in DOMAIN book : book[b].source # source

Start(a, run, source) ==
    /\ IsUnbound(a)
    /\ run \in RunsFor[book[a].target]
    /\ source # NoAttempt => Repeatable(a, source)
    /\ Change(a, [book[a] EXCEPT !.run = run, !.started = TRUE, !.source = source])

\* A snapshot of a required checkpoint, the only one.
Show(a, c, seen) ==
    /\ book[a].outcome = "NONE" /\ book[a].started
    /\ c \in Obligations[book[a].target] \ DOMAIN book[a].shown
    /\ Change(a, [book[a] EXCEPT !.shown =
                     [d \in DOMAIN @ \cup {c} |-> IF d = c THEN seen ELSE @[d]]])

\* The verdict is about what is shown, and everything required is.
Decide(a) ==
    /\ book[a].outcome = "NONE" /\ book[a].started
    /\ Obligations[book[a].target] \subseteq DOMAIN book[a].shown
    /\ \E c \in DOMAIN book[a].shown :
           Change(a, [book[a] EXCEPT !.outcome =
                         IF book[a].shown[c] = "AGREES" THEN "PASS" ELSE "FAIL"])

\* An attempt that was entered meanwhile may lose its run; one that was started
\* keeps its execution and run.
Suspend(a) ==
    /\ book[a].outcome = "NONE"
    /\ \E run \in {book[a].run, NoRun} :
           /\ book[a].started => run = book[a].run
           /\ Change(a, [book[a] EXCEPT !.outcome = "SUSPENDED", !.run = run])

Init == book = << >>

Next ==
    \/ \E a \in Attempts, target \in Targets : Select(a, target)
    \/ \E a \in DOMAIN book :
           \/ \E run \in Runs : Enter(a, run)
           \/ \E run \in Runs, source \in Attempts \cup {NoAttempt} : Start(a, run, source)
           \/ \E c \in Checkpoints, seen \in {"AGREES", "DIFFERS"} : Show(a, c, seen)
           \/ Decide(a)
           \/ Suspend(a)

Spec == Init /\ [][Next]_book
=============================================================================
