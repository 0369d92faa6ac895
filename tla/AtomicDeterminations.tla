------------------------ MODULE AtomicDeterminations ------------------------
(***************************************************************************)
(* What the determination service promises of an attempt, said without     *)
(* threads, roles stored one by one, readings or crashes.  Its sources     *)
(* show at once, when they are frozen, and for good; findings are of what  *)
(* is shown, one per criterion; the verdict is about all findings there    *)
(* are, and closes them.  Being compared or suspended instead also decides *)
(* the attempt, but leaves its findings open.                              *)
(***************************************************************************)
CONSTANTS Attempts, Targets, Roles, Machine, Review

VARIABLE cases  \* attempt -> what the tables of determinations say of it

Shown == {"ABSENT", "AGREES", "DIFFERS", "UNREADABLE"}
Judgements == {"SATISFIED", "NOT_SATISFIED"}

Change(a, row) == cases' = [cases EXCEPT ![a] = row]

Select(a, target) ==
    /\ a \notin DOMAIN cases
    /\ cases' = [b \in DOMAIN cases \cup {a} |->
                    IF b # a THEN cases[b]
                    ELSE [outcome |-> "NONE", target |-> target, shown |-> << >>,
                          findings |-> {}]]

Frozen(a) == cases[a].shown # << >>

\* One set of sources for good, and no criterion shown by two of them.
Freeze(a, shown) ==
    /\ ~Frozen(a)
    /\ \A c \in Machine[cases[a].target] : \A r, s \in Roles[cases[a].target] :
           shown[r][c] # "ABSENT" /\ shown[s][c] # "ABSENT" => r = s
    /\ Change(a, [cases[a] EXCEPT !.shown = shown])

\* What the sources show of a criterion: something or nothing.
Showing(a, c) == {cases[a].shown[r][c] : r \in Roles[cases[a].target]} \ {"ABSENT"}

Finds(a, c, finding) ==
    /\ \A f \in cases[a].findings : f[1] # c
    /\ cases[a].outcome \notin {"PASS", "FAIL"}
    /\ Change(a, [cases[a] EXCEPT !.findings = @ \cup {<<c, finding>>}])

Compare(a, c) ==
    /\ Frozen(a)
    /\ c \in Machine[cases[a].target]
    /\ "UNREADABLE" \notin Showing(a, c)
    /\ Finds(a, c, IF Showing(a, c) = {} THEN "NOT_EVALUATED"
                   ELSE IF Showing(a, c) = {"AGREES"} THEN "SATISFIED"
                   ELSE "NOT_SATISFIED")

Conclude(a, c, judgement) ==
    /\ Frozen(a)
    /\ c \in Review[cases[a].target]
    /\ Finds(a, c, judgement)

\* The verdict on all findings there are; every criterion has one.
Determine(a) ==
    /\ Frozen(a)
    /\ cases[a].outcome = "NONE"
    /\ \A c \in Machine[cases[a].target] \cup Review[cases[a].target] :
           \E f \in cases[a].findings : f[1] = c /\ f[2] # "NOT_EVALUATED"
    /\ Change(a, [cases[a] EXCEPT !.outcome =
                     IF \E f \in cases[a].findings : f[2] = "NOT_SATISFIED"
                     THEN "FAIL" ELSE "PASS"])

\* The attempt is decided otherwise.
Forgo(a, outcome) ==
    /\ cases[a].outcome = "NONE"
    /\ Change(a, [cases[a] EXCEPT !.outcome = outcome])

Init == cases = << >>

Next ==
    \/ \E a \in Attempts, target \in Targets : Select(a, target)
    \/ \E a \in DOMAIN cases :
           \/ \E shown \in [Roles[cases[a].target] -> [Machine[cases[a].target] -> Shown]] :
                  Freeze(a, shown)
           \/ \E c \in Machine[cases[a].target] : Compare(a, c)
           \/ \E c \in Review[cases[a].target], judgement \in Judgements :
                  Conclude(a, c, judgement)
           \/ Determine(a)
           \/ \E outcome \in {"COMPARED", "SUSPENDED"} : Forgo(a, outcome)

Spec == Init /\ [][Next]_cases
=============================================================================
