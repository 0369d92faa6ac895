-------------------------- MODULE SupplyRestoration --------------------------
(***************************************************************************)
(* What the scenario coordinator promises, said without devices, telemetry *)
(* or assessments.  A run starts from normal supply; the protection trip   *)
(* takes supply away from the faulted section and never gives it back;     *)
(* until the fault is isolated supply only shrinks; afterwards it only     *)
(* grows, at most until the run is restored.  One run is open at a time,   *)
(* a run that is closed never changes, and a run is opened either when     *)
(* none is open or in the same step that closes the open one.              *)
(***************************************************************************)
EXTENDS Naturals

CONSTANTS RunIds, Sections

VARIABLES phase,     \* of each run
          faulted,   \* the section its fault is on
          supplied   \* the sections its network supplies

avars == <<phase, faulted, supplied>>

Phases == {"ABSENT", "NORMAL", "FAULTED", "ISOLATED", "RESTORED", "CLOSED"}
IsOpen(r) == phase[r] \in {"NORMAL", "FAULTED", "ISOLATED", "RESTORED"}

\* Run r becomes p, supplying s; its fault section does not change.
Becomes(r, p, s) ==
  /\ phase' = [phase EXCEPT ![r] = p]
  /\ supplied' = [supplied EXCEPT ![r] = s]
  /\ UNCHANGED faulted

Open(n) ==
  /\ \A r \in RunIds : ~ IsOpen(r)
  /\ phase[n] = "ABSENT"
  /\ \E s \in SUBSET Sections, f \in Sections :
       /\ phase' = [phase EXCEPT ![n] = "NORMAL"]
       /\ supplied' = [supplied EXCEPT ![n] = s]
       /\ faulted' = [faulted EXCEPT ![n] = f]

Replace(r, n) ==
  /\ IsOpen(r)
  /\ phase[n] = "ABSENT"
  /\ \E s \in SUBSET Sections, f \in Sections :
       /\ phase' = [phase EXCEPT ![r] = "CLOSED", ![n] = "NORMAL"]
       /\ supplied' = [supplied EXCEPT ![n] = s]
       /\ faulted' = [faulted EXCEPT ![n] = f]

Trip(r) ==
  /\ phase[r] = "NORMAL"
  /\ \E s \in SUBSET supplied[r] :
       /\ faulted[r] \notin s
       /\ Becomes(r, "FAULTED", s)

Sectionalise(r) ==
  /\ phase[r] = "FAULTED"
  /\ \E s \in SUBSET supplied[r], p \in {"FAULTED", "ISOLATED"} : Becomes(r, p, s)

Resupply(r) ==
  /\ phase[r] = "ISOLATED"
  /\ \E s \in SUBSET (Sections \ {faulted[r]}), p \in {"ISOLATED", "RESTORED"} :
       /\ supplied[r] \subseteq s
       /\ Becomes(r, p, s)

Init ==
  /\ phase = [r \in RunIds |-> "ABSENT"]
  /\ supplied = [r \in RunIds |-> {}]
  /\ faulted \in [RunIds -> Sections]

Next ==
  \E r \in RunIds :
    \/ Open(r)
    \/ \E n \in RunIds : Replace(r, n)
    \/ Trip(r)
    \/ Sectionalise(r)
    \/ Resupply(r)

Spec == Init /\ [][Next]_avars
=============================================================================
