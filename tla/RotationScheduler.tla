-------------------------- MODULE RotationScheduler --------------------------
(***************************************************************************)
(* The rotation of models in a live committee: the runner keeps a health   *)
(* record per model, refuses to trade when too many are bad, and a         *)
(* scheduler replaces bad models by others of the snapshot, at most Cap a  *)
(* day and no model twice within Cooldown.                                 *)
(*                                                                         *)
(* A check runs without an await, so it is one step: it goes through the   *)
(* health records in the order in which they were made.  Sharpe ratios and *)
(* hit rates are abstracted to whether they are below the thresholds.      *)
(***************************************************************************)
EXTENDS Naturals, Sequences, FiniteSets, SequencesExt

CONSTANTS
  Committee,   \* the models of the configuration, in the order they were loaded
  Snapshot,    \* the models of the snapshot, best first
  Cap,         \* max_rotations_per_24h
  Day,         \* 24 hours, in ticks of the check interval
  Cooldown,    \* 12 hours, in the same ticks
  MaxTime

Members == Range(Committee)
Names   == Members \cup Range(Snapshot)

RotationAssumption ==
  /\ Committee \in Seq(Members) /\ Snapshot \in Seq(Names)
  /\ Members \subseteq Range(Snapshot) /\ Cap \in Nat /\ Day \in Nat /\ Cooldown \in Nat /\ MaxTime \in Nat

VARIABLES
  now,
  models,    \* runner.models: the names that are loaded
  known,     \* the names with a health record, in the order of the records
  bad,       \* the names whose record has enough trades and is below a threshold
  blank,     \* of these, the ones whose displayed Sharpe is None
  stamps,    \* _rotation_timestamps
  cool       \* _rotation_cooldown_models

vars == <<now, models, known, bad, blank, stamps, cool>>

Init ==
  /\ now = 0 /\ models = Members /\ known = Committee /\ bad = {} /\ blank = {}
  /\ stamps = <<>> /\ cool = [m \in Names |-> 0]

---------------------------------------------------------------------------
(* The runner.                                                             *)

\* A model has traded badly; with equal outcomes its displayed Sharpe is None.
Decline(m, none) ==
  /\ m \in models \cap Range(known) /\ m \notin bad
  /\ bad' = bad \cup {m} /\ blank' = IF none THEN blank \cup {m} ELSE blank
  /\ UNCHANGED <<now, models, known, stamps, cool>>

Recover(m) ==
  /\ m \in bad \cap models /\ bad' = bad \ {m} /\ blank' = blank \ {m}
  /\ UNCHANGED <<now, models, known, stamps, cool>>

\* _check_health, with every record old enough to count: trade while fewer
\* than half of the records are bad.
Healthy == 2 * Cardinality(bad) < Len(known) \/ bad = {}

\* _blend_predictions: those of the configuration that are loaded vote.
Voters == models \cap Members

\* slip: the new model gets no record
RotateUnknown(w, old, new) == [w EXCEPT !.models = (@ \ {old}) \cup {new}, !.bad = @ \ {new}]

\* rotate_model: the old record stays, the new model has a fresh one.
Rotate(w, old, new) ==
  [w EXCEPT !.models = (@ \ {old}) \cup {new}, !.bad = @ \ {new},
            !.known = IF new \in Range(@) THEN @ ELSE Append(@, new)]

---------------------------------------------------------------------------
(* The scheduler.                                                          *)

\* recent_rotations_24h
Recent(s) == Cardinality({i \in DOMAIN s : s[i] + Day > now})

\* _should_rotate
ShouldRotate(w, m) == Recent(w.stamps) < Cap /\ now >= w.cool[m] /\ m \in w.bad

\* _find_replacement, among those not loaded when the check began: the best.
Candidates(m, loaded) == {r \in Range(Snapshot) : r # m /\ r \notin loaded}
FirstOf(C) == Snapshot[CHOOSE i \in DOMAIN Snapshot : Snapshot[i] \in C /\ \A j \in 1..(i - 1) : Snapshot[j] \notin C]

\* One record of the check: the rotation, its stamp and its cool-down.  The
\* message formats the Sharpe ratio, and None ends the whole check here.
CheckOne(loaded, m, w) ==
  LET c == Candidates(m, loaded)
      done == Rotate(w, m, FirstOf(c))
  IN IF w.failed \/ ~ShouldRotate(w, m) \/ c = {} \/ FirstOf(c) \in w.unreadable THEN w
     ELSE [done EXCEPT !.stamps = Append(@, now), !.cool[m] = now + Cooldown,
                       !.failed = m \in w.blank]

\* _check_and_rotate, over the summary taken first; snapshots may not load.
Check(unreadable) ==
  LET start == [models |-> models, known |-> known, bad |-> bad, blank |-> blank, stamps |-> stamps,
                cool |-> cool, failed |-> FALSE, unreadable |-> unreadable]
      after[i \in 0..Len(known)] == IF i = 0 THEN start ELSE CheckOne(models, known[i], after[i - 1])
      end == after[Len(known)]
  IN /\ models' = end.models /\ known' = end.known /\ bad' = end.bad /\ stamps' = end.stamps
     /\ cool' = end.cool /\ blank' = blank \cap end.bad

\* run: a check each interval.
Tick ==
  /\ now < MaxTime /\ now' = now + 1
  /\ \E unreadable \in SUBSET (Range(Snapshot) \ models) : Check(unreadable)

Next == Tick \/ \E m \in Names : Recover(m) \/ \E none \in BOOLEAN : Decline(m, none)

Spec == Init /\ [][Next]_vars

---------------------------------------------------------------------------
(* Properties.                                                             *)

\* The types of the state; what is loaded or bad has a record.
TypeOK ==
  /\ now \in 0..MaxTime /\ models \subseteq Names /\ models \subseteq Range(known)
  /\ bad \subseteq Range(known) /\ blank \subseteq bad
  /\ stamps \in Seq(0..MaxTime) /\ cool \in [Names -> 0..(MaxTime + Cooldown)]

\* No day sees more than Cap rotations.
RotationsCapped == \A i \in DOMAIN stamps : i > Cap => stamps[i] >= stamps[i - Cap] + Day

\* A model that was rotated out is not rotated out again within its cool-down.
CoolDownHeld == [][\A m \in Names : cool'[m] # cool[m] => cool[m] <= now]_vars

\* A rotation replaces one model by another: the committee keeps its size.
SizeKept == Cardinality(models) = Len(Committee)

\* The last model is not rotated out.
LastModelStays == Len(Committee) = 1 => models = Members

\* What was rotated in votes.
RotatedInVotes == models \subseteq Members

\* A committee none of whose models is bad trades.
HealthIsOfMembers == bad \cap models = {} => Healthy

=============================================================================
