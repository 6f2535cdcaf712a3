------------------------------- MODULE Licensing -------------------------------
(***************************************************************************)
(* The licence manager: the rows of the secure storage, the trial, the     *)
(* status that is cached in the process, and the calls of the licence      *)
(* server, during which other requests run.                                *)
(*                                                                         *)
(* Time counts half days.  Which features a plan has (gates.py) is left    *)
(* out; so are encryption and the machine's fingerprint, but for this: a   *)
(* key is encrypted to another text each time.                             *)
(***************************************************************************)
EXTENDS Integers, Sequences, SequencesExt

CONSTANTS
  Keys,
  TrialTime,    \* half days of a trial (_TRIAL_DAYS)
  Grace,        \* half days of the grace period (_GRACE_PERIOD_DAYS)
  MaxTime,      \* bound: the last half day
  MaxRows,      \* bound: rows of the table of licences
  MaxRestarts   \* bound

LicensingAssumption == {TrialTime, Grace, MaxTime, MaxRows, MaxRestarts} \subseteq Nat

VARIABLES
  now,
  rows,       \* licences: the key and the time of its last verification
  trial,      \* when it ends and whether it is active; -1 without one
  cached,     \* _status: "none", or the plan that was computed
  call,       \* the request that waits for the server, if any
  valid,      \* the keys the server takes for active
  restarts,
  last        \* what the last request returned, for the properties

vars == <<now, rows, trial, cached, call, valid, restarts, last>>

NoTrial == [ends |-> -1, active |-> FALSE]
NoCall  == [kind |-> "none"]
Said(k, r) == last' = [kind |-> k, result |-> r, at |-> now]

Init ==
  /\ now = 0 /\ rows = <<>> /\ trial = NoTrial /\ cached = "none" /\ call = NoCall
  /\ valid = Keys /\ restarts = 0 /\ last = [kind |-> "none", result |-> "none", at |-> 0]

\* _days_until, whole days: a moment has passed since the time that is read
DaysUntil(t) == IF t > now THEN (t - now - 1) \div 2 ELSE 0

\* get_license: some row, the first that was inserted
Licence == rows[1]

\* _compute_status; the grace period is computed and not used
PlanOf(rs, tr) == IF rs # <<>> THEN "pro" ELSE IF tr.active /\ DaysUntil(tr.ends) > 0 THEN "trial" ELSE "free"

\* end_trial, when the status finds it over
TrialAfter(rs, tr) == IF rs = <<>> /\ tr.active /\ DaysUntil(tr.ends) <= 0 THEN [tr EXCEPT !.active = FALSE] ELSE tr

Computed(rs, tr) == cached' = PlanOf(rs, tr) /\ trial' = TrialAfter(rs, tr)

---------------------------------------------------------------------------
Tick == now < MaxTime /\ now' = now + 1 /\ UNCHANGED <<rows, trial, cached, call, valid, restarts, last>>

\* The server no longer takes a key for active.
Revoke(k) == k \in valid /\ valid' = valid \ {k} /\ UNCHANGED <<now, rows, trial, cached, call, restarts, last>>

GetStatus ==
  /\ IF cached = "none" THEN Computed(rows, trial) ELSE UNCHANGED <<cached, trial>>
  /\ Said("status", IF cached = "none" THEN PlanOf(rows, trial) ELSE cached)
  /\ UNCHANGED <<now, rows, call, valid, restarts>>

StartTrial ==
  /\ IF trial.active /\ DaysUntil(trial.ends) > 0
       THEN Said("trial", "refused") /\ UNCHANGED <<trial, cached>>
       ELSE Computed(rows, [ends |-> now + TrialTime, active |-> TRUE]) /\ Said("trial", "started")
  /\ UNCHANGED <<now, rows, call, valid, restarts>>

\* A request reads what it needs and waits for the server.
Ask(kind, k) == call = NoCall /\ call' = [kind |-> kind, key |-> k, read |-> rows]
AskActivate(k) == Ask("activate", k) /\ UNCHANGED <<now, rows, trial, cached, valid, restarts, last>>
AskVerify ==
  /\ rows # <<>> /\ Ask("verify", Licence.key)
  /\ UNCHANGED <<now, rows, trial, cached, valid, restarts, last>>
AskDeactivate ==
  /\ rows # <<>> /\ Ask("deactivate", Licence.key)
  /\ UNCHANGED <<now, rows, trial, cached, valid, restarts, last>>

\* store_license: the encrypted key is new each time, so the row is new too
Activated ==
  /\ call.kind = "activate" /\ call.key \in valid /\ call' = NoCall /\ Len(rows) < MaxRows
  /\ LET rs == Append(rows, [key |-> call.key, verified |-> now])
     IN rows' = rs /\ Computed(rs, trial) /\ Said("activate", "activated")
  /\ UNCHANGED <<now, valid, restarts>>

\* update_verification misses the parameter of its statement and raises.
Verified ==
  /\ call.kind = "verify" /\ call.key \in valid /\ call' = NoCall /\ Said("verify", "raised")
  /\ UNCHANGED <<now, rows, trial, cached, valid, restarts>>

\* check_grace_period
InGrace(t) == now - t < Grace

\* The server says no, or cannot be reached.
NotVerified ==
  /\ call.kind = "verify" /\ call' = NoCall
  /\ IF InGrace(call.read[1].verified)
       THEN Said("verify", "grace") /\ UNCHANGED <<cached, trial>>
       ELSE Computed(rows, trial) /\ Said("verify", "failed")
  /\ UNCHANGED <<now, rows, valid, restarts>>

\* The server deactivates: every row is deleted.
Deactivated ==
  /\ call.kind = "deactivate" /\ call' = NoCall
  /\ rows' = <<>> /\ Computed(<<>>, trial) /\ Said("deactivate", "deactivated")
  /\ UNCHANGED <<now, valid, restarts>>

\* Activation or deactivation is refused, or the server cannot be reached.
Refused ==
  /\ call.kind \in {"activate", "deactivate"} /\ call' = NoCall /\ Said(call.kind, "refused")
  /\ UNCHANGED <<now, rows, trial, cached, valid, restarts>>

Restart ==
  /\ restarts < MaxRestarts /\ restarts' = restarts + 1 /\ cached' = "none" /\ call' = NoCall
  /\ UNCHANGED <<now, rows, trial, valid, last>>

Next ==
  \/ Tick \/ Restart \/ GetStatus \/ StartTrial \/ AskVerify \/ AskDeactivate
  \/ \E k \in Keys : Revoke(k) \/ AskActivate(k)
  \/ Activated \/ Verified \/ NotVerified \/ Deactivated \/ Refused

Spec == Init /\ [][Next]_vars

---------------------------------------------------------------------------
(* Properties.                                                             *)

\* The types of the state.
TypeOK ==
  /\ now \in 0..MaxTime /\ Len(rows) <= MaxRows /\ cached \in {"none", "free", "trial", "pro"} /\ valid \subseteq Keys
  /\ \A i \in DOMAIN rows : rows[i].key \in Keys /\ rows[i].verified \in 0..now
  /\ trial.ends \in -1..MaxTime + TrialTime /\ call.kind \in {"none", "activate", "verify", "deactivate"}

\* What is said to be a licence has a row, whatever was asked meanwhile.
ProHasRow == cached = "pro" <=> rows # <<>> /\ cached # "none"

\* A row is only added for a key the server takes at that moment.
RowsAreValid == [][\A i \in DOMAIN rows' : i > Len(rows) => rows'[i].key \in valid]_vars

\* After a deactivation the machine has no licence.
DeactivatedIsFree == [][last'.result = "deactivated" /\ last' # last => rows' = <<>> /\ cached' # "pro"]_vars

\* A verification is only refused when the last one is older than the grace period.
GraceIsGiven == [][last'.kind = "verify" /\ last'.result = "failed" /\ last' # last =>
                     now - call.read[1].verified >= Grace]_vars

\* A verification the server confirms is returned.
VerifiedIsTold == last.kind = "verify" => last.result # "raised"

\* A status of a trial is only said while it lasts.
TrialEnds == last.kind = "status" /\ last.result = "trial" => trial.ends > last.at

\* A trial lasts as long as it is sold for.
TrialLasts == last.kind = "status" /\ last.result = "free" /\ trial.ends > -1 => trial.ends <= last.at

\* After an activation its key is the one that is read.
ActivatedIsRead == \A i \in DOMAIN rows : i = Len(rows) => Licence.key = rows[i].key

\* When the grace period has passed without a verification there is no licence.
GraceEnds == last.kind = "status" /\ last.result = "pro" /\ rows # <<>> => last.at - Licence.verified < Grace \/ last.at = 0

=============================================================================
