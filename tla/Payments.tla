------------------------------ MODULE Payments ------------------------------
(***************************************************************************)
(* What a user has paid for: the signed events of the payment provider     *)
(* that razorpay_webhooks applies to the entitlement rows of one user, the *)
(* pilot rows an administrator inserts, and the evaluation of the newest   *)
(* row by entitlements.                                                    *)
(*                                                                         *)
(* A webhook runs in one transaction under READ COMMITTED: it looks the    *)
(* event up, inserts it and reads the newest provider row, and commits the *)
(* columns it changed.  Another server process may commit in between.      *)
(* Signatures, amounts and the metadata of a row are left out.             *)
(***************************************************************************)
EXTENDS Integers, Sequences

CONSTANTS
    Events,         \* provider_event_id of the events of this user
    Plan,           \* the plan of an event: PlanFeatures
    Brings,         \* the status an event brings to the row: "active" or a denial
    End,            \* current_end of the subscription of an event
    Lookups,        \* events that carry neither owner nor plan
    Servers,        \* server processes: each handles one webhook at a time
    PilotHours,     \* duration_hours of a pilot entitlement
    MaxOccurrences  \* bound: lost answers and deliveries, repeated deliveries, rows of
                    \* an administrator and passages of time, taken together

Denied == {"past_due", "cancelled", "expired"}

\* premium is the monthly bundle of live orders, static address and strategies.
Premium == "premium"
Paper == "paper"
Plans == {Premium, Paper}

\* A period ends on a whole second and an event arrives at a microsecond: the two
\* never coincide.  Ends are odd, the instants of the clock even.
Ends == {n \in Nat : n % 2 = 1}
Instants == {n \in Nat : n % 2 = 0}

ASSUME PaymentsAssumption ==
    /\ Plan \in [Events -> Plans] /\ Brings \in [Events -> Denied \cup {"active"}]
    /\ End \in [Events -> Ends] /\ Lookups \subseteq Events
    /\ PilotHours \in Nat /\ MaxOccurrences \in Nat

VARIABLES
    clock,      \* the time of the last thing that happened
    rows,       \* user_entitlements, in the order of their insertion
    events,     \* payment_events: "absent", "stored" or "applied" (processed)
    at,         \* where a server process is with its delivery
    job,        \* ... and what it holds
    acked,      \* events answered with 200: the provider stops sending them
    spent,      \* occurrences so far
    log         \* history: the events whose effect was committed, in order

vars == <<clock, rows, events, at, job, acked, spent, log>>

Columns == {"source", "codes", "status", "expires", "live", "paper", "updated"}
Row == [source : {"payment_provider", "trial", "manual_admin"}, codes : SUBSET Plans,
        status : Denied \cup {"active", "trialing", "revoked"}, expires : Nat,
        live : BOOLEAN, paper : BOOLEAN, updated : Nat]

\* What a server process holds: the event with the time it arrived, then the row read,
\* its place (0: a row is inserted) and the row to be made of it.
Nothing == [event |-> "none"]
Arrival == [event : Events, now : Nat]
Effect == [event : Events, now : Nat, place : Nat, old : Row, new : Row]

\* _merge_plan_codes: premium stands for every other code.
Merged(codes, p) == IF Premium \in codes \cup {p} THEN {Premium} ELSE codes \cup {p}

\* _latest_datetime
Latest(t, u) == IF u > t THEN u ELSE t

Newest(I) == CHOOSE i \in I : \A j \in I : rows[j].updated <= rows[i].updated
ProviderRows == {i \in DOMAIN rows : rows[i].source = "payment_provider"}

\* Mutant: a lasting purchase gets a lasting expiry.
UntilForever(e, now) == IF Plan[e] = Paper THEN now + PilotHours ELSE End[e]

\* expires_at of an activation.  A paper purchase is read off its flag and must
\* not raise the expiry the row shares with the monthly plan.
Until(e, now) == IF Plan[e] = Paper THEN now ELSE End[e]

\* _decide_entitlement_action: a period that has ended activates nothing.
Applies(e, now) == Brings[e] \in Denied \/ Plan[e] = Paper \/ End[e] > now

\* The rows inserted when the user has none of the provider.
First(e, now) ==
    [source |-> "payment_provider", codes |-> {Plan[e]}, status |-> Brings[e],
     expires |-> IF Brings[e] = "active" THEN Until(e, now) ELSE now,
     live |-> Brings[e] = "active" /\ Plan[e] = Premium,
     paper |-> Brings[e] = "active" /\ Plan[e] = Paper, updated |-> now]

\* _activate_entitlement: an existing row keeps what it grants.
Activated(r, e, now) ==
    [r EXCEPT !.status = "active", !.codes = Merged(@, Plan[e]), !.expires = Latest(@, Until(e, now)),
              !.live = @ \/ Plan[e] = Premium, !.paper = @ \/ Plan[e] = Paper, !.updated = now]

\* _revoke_entitlement: clear what this plan grants; a premium row is not revoked
\* by a plan it contains.
Kept(r, e) == Premium \in r.codes /\ Plan[e] # Premium

\* Mutant: the status alone denies, and a later purchase lifts it.
RevokedByStatus(r, e, now) ==
    IF Kept(r, e)
    THEN [r EXCEPT !.updated = now]
    ELSE [r EXCEPT !.status = Brings[e], !.codes = Merged(@, Plan[e]), !.updated = now]

Revoked(r, e, now) ==
    IF Kept(r, e)
    THEN [r EXCEPT !.updated = now]
    ELSE [r EXCEPT !.status = Brings[e], !.codes = Merged(@, Plan[e]), !.expires = now,
                   !.live = @ /\ Plan[e] # Premium, !.paper = @ /\ Plan[e] # Paper, !.updated = now]

Changed(r, e, now) == IF Brings[e] = "active" THEN Activated(r, e, now) ELSE Revoked(r, e, now)

\* Mutant: the whole row is written.
WrittenWhole(row, old, new) == new

\* The session writes the columns whose value it changed, over the row as it is now.
Written(row, old, new) == [c \in Columns |-> IF new[c] # old[c] THEN new[c] ELSE row[c]]

------------------------------------------------------------------------------
Init ==
    /\ clock = 0 /\ rows = <<>> /\ log = <<>> /\ acked = {}
    /\ events = [e \in Events |-> "absent"]
    /\ at = [s \in Servers |-> "idle"] /\ job = [s \in Servers |-> Nothing]
    /\ spent = 0

\* The provider sends an event until it is answered, one delivery after the other.
Outstanding(e) == e \notin acked /\ \A s \in Servers : at[s] # "idle" => job[s].event # e

Spend == spent < MaxOccurrences /\ spent' = spent + 1

\* Mutant: a server process keeps what it held.
GotoHolding(s, place, held) ==
    at' = [at EXCEPT ![s] = place] /\ job' = IF place = "idle" THEN job ELSE [job EXCEPT ![s] = held]

Goto(s, place, held) == at' = [at EXCEPT ![s] = place] /\ job' = [job EXCEPT ![s] = held]
Answer(s) == Goto(s, "idle", Nothing) /\ acked' = acked \cup {job[s].event}

\* A delivery arrives and looks for its event; _duplicate_result answers a known one.
Receive(s, e) ==
    /\ at[s] = "idle"
    /\ clock' = clock + 2
    /\ \/ /\ events[e] # "absent"
          /\ acked' = acked \cup {e}
          /\ UNCHANGED <<at, job>>
       \/ /\ events[e] = "absent"
          /\ Goto(s, "found none", [event |-> e, now |-> clock'])
          /\ UNCHANGED acked
    /\ UNCHANGED <<rows, events, log>>

Deliver(s, e) == Outstanding(e) /\ Receive(s, e) /\ UNCHANGED spent

\* The network repeats an event that is in flight or was answered.
Repeat(s, e) == ~Outstanding(e) /\ Receive(s, e) /\ Spend

\* Mutant: a delivery waits for every other that has looked for its event.
KeyFreeOfReaders(s) ==
    \A t \in Servers \ {s} : at[t] # "idle" => job[t].event # job[s].event

\* The unique key of payment_events: a second insert waits for the transaction of
\* the first, and fails when that one has committed.
KeyFree(s) ==
    \A t \in Servers : at[t] \in {"storing", "applying"} => job[t].event # job[s].event

\* Mutant: no unique key.
KeyUnchecked(e) == FALSE

KeyKnown(e) == events[e] # "absent"

\* The row the event changes: the newest of the provider, or a new one.
Prepared(e, now) ==
    IF ProviderRows = {}
    THEN [event |-> e, now |-> now, place |-> 0, old |-> First(e, now), new |-> First(e, now)]
    ELSE LET i == Newest(ProviderRows) IN
         [event |-> e, now |-> now, place |-> i, old |-> rows[i], new |-> Changed(rows[i], e, now)]

\* _process_with_session up to the commit.  An event without owner and plan is
\* resolved by asking the provider, and stored unapplied when that fails.
Insert(s) ==
    LET e == job[s].event  now == job[s].now IN
    /\ at[s] = "found none" /\ KeyFree(s)
    /\ \/ KeyKnown(e) /\ Answer(s)
       \/ /\ ~KeyKnown(e)
          /\ e \in Lookups \/ ~Applies(e, now)
          /\ Goto(s, "storing", job[s]) /\ UNCHANGED acked
       \/ /\ ~KeyKnown(e) /\ Applies(e, now)
          /\ Goto(s, "applying", Prepared(e, now)) /\ UNCHANGED acked
    /\ UNCHANGED <<clock, rows, events, spent, log>>

\* The commit of _process_with_session.  The process may die before it answers.
Commit(s) ==
    LET j == job[s] IN
    /\ \/ /\ at[s] = "storing"
          /\ events' = [events EXCEPT ![j.event] = "stored"]
          /\ UNCHANGED <<rows, log>>
       \/ /\ at[s] = "applying"
          /\ events' = [events EXCEPT ![j.event] = "applied"]
          /\ rows' = IF j.place = 0 THEN Append(rows, j.new)
                     ELSE [rows EXCEPT ![j.place] = Written(@, j.old, j.new)]
          /\ log' = Append(log, j.event)
    /\ \/ Answer(s) /\ UNCHANGED spent
       \/ Spend /\ Goto(s, "idle", Nothing) /\ UNCHANGED acked
    /\ UNCHANGED clock

\* A failing statement or a dying process: the transaction is rolled back.
Lose(s) ==
    /\ at[s] # "idle" /\ Spend
    /\ Goto(s, "idle", Nothing)
    /\ UNCHANGED <<clock, rows, events, acked, log>>

\* The administrator inserts a row that is newer than every other.
Pilot(source, status, until, on) ==
    /\ Spend
    /\ clock' = clock + 2
    /\ rows' = Append(rows, [source |-> source, codes |-> {}, status |-> status, expires |-> until,
                             live |-> on, paper |-> FALSE, updated |-> clock'])
    /\ UNCHANGED <<events, at, job, acked, log>>

\* grant_pilot_entitlement, revoke_pilot_entitlement
GrantPilot == Pilot("trial", "trialing", clock + 2 + PilotHours, TRUE)
RevokePilot == Pilot("manual_admin", "revoked", clock + 2, FALSE)

Tick ==
    /\ Spend
    /\ clock' = clock + 2
    /\ UNCHANGED <<rows, events, at, job, acked, log>>

Next ==
    \/ \E s \in Servers :
        \/ \E e \in Events : Deliver(s, e) \/ Repeat(s, e)
        \/ Insert(s) \/ Commit(s) \/ Lose(s)
    \/ GrantPilot \/ RevokePilot \/ Tick

Spec == Init /\ [][Next]_vars

\* The provider repeats what is not answered, and a server process works on.
FairSpec ==
    /\ Spec
    /\ \A e \in Events : WF_vars(\E s \in Servers : Deliver(s, e))
    /\ \A s \in Servers : WF_vars(Insert(s)) /\ WF_vars(Commit(s))

------------------------------------------------------------------------------
\* evaluate_entitlement of the row get_user_entitlement returns, for the bundle.
Standing(r) == r.live /\ r.status \in {"active", "trialing"} /\ r.expires > clock
Access == rows # <<>> /\ Standing(rows[Newest(DOMAIN rows)])

Committed == {log[i] : i \in DOMAIN log}
Bought(p) == {e \in Committed : Plan[e] = p /\ Brings[e] = "active"}
Ended(p) == {e \in Committed : Plan[e] = p /\ Brings[e] \in Denied}
OneProviderRow == \A i, j \in ProviderRows : i = j

\* What a server process holds fits where it is, and arrived in the past.
Held(s) ==
    /\ at[s] = "idle" => job[s] = Nothing
    /\ at[s] \in {"found none", "storing"} => job[s] \in Arrival
    /\ at[s] = "applying" => job[s] \in Effect /\ job[s].place \in 0 .. Len(rows)
    /\ at[s] # "idle" => job[s].now <= clock

\* Every variable has its type, and server processes hold what their place says.
TypeOK ==
    /\ clock \in Nat /\ rows \in Seq(Row) /\ log \in Seq(Events) /\ acked \subseteq Events
    /\ events \in [Events -> {"absent", "stored", "applied"}]
    /\ at \in [Servers -> {"idle", "found none", "storing", "applying"}]
    /\ job \in [Servers -> {Nothing} \cup Arrival \cup Effect]
    /\ \A s \in Servers : Held(s)
    /\ spent \in 0 .. MaxOccurrences

\* The effect of an event is committed at most once, and only with its record, however
\* often it is delivered and whichever process dies ("idempotent", uq_payment_event_provider_event).
AppliedOnce ==
    /\ \A i, j \in DOMAIN log : log[i] = log[j] => i = j
    /\ \A e \in Events : e \in Committed <=> events[e] = "applied"

\* The bundle is open only to a user with a committed activation whose period has not
\* ended, or with a pilot grant: no interleaving of purchases, revocations and lost
\* updates extends the shared expiry beyond what was paid.
AccessPaid ==
    Access => \/ \E e \in Bought(Premium) : End[e] > clock
              \/ rows[Newest(DOMAIN rows)].source = "trial"

\* While the provider has one row, a paper purchase survives every other change of
\* that row: a server that read the row before the purchase does not undo it.
PaperKept ==
    (OneProviderRow /\ Bought(Paper) # {} /\ Ended(Paper) = {}) => \A i \in ProviderRows : rows[i].paper

\* While the provider has one row, a revocation of the bundle that committed after every
\* activation closes it, whatever a concurrent delivery had read before.
RevocationHolds ==
    LET mine == {i \in DOMAIN log : Plan[log[i]] = Premium} IN
    (OneProviderRow /\ \E i \in mine : (\A k \in mine : k <= i) /\ Brings[log[i]] \in Denied)
        => \A i \in ProviderRows : ~Standing(rows[i])

\* Every event is answered in the end: no insert waits forever, and a delivery that was
\* lost is delivered again.
AllAnswered == <>(acked = Events)
=============================================================================
