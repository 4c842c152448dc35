--------------------------- MODULE PaymentsProofs ---------------------------
(* Proofs about Payments, for every number of events and server processes. *)
EXTENDS Payments, WellFoundedInduction, SequenceTheorems, TLAPS

\* The tables and the counters, with no row dated in the future ...
Tables ==
    /\ clock \in Nat /\ rows \in Seq(Row) /\ log \in Seq(Events) /\ acked \subseteq Events
    /\ events \in [Events -> {"absent", "stored", "applied"}]
    /\ spent \in 0 .. MaxOccurrences
    /\ \A i \in 1 .. Len(rows) : rows[i].updated <= clock

\* ... and what the server processes hold.
Holding ==
    /\ at \in [Servers -> {"idle", "found none", "storing", "applying"}]
    /\ job \in [Servers -> {Nothing} \cup Arrival \cup Effect]
    /\ \A s \in Servers : Held(s) /\ (at[s] = "applying" => job[s].new.updated <= clock)
Typed == Tables /\ Holding

(* A set of naturals has a smallest element. *)
LEMMA HasSmallest ==
    ASSUME NEW T \in SUBSET Nat, T # {}
    PROVE  \E m \in T : \A n \in T : m <= n
<1> DEFINE R == {ss \in Nat \X Nat : ss[1] < ss[2]}
<1>1. IsWellFoundedOn(R, Nat)
  BY NatLessThanWellFounded DEF OpToRel
<1>2. \A n \in Nat, m \in Nat : <<n, m>> \in R <=> n < m
  OBVIOUS
<1> HIDE DEF R
<1>3. PICK m \in T : \A n \in T : ~(<<n, m>> \in R)
  BY <1>1, WFMin
<1>4. ASSUME NEW n \in T PROVE m <= n
  <2>1. n \in Nat /\ m \in Nat
    OBVIOUS
  <2>2. ~(n < m)
    BY <2>1, <1>2, <1>3
  <2>3. QED
    BY <2>1, <2>2
<1>5. QED
  BY <1>4

(* The newest of some rows is one of them. *)
LEMMA NewestIsOne ==
    ASSUME Typed, NEW I \in SUBSET (1 .. Len(rows)), I # {}
    PROVE  Newest(I) \in I
<1> DEFINE T == {clock - rows[i].updated : i \in I}
<1>1. \A i \in I : rows[i].updated \in Nat /\ rows[i].updated <= clock
  <2> SUFFICES ASSUME NEW i \in I
               PROVE  rows[i].updated \in Nat /\ rows[i].updated <= clock
    OBVIOUS
  <2>1. rows \in Seq(Row) /\ i \in 1 .. Len(rows)
    BY DEF Typed, Tables, Holding
  <2>2. rows[i] \in Row
    BY <2>1, ElementOfSeq
  <2>3. QED
    BY <2>1, <2>2 DEF Typed, Tables, Row
<1>2. clock \in Nat
  BY DEF Typed, Tables, Holding
<1>now. T \in SUBSET Nat /\ T # {}
  <2>1. \A i \in I : clock - rows[i].updated \in Nat
    BY <1>1, <1>2
  <2>2. QED
    BY <2>1
<1>3. PICK m \in T : \A n \in T : m <= n
  BY <1>now, HasSmallest
<1>4. PICK i \in I : m = clock - rows[i].updated
  BY <1>3
<1>5. \A j \in I : clock - rows[i].updated <= clock - rows[j].updated
  BY <1>3, <1>4
<1>6. \A j \in I : rows[j].updated <= rows[i].updated
  <2> SUFFICES ASSUME NEW j \in I PROVE rows[j].updated <= rows[i].updated
    OBVIOUS
  <2>1. rows[i].updated \in Nat /\ rows[j].updated \in Nat
    BY <1>1
  <2>2. clock - rows[i].updated <= clock - rows[j].updated
    BY <1>5
  <2>3. QED
    BY <1>2, <2>1, <2>2
<1>7. QED
  BY <1>6 DEF Newest

(* A written row takes every column from the row or from what is written. *)
LEMMA WrittenTyped ==
    ASSUME NEW r \in Row, NEW o \in Row, NEW n \in Row
    PROVE  /\ Written(r, o, n) \in Row
           /\ Written(r, o, n).source = IF n.source # o.source THEN n.source ELSE r.source
           /\ Written(r, o, n).expires \in {n.expires, r.expires}
           /\ Written(r, o, n).updated \in {n.updated, r.updated}
  BY DEF Written, Row, Columns

(* Periods end at instants of their own. *)
LEMMA Ending == \A e \in Events : End[e] \in Ends /\ End[e] \in Nat
  BY PaymentsAssumption DEF Ends

LEMMA FirstTyped ==
    ASSUME NEW e \in Events, NEW now \in Nat
    PROVE  First(e, now) \in Row
  BY PaymentsAssumption, Ending DEF First, Row, Until, Plans, Denied, Premium, Paper

LEMMA ChangedTyped ==
    ASSUME NEW r \in Row, NEW e \in Events, NEW now \in Nat
    PROVE  /\ Changed(r, e, now) \in Row
           /\ Changed(r, e, now).updated = now
           /\ Changed(r, e, now).source = r.source
<1>1. Merged(r.codes, Plan[e]) \in SUBSET Plans
  BY PaymentsAssumption DEF Merged, Row, Plans
<1>2. Latest(r.expires, Until(e, now)) \in Nat
  BY Ending DEF Latest, Until, Row
<1>3. Activated(r, e, now) \in Row
  BY <1>1, <1>2 DEF Activated, Row
<1>4. Brings[e] \in Denied => Revoked(r, e, now) \in Row
  BY <1>1 DEF Revoked, Row
<1>5. Brings[e] \in Denied \cup {"active"}
  BY PaymentsAssumption
<1>6. /\ Activated(r, e, now).updated = now /\ Activated(r, e, now).source = r.source
      /\ Revoked(r, e, now).updated = now /\ Revoked(r, e, now).source = r.source
  BY DEF Activated, Revoked, Row
<1>7. QED
  BY <1>3, <1>4, <1>5, <1>6 DEF Changed, Denied
(* An effect is for the provider's newest row, or for a first one. *)
LEMMA PreparedTyped ==
    ASSUME Typed, NEW e \in Events, NEW now \in Nat
    PROVE  /\ Prepared(e, now) \in Effect
           /\ Prepared(e, now).event = e
           /\ Prepared(e, now).now = now
           /\ Prepared(e, now).place \in 0 .. Len(rows)
           /\ Prepared(e, now).new.updated = now
           /\ Prepared(e, now).new.source = "payment_provider"
           /\ Prepared(e, now).place = 0 => Prepared(e, now).new = First(e, now)
           /\ Prepared(e, now).place # 0 =>
                /\ Prepared(e, now).old = rows[Prepared(e, now).place]
                /\ Prepared(e, now).new = Changed(Prepared(e, now).old, e, now)
                /\ rows[Prepared(e, now).place].source = "payment_provider"
<1>1. rows \in Seq(Row) /\ Len(rows) \in Nat /\ DOMAIN rows = 1 .. Len(rows)
  BY LenProperties DEF Typed, Tables, Holding
<1>2. CASE ProviderRows = {}
  <2>1. First(e, now) \in Row /\ First(e, now).updated = now /\ First(e, now).source = "payment_provider"
    BY FirstTyped DEF First
  <2> DEFINE first == First(e, now)
  <2>2. Prepared(e, now) = [event |-> e, now |-> now, place |-> 0, old |-> first, new |-> first]
    BY <1>2 DEF Prepared
  <2> HIDE DEF first
  <2>3. first \in Row /\ first.updated = now /\ first.source = "payment_provider" /\ first = First(e, now)
    BY <2>1 DEF first
  <2>4. QED
    BY <1>1, <2>2, <2>3 DEF Effect
<1>3. CASE ProviderRows # {}
  <2> DEFINE i == Newest(ProviderRows)
             old == rows[i]
             new == Changed(old, e, now)
  <2>1. i \in ProviderRows
    BY <1>1, <1>3, NewestIsOne DEF ProviderRows
  <2>2. i \in 1 .. Len(rows) /\ old.source = "payment_provider"
    BY <2>1, <1>1 DEF ProviderRows
  <2>3. old \in Row
    BY <2>2, <1>1, ElementOfSeq
  <2>4. Prepared(e, now) = [event |-> e, now |-> now, place |-> i, old |-> old, new |-> new]
    BY <1>3 DEF Prepared
  <2> HIDE DEF i, old
  <2>5. new \in Row /\ new.updated = now /\ new.source = old.source
    BY <2>3, ChangedTyped
  <2>6. new = Changed(old, e, now) /\ old = rows[i]
    BY DEF old
  <2> HIDE DEF new
  <2>7. QED
    BY <1>1, <2>2, <2>3, <2>4, <2>5, <2>6 DEF Effect
<1>4. QED
  BY <1>2, <1>3
\* Time passes and rows are added, never the opposite.
Later == clock' \in Nat /\ clock <= clock' /\ Len(rows') \in Nat /\ Len(rows) <= Len(rows')

LEMMA StillHeld ==
    ASSUME Typed, Later, NEW t \in Servers
    PROVE  /\ at[t] # "idle" => job[t].now <= clock'
           /\ at[t] = "applying" => job[t].place \in 0 .. Len(rows') /\ job[t].new.updated <= clock'
<1>1. Holding /\ clock \in Nat /\ Len(rows) \in Nat
  BY LenProperties DEF Typed, Tables
<1>2. Held(t) /\ (at[t] = "applying" => job[t].new.updated <= clock)
  BY <1>1 DEF Holding
<1>3. at[t] # "idle" => job[t].now \in Nat
  BY <1>2, <1>1 DEF Held, Holding, Arrival, Effect
<1>4. at[t] = "applying" => job[t].new.updated \in Nat /\ job[t].place \in 0 .. Len(rows)
  BY <1>2, <1>1 DEF Held, Effect, Row
<1>5. at[t] # "idle" => job[t].now <= clock'
  <2> SUFFICES ASSUME at[t] # "idle" PROVE job[t].now <= clock'
    OBVIOUS
  <2>1. job[t].now \in Nat /\ job[t].now <= clock
    BY <1>2, <1>3 DEF Held
  <2>2. QED
    BY <1>1, <2>1 DEF Later
<1>6. at[t] = "applying" => job[t].place \in 0 .. Len(rows') /\ job[t].new.updated <= clock'
  BY <1>1, <1>2, <1>4 DEF Later
<1>7. QED
  BY <1>5, <1>6

LEMMA HoldingKept ==
    ASSUME Typed, Later, UNCHANGED <<at, job>>
    PROVE  Holding'
<1>1. at' \in [Servers -> {"idle", "found none", "storing", "applying"}]
      /\ job' \in [Servers -> {Nothing} \cup Arrival \cup Effect]
  BY DEF Typed, Holding
<1>2. ASSUME NEW t \in Servers
      PROVE  Held(t)' /\ (at'[t] = "applying" => job'[t].new.updated <= clock')
  <2>1. Held(t)
    BY DEF Typed, Holding
  <2>2. /\ at[t] # "idle" => job[t].now <= clock'
        /\ at[t] = "applying" => job[t].place \in 0 .. Len(rows') /\ job[t].new.updated <= clock'
    BY StillHeld
  <2>3. QED
    BY <2>1, <2>2 DEF Held
<1>3. QED
  BY <1>1, <1>2 DEF Holding

LEMMA HoldingGoto ==
    ASSUME Typed, Later, NEW s \in Servers, NEW place, NEW held, Goto(s, place, held),
           \/ place = "idle" /\ held = Nothing
           \/ place \in {"found none", "storing"} /\ held \in Arrival /\ held.now <= clock'
           \/ /\ place = "applying" /\ held \in Effect /\ held.now <= clock'
              /\ held.place \in 0 .. Len(rows') /\ held.new.updated <= clock'
    PROVE  Holding'
<1>1. at' \in [Servers -> {"idle", "found none", "storing", "applying"}]
      /\ job' \in [Servers -> {Nothing} \cup Arrival \cup Effect]
  BY DEF Typed, Holding, Goto
<1>2. ASSUME NEW t \in Servers
      PROVE  Held(t)' /\ (at'[t] = "applying" => job'[t].new.updated <= clock')
  <2>1. CASE t = s
    <3>1. at'[t] = place /\ job'[t] = held
      BY <2>1 DEF Goto, Typed, Holding
    <3>2. QED
      BY <3>1 DEF Held
  <2>2. CASE t # s
    <3>1. at'[t] = at[t] /\ job'[t] = job[t]
      BY <2>2 DEF Goto, Typed, Holding
    <3>2. Held(t)
      BY DEF Typed, Holding
    <3>3. /\ at[t] # "idle" => job[t].now <= clock'
          /\ at[t] = "applying" => job[t].place \in 0 .. Len(rows') /\ job[t].new.updated <= clock'
      BY StillHeld
    <3>4. QED
      BY <3>1, <3>2, <3>3 DEF Held
  <2>3. QED
    BY <2>1, <2>2
<1>3. QED
  BY <1>1, <1>2 DEF Holding

LEMMA SpentTyped ==
    ASSUME Typed, Spend \/ UNCHANGED spent
    PROVE  spent' \in 0 .. MaxOccurrences
<1>1. spent \in 0 .. MaxOccurrences /\ MaxOccurrences \in Nat
  BY PaymentsAssumption DEF Typed, Tables
<1>2. QED
  BY <1>1 DEF Spend

(* Rows that stay keep the tables dated when time passes. *)
LEMMA SameRows ==
    ASSUME Typed, clock' \in Nat, clock <= clock', UNCHANGED <<rows, events, log>>,
           Spend \/ UNCHANGED spent, acked' \subseteq Events
    PROVE  Tables' /\ Later
<1>1. Tables /\ Len(rows) \in Nat
  BY LenProperties DEF Typed, Tables
<1>2. spent' \in 0 .. MaxOccurrences
  BY SpentTyped
<1>3. \A i \in 1 .. Len(rows') : rows'[i].updated <= clock'
  <2> SUFFICES ASSUME NEW i \in 1 .. Len(rows) PROVE rows[i].updated <= clock'
    OBVIOUS
  <2>1. rows[i] \in Row
    BY <1>1, ElementOfSeq DEF Tables
  <2>2. QED
    BY <1>1, <2>1 DEF Tables, Row
<1>4. QED
  BY <1>1, <1>2, <1>3 DEF Tables, Later

LEMMA ReceiveTyped ==
    ASSUME Typed, NEW s \in Servers, NEW e \in Events, Receive(s, e), Spend \/ UNCHANGED spent
    PROVE  Typed'
<1>1. clock \in Nat /\ clock' = clock + 2 /\ acked \subseteq Events /\ UNCHANGED <<rows, events, log>>
  BY DEF Typed, Tables, Holding, Receive
<1>2. acked' \subseteq Events
  BY <1>1 DEF Receive
<1>3. Tables' /\ Later
  BY <1>1, <1>2, SameRows
<1>4. CASE UNCHANGED <<at, job>>
  BY <1>3, <1>4, HoldingKept DEF Typed
<1>5. CASE Goto(s, "found none", [event |-> e, now |-> clock'])
  <2>1. [event |-> e, now |-> clock'] \in Arrival
    BY <1>1 DEF Arrival
  <2> DEFINE held == [event |-> e, now |-> clock']
  <2>2. held.now = clock' /\ held \in Arrival /\ Goto(s, "found none", held)
    BY <1>5, <2>1
  <2>now. clock' \in Nat /\ clock' <= clock'
    BY <1>3 DEF Later
  <2> HIDE DEF held
  <2>3. Holding'
    BY <1>3, <2>2, <2>now, HoldingGoto
  <2>4. QED
    BY <1>3, <2>3 DEF Typed
<1>6. QED
  BY <1>4, <1>5 DEF Receive

LEMMA HeldEvent ==
    ASSUME Typed, NEW s \in Servers, at[s] # "idle"
    PROVE  job[s].event \in Events /\ job[s].now \in Nat /\ job[s].now <= clock
  BY DEF Typed, Tables, Holding, Held, Arrival, Effect

LEMMA InsertTyped ==
    ASSUME Typed, NEW s \in Servers, Insert(s)
    PROVE  Typed'
<1> DEFINE e == job[s].event
           now == job[s].now
<1>clock. clock \in Nat /\ clock' = clock
  BY DEF Typed, Tables, Insert
<1>1. acked \subseteq Events /\ at[s] = "found none" /\ UNCHANGED <<rows, events, spent, log>>
  BY DEF Typed, Tables, Holding, Insert
<1>2. e \in Events /\ now \in Nat /\ now <= clock
  BY <1>1, HeldEvent
<1>3. acked' \subseteq Events
  BY <1>1, <1>2 DEF Insert, Answer
<1>4. Tables' /\ Later
  <2>1. clock' \in Nat /\ clock <= clock'
    BY <1>clock
  <2>2. UNCHANGED spent
    BY <1>1
  <2>3. QED
    BY <1>1, <1>3, <2>1, <2>2, SameRows
<1>5. job[s] \in Arrival
  BY <1>1 DEF Typed, Tables, Holding, Held
<1>6. Goto(s, "idle", Nothing) \/ Goto(s, "storing", job[s]) \/ Goto(s, "applying", Prepared(e, now))
  BY DEF Insert, Answer
<1>7. CASE Goto(s, "idle", Nothing)
  BY <1>4, <1>7, HoldingGoto DEF Typed
<1>8. CASE Goto(s, "storing", job[s])
  BY <1>1, <1>2, <1>4, <1>5, <1>8, <1>clock, HoldingGoto DEF Typed
<1>9. CASE Goto(s, "applying", Prepared(e, now))
  <2> DEFINE held == Prepared(e, now)
  <2>1. held \in Effect /\ held.now = now /\ held.place \in 0 .. Len(rows) /\ held.new.updated = now
    BY <1>2, PreparedTyped
  <2> HIDE DEF held
  <2>2. Goto(s, "applying", held)
    BY <1>9 DEF held
  <2>3. held.now <= clock' /\ held.new.updated <= clock' /\ held.place \in 0 .. Len(rows')
    BY <1>1, <1>2, <2>1, <1>clock
  <2>4. Holding'
    BY <1>4, <2>1, <2>2, <2>3, HoldingGoto
  <2>5. QED
    BY <1>4, <2>4 DEF Typed
<1>10. QED
  BY <1>6, <1>7, <1>8, <1>9
LEMMA CommitTyped ==
    ASSUME Typed, NEW s \in Servers, Commit(s)
    PROVE  Typed'
<1> DEFINE j == job[s]
<1>1. /\ clock \in Nat /\ rows \in Seq(Row) /\ log \in Seq(Events) /\ acked \subseteq Events
      /\ events \in [Events -> {"absent", "stored", "applied"}] /\ clock' = clock
      /\ Len(rows) \in Nat
  BY LenProperties DEF Typed, Tables, Commit
<1>2. at[s] # "idle"
  BY DEF Commit
<1>3. j.event \in Events
  BY <1>2, HeldEvent
<1>4. acked' \subseteq Events /\ (Spend \/ UNCHANGED spent) /\ Goto(s, "idle", Nothing)
  BY <1>1, <1>3 DEF Commit, Answer
<1>5. spent' \in 0 .. MaxOccurrences
  BY <1>4, SpentTyped
<1>6. events' \in [Events -> {"absent", "stored", "applied"}]
  BY <1>1, <1>3 DEF Commit
<1>7. /\ rows' \in Seq(Row) /\ log' \in Seq(Events) /\ Len(rows') \in Nat /\ Len(rows) <= Len(rows')
      /\ \A i \in 1 .. Len(rows') : rows'[i].updated <= clock'
  <2>1. \A i \in 1 .. Len(rows) : rows[i].updated <= clock
    BY DEF Typed, Tables
  <2>2. CASE UNCHANGED <<rows, log>>
    BY <2>1, <2>2, <1>1
  <2>3. CASE at[s] = "applying"
    <3>1. j \in Effect /\ j.place \in 0 .. Len(rows) /\ j.new.updated <= clock
      BY <2>3 DEF Typed, Holding, Held
    <3>2. j.old \in Row /\ j.new \in Row
      BY <3>1 DEF Effect
    <3>3. log' = Append(log, j.event)
          /\ rows' = IF j.place = 0 THEN Append(rows, j.new)
                     ELSE [rows EXCEPT ![j.place] = Written(rows[j.place], j.old, j.new)]
      BY <2>3 DEF Commit
    <3>4. log' \in Seq(Events)
      BY <3>3, <1>1, <1>3, AppendProperties
    <3> HIDE DEF j
    <3>5. CASE j.place = 0
      <4>1. rows' = Append(rows, j.new)
        BY <3>3, <3>5
      <4>2. /\ rows' \in Seq(Row) /\ Len(rows') = Len(rows) + 1
            /\ \A i \in 1 .. Len(rows) : rows'[i] = rows[i]
            /\ rows'[Len(rows) + 1] = j.new
        BY <4>1, <1>1, <3>2, AppendProperties
      <4>3. \A i \in 1 .. Len(rows') : rows'[i].updated <= clock'
        BY <4>2, <2>1, <3>1, <1>1
      <4>4. QED
        BY <3>4, <4>2, <4>3, <1>1
    <3>6. CASE j.place # 0
      <4> DEFINE p == j.place
                 w == Written(rows[p], j.old, j.new)
      <4>1. p \in 1 .. Len(rows)
        BY <3>6, <3>1, <1>1
      <4>2. rows[p] \in Row
        BY <4>1, <1>1, ElementOfSeq
      <4>3. w \in Row /\ w.updated \in {j.new.updated, rows[p].updated}
        BY <4>2, <3>2, WrittenTyped
      <4>4. rows' = [rows EXCEPT ![p] = w]
        BY <3>3, <3>6
      <4>5. w.updated <= clock
        BY <4>1, <4>3, <2>1, <3>1
      <4> HIDE DEF p, w
      <4>6. /\ rows' \in Seq(Row) /\ Len(rows') = Len(rows)
            /\ \A i \in 1 .. Len(rows) : rows'[i] = IF i = p THEN w ELSE rows[i]
        BY <4>1, <4>3, <4>4, <1>1, ExceptSeq
      <4>7. QED
        BY <3>4, <4>5, <4>6, <2>1, <1>1
    <3>7. QED
      BY <3>5, <3>6
  <2>4. QED
    BY <2>2, <2>3 DEF Commit
<1>8. Tables' /\ Later
  BY <1>1, <1>4, <1>5, <1>6, <1>7 DEF Tables, Later
<1>9. Holding'
  BY <1>4, <1>8, HoldingGoto
<1>10. QED
  BY <1>8, <1>9 DEF Typed

LEMMA LoseTyped ==
    ASSUME Typed, NEW s \in Servers, Lose(s)
    PROVE  Typed'
<1>1. clock \in Nat /\ acked \subseteq Events
  BY DEF Typed, Tables
<1>2. clock' = clock /\ acked' = acked /\ UNCHANGED <<rows, events, log>> /\ Spend /\ Goto(s, "idle", Nothing)
  BY DEF Lose
<1>3. clock' \in Nat /\ clock <= clock'
  BY <1>1, <1>2
<1>4. Tables' /\ Later
  BY <1>1, <1>2, <1>3, SameRows
<1>5. Holding'
  BY <1>2, <1>4, HoldingGoto
<1>6. QED
  BY <1>4, <1>5 DEF Typed

LEMMA TickTyped ==
    ASSUME Typed, Tick
    PROVE  Typed'
<1>1. clock \in Nat /\ acked \subseteq Events
  BY DEF Typed, Tables
<1>2. clock' = clock + 2 /\ acked' = acked /\ UNCHANGED <<rows, events, log>> /\ Spend /\ UNCHANGED <<at, job>>
  BY DEF Tick
<1>3. clock' \in Nat /\ clock <= clock'
  BY <1>1, <1>2
<1>4. Tables' /\ Later
  BY <1>1, <1>2, <1>3, SameRows
<1>5. Holding'
  BY <1>2, <1>4, HoldingKept
<1>6. QED
  BY <1>4, <1>5 DEF Typed

LEMMA PilotTyped ==
    ASSUME Typed, NEW source \in {"trial", "manual_admin"}, NEW status \in {"trialing", "revoked"},
           NEW until \in Nat, NEW on \in BOOLEAN, Pilot(source, status, until, on)
    PROVE  Typed'
<1> DEFINE r == [source |-> source, codes |-> {}, status |-> status, expires |-> until,
                 live |-> on, paper |-> FALSE, updated |-> clock']
<1>1. /\ clock \in Nat /\ rows \in Seq(Row) /\ Len(rows) \in Nat /\ clock' = clock + 2
      /\ rows' = Append(rows, r) /\ Spend /\ UNCHANGED <<events, at, job, acked, log>>
  BY LenProperties DEF Typed, Tables, Pilot
<1>2. r \in Row /\ r.updated = clock'
  BY <1>1 DEF Row
<1> HIDE DEF r
<1>3. /\ rows' \in Seq(Row) /\ Len(rows') = Len(rows) + 1
      /\ \A i \in 1 .. Len(rows) : rows'[i] = rows[i]
      /\ rows'[Len(rows) + 1] = r
  BY <1>1, <1>2, AppendProperties
<1>4. \A i \in 1 .. Len(rows') : rows'[i].updated <= clock'
  <2> SUFFICES ASSUME NEW i \in 1 .. Len(rows') PROVE rows'[i].updated <= clock'
    OBVIOUS
  <2>1. CASE i = Len(rows) + 1
    BY <2>1, <1>1, <1>2, <1>3
  <2>2. CASE i \in 1 .. Len(rows)
    <3>1. rows[i] \in Row /\ rows[i].updated <= clock
      BY <2>2, <1>1, ElementOfSeq DEF Typed, Tables
    <3>2. QED
      BY <2>2, <3>1, <1>1, <1>3 DEF Row
  <2>3. QED
    BY <2>1, <2>2, <1>1, <1>3
<1>5. spent' \in 0 .. MaxOccurrences
  BY <1>1, SpentTyped
<1>6. Tables'
  BY <1>1, <1>3, <1>4, <1>5 DEF Tables, Typed
<1>7. Later
  BY <1>1, <1>3 DEF Later
<1>8. Holding'
  BY <1>1, <1>7, HoldingKept
<1>9. QED
  BY <1>6, <1>8 DEF Typed
LEMMA InitTyped == Init => Typed
<1> SUFFICES ASSUME Init PROVE Typed
  OBVIOUS
<1>1. rows = <<>> /\ log = <<>> /\ clock = 0 /\ Len(rows) = 0
  BY DEF Init
<1>2. Tables
  BY <1>1, PaymentsAssumption DEF Init, Tables
<1>3. Holding
  BY DEF Init, Holding, Held
<1>4. QED
  BY <1>2, <1>3 DEF Typed

LEMMA TypeStep ==
    ASSUME Typed, [Next]_vars
    PROVE  Typed'
<1>1. CASE UNCHANGED vars
  BY <1>1 DEF vars, Typed, Tables, Holding, Held
<1>2. ASSUME NEW s \in Servers, NEW e \in Events, Deliver(s, e) \/ Repeat(s, e) PROVE Typed'
  BY <1>2, ReceiveTyped DEF Deliver, Repeat
<1>3. ASSUME NEW s \in Servers, Insert(s) \/ Commit(s) \/ Lose(s) PROVE Typed'
  BY <1>3, InsertTyped, CommitTyped, LoseTyped
<1>4. CASE GrantPilot
  <2>1. clock + 2 + PilotHours \in Nat
    BY PaymentsAssumption DEF Typed, Tables
  <2>2. QED
    BY <1>4, <2>1, PilotTyped DEF GrantPilot
<1>5. CASE RevokePilot
  <2>1. clock + 2 \in Nat
    BY DEF Typed, Tables
  <2>2. QED
    BY <1>5, <2>1, PilotTyped DEF RevokePilot
<1>6. CASE Tick
  BY <1>6, TickTyped
<1>7. QED
  BY <1>1, <1>2, <1>3, <1>4, <1>5, <1>6 DEF Next

LEMMA AlwaysTyped == Spec => []Typed
  BY InitTyped, TypeStep, PTL DEF Spec

(* The type invariant of Payments holds for every set of events and server *)
(* processes: what a webhook holds fits the place it has reached in        *)
(* _process_with_session.                                                  *)
THEOREM TypeCorrect == Spec => []TypeOK
<1>1. Typed => TypeOK
  BY DEF Typed, Tables, Holding, TypeOK
<1>2. QED
  BY <1>1, AlwaysTyped, PTL
------------------------------------------------------------------------------
\* A transaction that inserted an event is the only one, and the event is not committed.
Inserted(s) == at[s] \in {"storing", "applying"}
KeyHeld ==
    /\ \A s \in Servers : Inserted(s) => events[job[s].event] = "absent"
    /\ \A s, t \in Servers : Inserted(s) /\ Inserted(t) /\ s # t => job[s].event # job[t].event
OnceInv == AppliedOnce /\ KeyHeld

(* A step that commits nothing keeps the invariant if it inserts nothing. *)
LEMMA OnceGoto ==
    ASSUME Typed, OnceInv, NEW s \in Servers, NEW held, Goto(s, "idle", held) \/ Goto(s, "found none", held),
           UNCHANGED <<events, log>>
    PROVE  OnceInv'
<1>1. AppliedOnce'
  BY DEF OnceInv, AppliedOnce, Committed
<1>2. ASSUME NEW t \in Servers, Inserted(t)'
      PROVE  Inserted(t) /\ job'[t] = job[t]
  BY <1>2 DEF Goto, Inserted, Typed, Holding
<1>3. KeyHeld'
  BY <1>2 DEF OnceInv, KeyHeld
<1>4. QED
  BY <1>1, <1>3 DEF OnceInv

LEMMA OnceInsert ==
    ASSUME Typed, OnceInv, NEW s \in Servers, Insert(s)
    PROVE  OnceInv'
<1> DEFINE e == job[s].event
<1>1. at[s] = "found none" /\ UNCHANGED <<events, log>> /\ KeyFree(s)
  BY DEF Insert
<1>2. e \in Events /\ job[s].now \in Nat
  BY <1>1, HeldEvent
<1>3. CASE Answer(s)
  BY <1>1, <1>3, OnceGoto DEF Answer
<1>4. ASSUME NEW place, NEW held, Goto(s, place, held), held.event = e, ~KeyKnown(e)
      PROVE  OnceInv'
  <2>1. AppliedOnce'
    BY <1>1 DEF OnceInv, AppliedOnce, Committed
  <2>2. job'[s].event = e /\ events[e] = "absent"
    BY <1>4 DEF Goto, KeyKnown, Typed, Holding
  <2>3. ASSUME NEW t \in Servers, t # s
        PROVE  at'[t] = at[t] /\ job'[t] = job[t] /\ (Inserted(t) => job[t].event # e)
    BY <1>1, <1>4, <2>3 DEF Goto, KeyFree, Inserted, Typed, Holding
  <2>4. \A t \in Servers : Inserted(t)' => events'[job'[t].event] = "absent"
    <3> SUFFICES ASSUME NEW t \in Servers, Inserted(t)' PROVE events[job'[t].event] = "absent"
      BY <1>1
    <3>1. CASE t = s
      BY <3>1, <2>2
    <3>2. CASE t # s
      BY <3>2, <2>3 DEF OnceInv, KeyHeld, Inserted
    <3>3. QED
      BY <3>1, <3>2
  <2>5. \A t, u \in Servers : Inserted(t)' /\ Inserted(u)' /\ t # u => job'[t].event # job'[u].event
    <3> SUFFICES ASSUME NEW t \in Servers, NEW u \in Servers, Inserted(t)', Inserted(u)', t # u
                 PROVE  job'[t].event # job'[u].event
      OBVIOUS
    <3>1. CASE t = s
      BY <3>1, <2>2, <2>3 DEF Inserted
    <3>2. CASE u = s
      BY <3>2, <2>2, <2>3 DEF Inserted
    <3>3. CASE t # s /\ u # s
      BY <3>3, <2>3 DEF OnceInv, KeyHeld, Inserted
    <3>4. QED
      BY <3>1, <3>2, <3>3
  <2>6. QED
    BY <2>1, <2>4, <2>5 DEF OnceInv, KeyHeld
<1>5. Prepared(e, job[s].now).event = e
  BY <1>2, PreparedTyped
<1>6. QED
  BY <1>3, <1>4, <1>5 DEF Insert

LEMMA OnceCommit ==
    ASSUME Typed, OnceInv, NEW s \in Servers, Commit(s)
    PROVE  OnceInv'
<1> DEFINE e == job[s].event
<1>1. Inserted(s) /\ Goto(s, "idle", Nothing)
  BY DEF Commit, Answer, Inserted
<1>2. e \in Events /\ events[e] = "absent"
  BY <1>1, HeldEvent DEF Inserted, OnceInv, KeyHeld
<1>3. events \in [Events -> {"absent", "stored", "applied"}] /\ log \in Seq(Events)
      /\ Len(log) \in Nat /\ DOMAIN log = 1 .. Len(log)
  BY LenProperties DEF Typed, Tables
<1>4. ASSUME NEW t \in Servers, Inserted(t)'
      PROVE  t # s /\ Inserted(t) /\ job'[t] = job[t] /\ job[t].event # e /\ job[t].event \in Events
  <2>1. t # s /\ Inserted(t) /\ job'[t] = job[t]
    BY <1>1, <1>4 DEF Goto, Inserted, Typed, Holding
  <2>2. job[t].event # e
    BY <1>1, <2>1 DEF OnceInv, KeyHeld
  <2>3. job[t].event \in Events
    BY <2>1, HeldEvent DEF Inserted
  <2>4. QED
    BY <2>1, <2>2, <2>3
<1>5. \A f \in Events : f # e => events'[f] = events[f]
  BY <1>3 DEF Commit
<1>6. KeyHeld'
  BY <1>4, <1>5 DEF OnceInv, KeyHeld
<1>7. CASE at[s] = "storing"
  <2>1. UNCHANGED log /\ events' = [events EXCEPT ![e] = "stored"]
    BY <1>7 DEF Commit
  <2>2. AppliedOnce'
    BY <2>1, <1>2, <1>3 DEF OnceInv, AppliedOnce, Committed
  <2>3. QED
    BY <1>6, <2>2 DEF OnceInv
<1>8. CASE at[s] = "applying"
  <2>1. log' = Append(log, e) /\ events' = [events EXCEPT ![e] = "applied"]
    BY <1>8 DEF Commit
  <2>2. e \notin Committed
    BY <1>2 DEF OnceInv, AppliedOnce
  <2>3. /\ log' \in Seq(Events) /\ Len(log') = Len(log) + 1
        /\ \A i \in 1 .. Len(log) : log'[i] = log[i]
        /\ log'[Len(log) + 1] = e
    BY <2>1, <1>2, <1>3, AppendProperties
  <2>4. DOMAIN log' = 1 .. (Len(log) + 1)
    BY <2>3, LenProperties
  <2>5. Committed' = Committed \cup {e}
    BY <2>3, <2>4, <1>3 DEF Committed
  <2>6. \A i \in 1 .. Len(log) : log[i] # e
    BY <2>2, <1>3 DEF Committed
  <2>7. \A i, j \in DOMAIN log' : log'[i] = log'[j] => i = j
    <3>1. \A i, j \in 1 .. Len(log) : log[i] = log[j] => i = j
      BY <1>3 DEF OnceInv, AppliedOnce
    <3>2. QED
      BY <3>1, <2>3, <2>4, <2>6, <1>3
  <2>8. \A f \in Events : f \in Committed' <=> events'[f] = "applied"
    BY <2>1, <2>5, <1>2, <1>3 DEF OnceInv, AppliedOnce
  <2>9. QED
    BY <1>6, <2>7, <2>8 DEF OnceInv, AppliedOnce
<1>9. QED
  BY <1>7, <1>8 DEF Commit

LEMMA OnceStep ==
    ASSUME Typed, OnceInv, [Next]_vars
    PROVE  OnceInv'
<1>1. ASSUME UNCHANGED <<events, log, at, job>> PROVE OnceInv'
  BY <1>1 DEF OnceInv, AppliedOnce, Committed, KeyHeld, Inserted
<1>2. CASE UNCHANGED vars
  BY <1>1, <1>2 DEF vars
<1>3. ASSUME NEW s \in Servers, NEW e \in Events, Deliver(s, e) \/ Repeat(s, e) PROVE OnceInv'
  <2>1. /\ UNCHANGED <<events, log>>
        /\ UNCHANGED <<at, job>> \/ Goto(s, "found none", [event |-> e, now |-> clock'])
    BY <1>3 DEF Deliver, Repeat, Receive
  <2>2. QED
    BY <2>1, <1>1, OnceGoto
<1>4. ASSUME NEW s \in Servers, Insert(s) \/ Commit(s) PROVE OnceInv'
  BY <1>4, OnceInsert, OnceCommit
<1>5. ASSUME NEW s \in Servers, Lose(s) PROVE OnceInv'
  BY <1>5, OnceGoto DEF Lose
<1>6. CASE GrantPilot \/ RevokePilot \/ Tick
  BY <1>1, <1>6 DEF GrantPilot, RevokePilot, Pilot, Tick
<1>7. QED
  BY <1>2, <1>3, <1>4, <1>5, <1>6 DEF Next

(* The effect of a payment event is committed at most once, and only with   *)
(* its row in payment_events, for every number of deliveries, server       *)
(* processes and lost answers: uq_payment_event_provider_event is enough   *)
(* although the first lookup and the insert are two statements.            *)
THEOREM AppliedAtMostOnce == Spec => []AppliedOnce
<1>1. Init => OnceInv
  BY PaymentsAssumption DEF Init, OnceInv, AppliedOnce, Committed, KeyHeld, Inserted
<1>2. Typed /\ OnceInv /\ [Next]_vars => OnceInv'
  BY OnceStep
<1>3. OnceInv => AppliedOnce
  BY DEF OnceInv
<1>4. QED
  BY <1>1, <1>2, <1>3, AlwaysTyped, PTL DEF Spec
------------------------------------------------------------------------------
(* Access is paid for: the shared expiry of a row. *)

\* A time that has passed, or that lies in a period paid for.
Paid(t) == t <= clock \/ \E e \in Bought(Premium) : End[e] >= t

\* What the event of a delivery will have paid for when it commits.
Own(s, t) ==
    LET e == job[s].event IN Brings[e] = "active" /\ Plan[e] = Premium /\ End[e] >= t

RowPaid(r) == r.source # "trial" => Paid(r.expires)
EffectPaid(s) ==
    at[s] = "applying" =>
        /\ job[s].new.source = "payment_provider"
        /\ Paid(job[s].new.expires) \/ Own(s, job[s].new.expires)
        /\ job[s].place # 0 => /\ job[s].old.source = "payment_provider"
                               /\ rows[job[s].place].source = "payment_provider"
PaidInv ==
    /\ \A i \in 1 .. Len(rows) : RowPaid(rows[i])
    /\ \A s \in Servers : EffectPaid(s)

(* What is paid stays paid. *)
LEMMA StillPaid ==
    ASSUME Typed, clock' \in Nat, clock <= clock', Committed \subseteq Committed',
           NEW t \in Nat, Paid(t)
    PROVE  Paid(t)'
<1>1. clock \in Nat
  BY DEF Typed, Tables
<1>2. CASE t <= clock
  BY <1>1, <1>2 DEF Paid
<1>3. CASE \E e \in Bought(Premium) : End[e] >= t
  BY <1>3 DEF Paid, Bought
<1>4. QED
  BY <1>2, <1>3 DEF Paid

(* Rows and effects that a step leaves alone stay paid. *)
LEMMA RowKept ==
    ASSUME Typed, PaidInv, Later, Committed \subseteq Committed',
           NEW i \in 1 .. Len(rows), rows'[i] = rows[i]
    PROVE  RowPaid(rows[i])'
<1>1. rows[i] \in Row /\ clock' \in Nat /\ clock <= clock'
  BY ElementOfSeq DEF Typed, Tables, Later
<1>2. rows[i].expires \in Nat
  BY <1>1 DEF Row
<1>3. rows[i].source # "trial" => Paid(rows[i].expires)
  BY DEF PaidInv, RowPaid
<1>4. ASSUME NEW t \in Nat, Paid(t) PROVE Paid(t)'
  BY <1>1, <1>4, StillPaid
<1>5. rows'[i].expires = rows[i].expires /\ rows'[i].source = rows[i].source
  OBVIOUS
<1>6. QED
  BY <1>2, <1>3, <1>4, <1>5 DEF RowPaid, Paid

LEMMA EffectKept ==
    ASSUME Typed, PaidInv, Later, Committed \subseteq Committed',
           NEW s \in Servers, at'[s] = at[s], job'[s] = job[s],
           \A i \in 1 .. Len(rows) : rows[i].source = "payment_provider" => rows'[i].source = "payment_provider"
    PROVE  EffectPaid(s)'
<1> SUFFICES ASSUME at[s] = "applying" PROVE EffectPaid(s)'
  BY DEF EffectPaid
<1>1. /\ job[s] \in Effect /\ job[s].place \in 0 .. Len(rows)
      /\ Len(rows) \in Nat /\ clock' \in Nat /\ clock <= clock'
  BY LenProperties DEF Typed, Holding, Held, Tables, Later
<1>2. job[s].new.expires \in Nat
  BY <1>1 DEF Effect, Row
<1>3. /\ job[s].new.source = "payment_provider"
      /\ Paid(job[s].new.expires) \/ Own(s, job[s].new.expires)
      /\ job[s].place # 0 => /\ job[s].old.source = "payment_provider"
                             /\ rows[job[s].place].source = "payment_provider"
  BY DEF PaidInv, EffectPaid
<1>4. Paid(job[s].new.expires) => Paid(job[s].new.expires)'
  <2>1. ASSUME NEW t \in Nat, Paid(t) PROVE Paid(t)'
    BY <1>1, <2>1, StillPaid
  <2>2. job'[s].new.expires = job[s].new.expires
    OBVIOUS
  <2>3. QED
    BY <1>2, <2>1, <2>2 DEF Paid
<1>5. Own(s, job[s].new.expires) => Own(s, job[s].new.expires)'
  BY DEF Own
<1>6. job[s].place # 0 => rows'[job[s].place].source = "payment_provider"
  BY <1>1, <1>3
<1>7. QED
  BY <1>3, <1>4, <1>5, <1>6 DEF EffectPaid
LEMMA PaidSame ==
    ASSUME Typed, PaidInv, Later, UNCHANGED <<rows, log>>, NEW s \in Servers, NEW place, NEW held,
           \/ UNCHANGED <<at, job>>
           \/ Goto(s, place, held) /\ place # "applying"
           \/ Goto(s, place, held) /\ EffectPaid(s)'
    PROVE  PaidInv'
<1>1. Committed \subseteq Committed'
  BY DEF Committed
<1>2. ASSUME NEW i \in 1 .. Len(rows') PROVE RowPaid(rows[i])'
  BY <1>1, RowKept
<1>3. ASSUME NEW t \in Servers PROVE EffectPaid(t)'
  <2>1. CASE at'[t] = at[t] /\ job'[t] = job[t]
    BY <1>1, <2>1, EffectKept
  <2>2. CASE ~(at'[t] = at[t] /\ job'[t] = job[t])
    <3>1. t = s /\ Goto(s, place, held) /\ at'[s] = place
      BY <2>2 DEF Goto, Typed, Holding
    <3>2. CASE place # "applying"
      BY <3>1, <3>2 DEF EffectPaid
    <3>3. CASE EffectPaid(s)'
      BY <3>1, <3>3
    <3>4. QED
      BY <2>2, <3>1, <3>2, <3>3
  <2>3. QED
    BY <2>1, <2>2
<1>4. QED
  BY <1>2, <1>3 DEF PaidInv

(* The expiry an event brings to a paid row is paid, or paid by the event. *)
LEMMA ChangedPaid ==
    ASSUME Typed, NEW r \in Row, Paid(r.expires), NEW e \in Events, NEW now \in Nat, now <= clock
    PROVE  LET x == Changed(r, e, now).expires IN
           Paid(x) \/ (Brings[e] = "active" /\ Plan[e] = Premium /\ End[e] >= x)
<1>1. /\ clock \in Nat /\ r.expires \in Nat /\ End[e] \in Nat
      /\ Plan[e] \in {Premium, Paper} /\ Brings[e] \in Denied \cup {"active"}
  BY PaymentsAssumption, Ending DEF Typed, Tables, Row, Plans
<1>2. Paid(now)
  BY DEF Paid
<1>3. CASE Brings[e] = "active"
  <2>1. Changed(r, e, now).expires = Latest(r.expires, Until(e, now))
    BY <1>3 DEF Changed, Activated, Row
  <2>2. CASE Plan[e] = Paper
    <3>1. Changed(r, e, now).expires \in {r.expires, now}
      BY <2>1, <2>2 DEF Latest, Until
    <3>2. QED
      BY <3>1, <1>2
  <2>3. CASE Plan[e] = Premium
    <3>1. Changed(r, e, now).expires \in {r.expires, End[e]}
      BY <2>1, <2>3 DEF Latest, Until, Premium, Paper
    <3>2. CASE Changed(r, e, now).expires = r.expires
      BY <3>2
    <3>3. CASE Changed(r, e, now).expires = End[e]
      BY <3>3, <1>1, <1>3, <2>3
    <3>4. QED
      BY <3>1, <3>2, <3>3
  <2>4. QED
    BY <1>1, <2>2, <2>3
<1>4. CASE Brings[e] # "active"
  <2>1. Changed(r, e, now).expires \in {r.expires, now}
    BY <1>4 DEF Changed, Revoked, Row
  <2>2. QED
    BY <2>1, <1>2
<1>5. QED
  BY <1>3, <1>4

LEMMA FirstPaid ==
    ASSUME Typed, NEW e \in Events, NEW now \in Nat, now <= clock
    PROVE  LET x == First(e, now).expires IN
           Paid(x) \/ (Brings[e] = "active" /\ Plan[e] = Premium /\ End[e] >= x)
<1>1. End[e] \in Nat /\ Plan[e] \in {Premium, Paper}
  BY PaymentsAssumption, Ending DEF Plans
<1>2. Paid(now)
  BY DEF Paid
<1>3. \/ First(e, now).expires = now
      \/ Brings[e] = "active" /\ Plan[e] = Premium /\ First(e, now).expires = End[e]
  BY <1>1 DEF First, Until
<1>4. QED
  BY <1>1, <1>2, <1>3

LEMMA PaidInsert ==
    ASSUME Typed, PaidInv, NEW s \in Servers, Insert(s)
    PROVE  PaidInv'
<1> DEFINE e == job[s].event
           now == job[s].now
           p == Prepared(e, now)
<1>at. at[s] = "found none"
  BY DEF Insert
<1>1. UNCHANGED <<rows, log>> /\ clock' = clock
  BY DEF Insert
<1>2. e \in Events /\ now \in Nat /\ now <= clock
  BY <1>at, HeldEvent
<1>3. clock \in Nat /\ Len(rows) \in Nat /\ rows \in Seq(Row)
  BY LenProperties DEF Typed, Tables
<1>4. Later
  BY <1>1, <1>3 DEF Later
<1>5. Goto(s, "idle", Nothing) \/ Goto(s, "storing", job[s]) \/ Goto(s, "applying", p)
  BY DEF Insert, Answer
<1>6. ASSUME NEW place, NEW held, Goto(s, place, held), place # "applying" PROVE PaidInv'
  BY <1>1, <1>4, <1>6, PaidSame
<1>7. CASE Goto(s, "applying", p)
  <2>1. /\ p \in Effect /\ p.event = e /\ p.place \in 0 .. Len(rows)
        /\ p.new.source = "payment_provider"
        /\ p.place = 0 => p.new = First(e, now)
        /\ p.place # 0 => /\ p.old = rows[p.place]
                          /\ p.new = Changed(p.old, e, now)
                          /\ rows[p.place].source = "payment_provider"
    BY <1>2, PreparedTyped
  <2> HIDE DEF p
  <2>2. p.place # 0 => p.place \in 1 .. Len(rows)
    BY <2>1, <1>3
  <2>3. p.place # 0 => p.old \in Row /\ Paid(p.old.expires)
    BY <2>1, <2>2, <1>3, ElementOfSeq DEF PaidInv, RowPaid
  <2> HIDE DEF e, now
  <2>4. Paid(p.new.expires) \/ (Brings[e] = "active" /\ Plan[e] = Premium /\ End[e] >= p.new.expires)
    <3>1. CASE p.place = 0
      BY <3>1, <2>1, <1>2, FirstPaid
    <3>2. CASE p.place # 0
      BY <3>2, <2>1, <2>3, <1>2, ChangedPaid
    <3>3. QED
      BY <3>1, <3>2
  <2>5. at'[s] = "applying" /\ job'[s] = p
    BY <1>7 DEF Goto, Typed, Holding
  <2>6. Paid(p.new.expires) => Paid(job[s].new.expires)'
    BY <2>5, <1>1 DEF Paid, Bought, Committed
  <2>7. EffectPaid(s)'
    BY <2>1, <2>4, <2>5, <2>6, <1>1 DEF EffectPaid, Own
  <2>8. QED
    BY <1>1, <1>4, <1>7, <2>7, PaidSame
<1>8. QED
  BY <1>5, <1>6, <1>7
(* What is added to the rows is paid when the step is over. *)
LEMMA EffectsKept ==
    ASSUME Typed, PaidInv, Later, Committed \subseteq Committed', NEW s \in Servers,
           Goto(s, "idle", Nothing) \/ UNCHANGED <<at, job>>,
           \A i \in 1 .. Len(rows) : rows[i].source = "payment_provider" => rows'[i].source = "payment_provider"
    PROVE  \A t \in Servers : EffectPaid(t)'
<1> SUFFICES ASSUME NEW t \in Servers PROVE EffectPaid(t)'
  OBVIOUS
<1>1. CASE at'[t] = at[t] /\ job'[t] = job[t]
  BY <1>1, EffectKept
<1>2. CASE ~(at'[t] = at[t] /\ job'[t] = job[t])
  <2>1. at'[t] = "idle"
    BY <1>2 DEF Goto, Typed, Holding
  <2>2. QED
    BY <2>1 DEF EffectPaid
<1>3. QED
  BY <1>1, <1>2

LEMMA PaidCommit ==
    ASSUME Typed, PaidInv, NEW s \in Servers, Commit(s)
    PROVE  PaidInv'
<1> DEFINE j == job[s]
           e == j.event
<1>1. /\ clock \in Nat /\ rows \in Seq(Row) /\ Len(rows) \in Nat /\ log \in Seq(Events)
      /\ Len(log) \in Nat /\ DOMAIN log = 1 .. Len(log)
  BY LenProperties DEF Typed, Tables
<1>clock. clock' = clock /\ clock' \in Nat /\ clock <= clock'
  BY <1>1 DEF Commit
<1>2. Goto(s, "idle", Nothing)
  BY DEF Commit, Answer
<1>3. CASE at[s] = "storing"
  <2>1. UNCHANGED <<rows, log>>
    BY <1>3 DEF Commit
  <2>2. Later
    BY <2>1, <1>1, <1>clock DEF Later
  <2>3. QED
    BY <2>1, <2>2, <1>2, PaidSame
<1>4. CASE at[s] = "applying"
  <2>1. /\ j \in Effect /\ j.place \in 0 .. Len(rows)
        /\ j.new.source = "payment_provider"
        /\ Paid(j.new.expires) \/ (Brings[e] = "active" /\ Plan[e] = Premium /\ End[e] >= j.new.expires)
        /\ j.place # 0 => /\ j.old.source = "payment_provider"
                          /\ rows[j.place].source = "payment_provider"
    BY <1>4 DEF Typed, Holding, Held, PaidInv, EffectPaid, Own
  <2>2. j.old \in Row /\ j.new \in Row /\ e \in Events /\ j.new.expires \in Nat
    BY <2>1 DEF Effect, Row
  <2>3. log' = Append(log, e)
        /\ rows' = IF j.place = 0 THEN Append(rows, j.new)
                   ELSE [rows EXCEPT ![j.place] = Written(rows[j.place], j.old, j.new)]
    BY <1>4 DEF Commit
  <2> HIDE DEF j, e
  <2>4. /\ log' \in Seq(Events) /\ Len(log') = Len(log) + 1
        /\ \A i \in 1 .. Len(log) : log'[i] = log[i]
        /\ log'[Len(log) + 1] = e
    BY <2>2, <2>3, <1>1, AppendProperties
  <2>5. DOMAIN log' = 1 .. (Len(log) + 1)
    BY <2>4, LenProperties
  <2>6. Committed \subseteq Committed' /\ e \in Committed'
    BY <2>4, <2>5, <1>1 DEF Committed
  <2>7. ASSUME NEW t \in Nat, Paid(t) PROVE Paid(t)'
    BY <1>clock, <2>6, <2>7, StillPaid
  <2>8. \A t \in Nat : t = j.new.expires => Paid(t)'
    <3> SUFFICES ASSUME NEW t \in Nat, t = j.new.expires PROVE Paid(t)'
      OBVIOUS
    <3>1. CASE Paid(t)
      BY <3>1, <2>7
    <3>2. CASE Brings[e] = "active" /\ Plan[e] = Premium /\ End[e] >= t
      BY <3>2, <2>6 DEF Paid, Bought
    <3>3. QED
      BY <2>1, <3>1, <3>2
  <2>9. CASE j.place = 0
    <3>1. /\ Len(rows') = Len(rows) + 1
          /\ \A i \in 1 .. Len(rows) : rows'[i] = rows[i]
          /\ rows'[Len(rows) + 1] = j.new
      BY <2>2, <2>3, <2>9, <1>1, AppendProperties
    <3>2. Later
      BY <3>1, <1>1, <1>clock DEF Later
    <3>3. ASSUME NEW i \in 1 .. Len(rows') PROVE RowPaid(rows[i])'
      <4>1. CASE i \in 1 .. Len(rows)
        BY <4>1, <3>1, <3>2, <2>6, RowKept
      <4>2. CASE i = Len(rows) + 1
        BY <4>2, <3>1, <2>2, <2>8 DEF RowPaid, Paid
      <4>3. QED
        BY <4>1, <4>2, <3>1, <1>1
    <3>4. \A t \in Servers : EffectPaid(t)'
      BY <3>1, <3>2, <2>6, <1>2, EffectsKept
    <3>5. QED
      BY <3>3, <3>4 DEF PaidInv
  <2>10. CASE j.place # 0
    <3> DEFINE p == j.place
               w == Written(rows[p], j.old, j.new)
    <3>1. p \in 1 .. Len(rows)
      BY <2>10, <2>1, <1>1
    <3>row. rows[p] \in Row
      BY <3>1, <1>1, ElementOfSeq
    <3>2. rows[p] \in Row /\ rows[p].expires \in Nat
      BY <3>row DEF Row
    <3>3. /\ w \in Row /\ w.expires \in {j.new.expires, rows[p].expires}
          /\ w.source = "payment_provider"
      BY <3>2, <2>1, <2>2, <2>10, WrittenTyped
    <3>4. rows' = [rows EXCEPT ![p] = w]
      BY <2>3, <2>10
    <3> HIDE DEF p, w
    <3>5. /\ Len(rows') = Len(rows)
          /\ \A i \in 1 .. Len(rows) : rows'[i] = IF i = p THEN w ELSE rows[i]
      BY <3>1, <3>3, <3>4, <1>1, ExceptSeq
    <3>6. Later
      BY <3>5, <1>1, <1>clock DEF Later
    <3>7. Paid(rows[p].expires)
      BY <3>1, <2>1, <2>10 DEF PaidInv, RowPaid, p
    <3>8. \A t \in Nat : t = w.expires => Paid(t)'
      BY <3>2, <3>3, <3>7, <2>7, <2>8
    <3>9. ASSUME NEW i \in 1 .. Len(rows') PROVE RowPaid(rows[i])'
      <4>1. CASE i # p
        BY <4>1, <3>5, <3>6, <2>6, RowKept
      <4>2. CASE i = p
        <5>1. w.expires \in Nat /\ rows'[i] = w
          BY <4>2, <3>3, <3>5 DEF Row
        <5>2. QED
          BY <5>1, <3>8 DEF RowPaid, Paid
      <4>3. QED
        BY <4>1, <4>2
    <3>10. \A i \in 1 .. Len(rows) : rows[i].source = "payment_provider" => rows'[i].source = "payment_provider"
      BY <3>3, <3>5
    <3>11. \A t \in Servers : EffectPaid(t)'
      BY <3>6, <3>10, <2>6, <1>2, EffectsKept
    <3>12. QED
      BY <3>9, <3>11 DEF PaidInv
  <2>11. QED
    BY <2>9, <2>10
<1>5. QED
  BY <1>3, <1>4 DEF Commit

LEMMA PaidPilot ==
    ASSUME Typed, PaidInv, NEW source \in {"trial", "manual_admin"}, NEW status, NEW until, NEW on,
           source = "trial" \/ until = clock + 2, Pilot(source, status, until, on)
    PROVE  PaidInv'
<1> DEFINE r == [source |-> source, codes |-> {}, status |-> status, expires |-> until,
                 live |-> on, paper |-> FALSE, updated |-> clock']
<1>1. /\ clock \in Nat /\ rows \in Seq(Row) /\ Len(rows) \in Nat /\ clock' = clock + 2
      /\ rows' = Append(rows, r) /\ UNCHANGED <<at, job, log>>
  BY LenProperties DEF Typed, Tables, Pilot
<1>2. r.source = source /\ r.expires = until
  OBVIOUS
<1> HIDE DEF r
<1>3. /\ Len(rows') = Len(rows) + 1
      /\ \A i \in 1 .. Len(rows) : rows'[i] = rows[i]
      /\ rows'[Len(rows) + 1] = r
  BY <1>1
<1>4. Later /\ Committed \subseteq Committed'
  BY <1>1, <1>3 DEF Later, Committed
<1>5. ASSUME NEW i \in 1 .. Len(rows') PROVE RowPaid(rows[i])'
  <2>1. CASE i \in 1 .. Len(rows)
    BY <2>1, <1>3, <1>4, RowKept
  <2>2. CASE i = Len(rows) + 1
    <3>1. source = "trial" \/ until <= clock'
      BY <1>1
    <3>2. QED
      BY <2>2, <3>1, <1>2, <1>3 DEF RowPaid, Paid
  <2>3. QED
    BY <2>1, <2>2, <1>1, <1>3
<1>6. ASSUME NEW t \in Servers PROVE EffectPaid(t)'
  BY <1>1, <1>3, <1>4, EffectKept
<1>7. QED
  BY <1>5, <1>6 DEF PaidInv

LEMMA PaidStep ==
    ASSUME Typed, PaidInv, [Next]_vars
    PROVE  PaidInv'
<1>1. clock \in Nat /\ Len(rows) \in Nat
  BY LenProperties DEF Typed, Tables
<1>2. CASE UNCHANGED vars
  BY <1>2 DEF vars, PaidInv, RowPaid, EffectPaid, Paid, Own, Bought, Committed
<1>3. ASSUME NEW s \in Servers, NEW e \in Events, Deliver(s, e) \/ Repeat(s, e) PROVE PaidInv'
  <2>1. clock' = clock + 2 /\ UNCHANGED rows /\ UNCHANGED log
    BY <1>3 DEF Deliver, Repeat, Receive
  <2>2. UNCHANGED <<at, job>> \/ Goto(s, "found none", [event |-> e, now |-> clock'])
    BY <1>3 DEF Deliver, Repeat, Receive
  <2>3. Later
    BY <2>1, <1>1 DEF Later
  <2>4. CASE UNCHANGED <<at, job>>
    BY <2>1, <2>3, <2>4, PaidSame
  <2>5. CASE Goto(s, "found none", [event |-> e, now |-> clock'])
    <3>1. Committed \subseteq Committed'
      BY <2>1 DEF Committed
    <3>2. ASSUME NEW i \in 1 .. Len(rows') PROVE RowPaid(rows[i])'
      BY <2>1, <2>3, <3>1, RowKept
    <3>3. ASSUME NEW t \in Servers PROVE EffectPaid(t)'
      <4>1. CASE t = s
        <5>1. at'[t] = "found none"
          BY <2>5, <4>1 DEF Goto, Typed, Holding
        <5>2. QED
          BY <5>1 DEF EffectPaid
      <4>2. CASE t # s
        <5>1. at'[t] = at[t] /\ job'[t] = job[t]
          BY <2>5, <4>2 DEF Goto, Typed, Holding
        <5>2. QED
          BY <2>1, <2>3, <3>1, <5>1, EffectKept
      <4>3. QED
        BY <4>1, <4>2
    <3>4. QED
      BY <3>2, <3>3 DEF PaidInv
  <2>6. QED
    BY <2>2, <2>4, <2>5
<1>4. ASSUME NEW s \in Servers, Insert(s) \/ Commit(s) PROVE PaidInv'
  BY <1>4, PaidInsert, PaidCommit
<1>5. ASSUME NEW s \in Servers, Lose(s) PROVE PaidInv'
  <2>1. clock' = clock /\ UNCHANGED rows /\ UNCHANGED log
    BY <1>5 DEF Lose
  <2>2. Goto(s, "idle", Nothing)
    BY <1>5 DEF Lose
  <2>3. Later
    BY <2>1, <1>1 DEF Later
  <2>4. QED
    BY <2>1, <2>2, <2>3, PaidSame
<1>6. CASE GrantPilot
  BY <1>6, PaidPilot DEF GrantPilot
<1>7. CASE RevokePilot
  BY <1>7, PaidPilot DEF RevokePilot
<1>8. CASE Tick
  <2>1. clock' = clock + 2 /\ UNCHANGED <<rows, log>> /\ UNCHANGED <<at, job>>
    BY <1>8 DEF Tick
  <2>2. Later /\ Committed \subseteq Committed'
    BY <2>1, <1>1 DEF Later, Committed
  <2>3. ASSUME NEW i \in 1 .. Len(rows') PROVE RowPaid(rows[i])'
    BY <2>1, <2>2, RowKept
  <2>4. ASSUME NEW t \in Servers PROVE EffectPaid(t)'
    BY <2>1, <2>2, EffectKept
  <2>5. QED
    BY <2>3, <2>4 DEF PaidInv
<1>9. QED
  BY <1>2, <1>3, <1>4, <1>5, <1>6, <1>7, <1>8 DEF Next

(* The monthly bundle is open only in a period that was paid for, or under  *)
(* the row of a pilot, for every number of purchases, revocations, server   *)
(* processes and lost answers: whatever two transactions read, the expiry   *)
(* that the plans share in one row is never later than a period they bought. *)
THEOREM AccessIsPaid == Spec => []AccessPaid
<1>1. Init => PaidInv
  BY DEF Init, PaidInv, EffectPaid
<1>2. Typed /\ PaidInv /\ [Next]_vars => PaidInv'
  BY PaidStep
<1>3. Typed /\ PaidInv => AccessPaid
  <2> SUFFICES ASSUME Typed, PaidInv, Access, rows[Newest(DOMAIN rows)].source # "trial"
               PROVE  \E e \in Bought(Premium) : End[e] > clock
    BY DEF AccessPaid
  <2> DEFINE i == Newest(DOMAIN rows)
  <2>1. rows \in Seq(Row) /\ DOMAIN rows = 1 .. Len(rows) /\ DOMAIN rows # {} /\ clock \in Nat
    BY LenProperties, EmptySeq DEF Typed, Tables, Access
  <2>2. i \in 1 .. Len(rows)
    BY <2>1, NewestIsOne
  <2>3. rows[i] \in Row
    BY <2>1, <2>2, ElementOfSeq
  <2>4. rows[i].expires \in Nat /\ rows[i].expires > clock
    BY <2>3 DEF Row, Access, Standing
  <2>5. Paid(rows[i].expires)
    BY <2>2 DEF PaidInv, RowPaid
  <2>6. PICK e \in Bought(Premium) : End[e] >= rows[i].expires
    BY <2>1, <2>4, <2>5 DEF Paid
  <2>7. e \in Events
    <3>1. log \in Seq(Events) /\ DOMAIN log = 1 .. Len(log)
      BY LenProperties DEF Typed, Tables
    <3>2. PICK k \in 1 .. Len(log) : e = log[k]
      BY <2>6, <3>1 DEF Bought, Committed
    <3>3. QED
      BY <3>1, <3>2, ElementOfSeq
  <2>8. End[e] \in Nat
    BY <2>7, Ending
  <2>9. QED
    BY <2>1, <2>4, <2>6, <2>8
<1>4. QED
  BY <1>1, <1>2, <1>3, AlwaysTyped, PTL DEF Spec
------------------------------------------------------------------------------
(* A revocation and a paper purchase survive what others had read. *)
Busy(s) == at[s] # "idle"

\* An expiry that no delivery under way brings: the end of a period, or an instant gone by.
Settled(x) == x \in Ends \/ (x <= clock /\ \A s \in Servers : Busy(s) => job[s].now # x)

Arrivals ==
    /\ clock \in Instants
    /\ \A s \in Servers : Busy(s) => job[s].now \in Instants
    /\ \A s, t \in Servers : Busy(s) /\ Busy(t) /\ s # t => job[s].now # job[t].now

\* The effect prepared from a row of the provider that may have changed since.
Stale(j) ==
    /\ j.place \in ProviderRows
    /\ j.new = Changed(j.old, j.event, j.now)
    /\ Settled(j.old.expires)
    /\ j.old.paper /\ Ended(Paper) = {} => rows[j.place].paper
Grounded(j) ==
    /\ j.place = 0 => j.new = First(j.event, j.now)
    /\ j.place # 0 => Stale(j)
RowsInv ==
    /\ Arrivals
    /\ \A i \in ProviderRows : Settled(rows[i].expires)
    /\ \A s \in Servers : at[s] = "applying" => Grounded(job[s])
    /\ log # <<>> => ProviderRows # {}

\* The last event of the bundle that committed is a denial.
LastDenied ==
    LET mine == {i \in DOMAIN log : Plan[log[i]] = Premium} IN
    \E i \in mine : (\A k \in mine : k <= i) /\ Brings[log[i]] \in Denied
RevokedInv == OneProviderRow /\ LastDenied => \A i \in ProviderRows : rows[i].expires <= clock

(* A step that changes no row and starts at most one delivery, at a new instant. *)
LEMMA SettledKept ==
    ASSUME Typed, RowsInv, clock' \in Nat, clock <= clock',
           \A t \in Servers : Busy(t)' => \/ Busy(t) /\ job'[t].now = job[t].now
                                          \/ job'[t].now = clock' /\ clock' \in Instants /\ clock < clock',
           NEW x \in Nat, Settled(x)
    PROVE  Settled(x)'
<1>1. clock \in Nat
  BY DEF Typed, Tables
<1>2. CASE x \in Ends
  BY <1>2 DEF Settled
<1>3. CASE x <= clock /\ \A s \in Servers : Busy(s) => job[s].now # x
  <2>1. x <= clock'
    BY <1>1, <1>3
  <2>2. ASSUME NEW t \in Servers, Busy(t)' PROVE job'[t].now # x
    <3>1. CASE Busy(t) /\ job'[t].now = job[t].now
      BY <1>3, <3>1
    <3>2. CASE job'[t].now = clock' /\ clock < clock'
      BY <1>1, <1>3, <3>2
    <3>3. QED
      BY <2>2, <3>1, <3>2
  <2>3. QED
    BY <2>1, <2>2 DEF Settled
<1>4. QED
  BY <1>2, <1>3 DEF Settled

(* The rows of the provider are among the rows. *)
LEMMA Provider ==
    ASSUME Typed
    PROVE  /\ ProviderRows = {i \in 1 .. Len(rows) : rows[i].source = "payment_provider"}
           /\ rows \in Seq(Row) /\ Len(rows) \in Nat /\ log \in Seq(Events)
           /\ Len(log) \in Nat /\ DOMAIN log = 1 .. Len(log) /\ clock \in Nat
           /\ \A i \in 1 .. Len(rows) : rows[i] \in Row /\ rows[i].expires \in Nat /\ rows[i].paper \in BOOLEAN
<1>1. /\ rows \in Seq(Row) /\ Len(rows) \in Nat /\ log \in Seq(Events) /\ clock \in Nat
      /\ Len(log) \in Nat /\ DOMAIN log = 1 .. Len(log) /\ DOMAIN rows = 1 .. Len(rows)
  BY LenProperties DEF Typed, Tables
<1>2. \A i \in 1 .. Len(rows) : rows[i] \in Row
  BY <1>1, ElementOfSeq
<1>3. QED
  BY <1>1, <1>2 DEF ProviderRows, Row

LEMMA Effects ==
    ASSUME Typed, NEW s \in Servers, at[s] = "applying"
    PROVE  /\ job[s] \in Effect /\ job[s].event \in Events /\ job[s].now \in Nat /\ job[s].now <= clock
           /\ job[s].place \in 0 .. Len(rows) /\ job[s].old \in Row /\ job[s].new \in Row
           /\ job[s].old.expires \in Nat
<1>1. job[s] \in Effect /\ job[s].place \in 0 .. Len(rows) /\ job[s].now <= clock
  BY DEF Typed, Holding, Held
<1>2. QED
  BY <1>1 DEF Effect, Row

(* Rows of the provider that are left alone, and what deliveries hold of them. *)
LEMMA RowsKept ==
    ASSUME Typed, RowsInv, Later, UNCHANGED <<log, ProviderRows>>,
           \A i \in ProviderRows : rows'[i] = rows[i],
           \A t \in Servers : Busy(t)' => \/ Busy(t) /\ job'[t].now = job[t].now
                                          \/ job'[t].now = clock' /\ clock' \in Instants /\ clock < clock',
           \A t \in Servers : at'[t] = "applying" =>
               \/ at[t] = "applying" /\ job'[t] = job[t]
               \/ Grounded(job[t])',
           Arrivals'
    PROVE  RowsInv'
<1>1. clock' \in Nat /\ clock <= clock'
  BY DEF Later
<1>2. ASSUME NEW x \in Nat, Settled(x) PROVE Settled(x)'
  BY <1>1, <1>2, SettledKept
<1>3. ASSUME NEW i \in ProviderRows' PROVE Settled(rows[i].expires)'
  <2>1. rows'[i] = rows[i] /\ Settled(rows[i].expires)
    BY <1>3 DEF RowsInv
  <2>2. rows[i].expires \in Nat
    BY <1>3, Provider
  <2>3. QED
    BY <2>1, <2>2, <1>2 DEF Settled
<1>4. ASSUME NEW t \in Servers, at'[t] = "applying", at[t] = "applying", job'[t] = job[t]
      PROVE  Grounded(job[t])'
  <2>1. Grounded(job[t]) /\ job[t].old.expires \in Nat
    BY <1>4, Effects DEF RowsInv
  <2>2. ASSUME job[t].place # 0 PROVE Stale(job[t])'
    <3>1. Stale(job[t])
      BY <2>1, <2>2 DEF Grounded
    <3>2. rows'[job[t].place] = rows[job[t].place] /\ job[t].place \in ProviderRows'
      BY <3>1 DEF Stale
    <3>3. Settled(job[t].old.expires)'
      BY <3>1, <2>1, <1>2, <1>4 DEF Stale, Settled
    <3>4. Ended(Paper)' = Ended(Paper)
      BY DEF Ended, Committed
    <3>5. QED
      BY <3>1, <3>2, <3>3, <3>4, <1>4 DEF Stale
  <2>3. QED
    BY <1>4, <2>1, <2>2 DEF Grounded
<1>5. QED
  BY <1>3, <1>4 DEF RowsInv

LEMMA NextInstant ==
    ASSUME Typed, Arrivals
    PROVE  clock + 2 \in Instants /\ clock < clock + 2 /\ clock \in Nat
<1>1. clock \in Nat /\ clock % 2 = 0
  BY DEF Typed, Tables, Arrivals, Instants
<1>2. QED
  BY <1>1 DEF Instants

(* A delivery goes on, ends, or arrives at a new instant. *)
LEMMA ArrivalsGoto ==
    ASSUME Typed, Arrivals, NEW s \in Servers, NEW place, NEW held, Goto(s, place, held),
           \/ place = "idle" /\ clock' = clock
           \/ Busy(s) /\ held.now = job[s].now /\ clock' = clock
           \/ held.now = clock' /\ clock' = clock + 2
    PROVE  /\ Arrivals'
           /\ \A t \in Servers : Busy(t)' =>
                 \/ Busy(t) /\ job'[t].now = job[t].now
                 \/ job'[t].now = clock' /\ clock' \in Instants /\ clock < clock'
<1>1. ASSUME NEW t \in Servers PROVE /\ t # s => at'[t] = at[t] /\ job'[t] = job[t]
                                     /\ t = s => at'[t] = place /\ job'[t] = held
  BY DEF Goto, Typed, Holding
<1>2. clock + 2 \in Instants /\ clock < clock + 2 /\ clock \in Nat
  BY NextInstant
<1>3. ASSUME NEW t \in Servers, Busy(t) PROVE job[t].now # clock + 2
  <2>1. job[t].now \in Nat /\ job[t].now <= clock
    BY <1>3, HeldEvent DEF Busy
  <2>2. QED
    BY <2>1, <1>2
<1>4. \A t \in Servers : Busy(t)' =>
                 \/ Busy(t) /\ job'[t].now = job[t].now
                 \/ job'[t].now = clock' /\ clock' \in Instants /\ clock < clock'
  BY <1>1, <1>2 DEF Busy
<1>5. clock' \in Instants
  BY <1>2 DEF Arrivals
<1>6. \A t \in Servers : Busy(t)' => job'[t].now \in Instants
  BY <1>4, <1>5 DEF Arrivals
<1>7. ASSUME NEW t \in Servers, NEW u \in Servers, Busy(t)', Busy(u)', t # u
      PROVE  job'[t].now # job'[u].now
  <2>1. CASE t # s /\ u # s
    BY <2>1, <1>1, <1>7 DEF Arrivals, Busy
  <2>2. ASSUME NEW v \in Servers, v # s, Busy(s)', Busy(v)' PROVE job'[v].now # job'[s].now
    <3>1. Busy(v) /\ job'[v] = job[v] /\ job'[s] = held /\ place # "idle"
      BY <2>2, <1>1 DEF Busy
    <3>2. CASE Busy(s) /\ held.now = job[s].now
      BY <3>1, <3>2, <2>2 DEF Arrivals
    <3>3. CASE held.now = clock' /\ clock' = clock + 2
      BY <3>1, <3>3, <1>3
    <3>4. QED
      BY <3>1, <3>2, <3>3
  <2>3. QED
    BY <2>1, <2>2, <1>7
<1>8. QED
  BY <1>4, <1>5, <1>6, <1>7 DEF Arrivals

LEMMA ArrivalsSame ==
    ASSUME Typed, Arrivals, UNCHANGED <<at, job>>, clock' = clock \/ clock' = clock + 2
    PROVE  Arrivals'
<1>1. clock' \in Instants
  BY NextInstant DEF Arrivals
<1>2. QED
  BY <1>1 DEF Arrivals, Busy

(* What Prepared makes of a row of the provider is grounded in it. *)
LEMMA PreparedGrounded ==
    ASSUME Typed, RowsInv, NEW e \in Events, NEW now \in Nat
    PROVE  LET j == Prepared(e, now) IN
           /\ j.place = 0 => j.new = First(j.event, j.now)
           /\ j.place # 0 => /\ j.place \in ProviderRows
                             /\ j.old = rows[j.place]
                             /\ j.new = Changed(j.old, j.event, j.now)
                             /\ Settled(j.old.expires)
                             /\ j.old.expires \in Nat
                             /\ j.old.paper = rows[j.place].paper
<1> DEFINE j == Prepared(e, now)
<1>1. /\ j.event = e /\ j.now = now /\ j.place \in 0 .. Len(rows)
      /\ j.place = 0 => j.new = First(e, now)
      /\ j.place # 0 => /\ j.old = rows[j.place]
                        /\ j.new = Changed(j.old, e, now)
                        /\ rows[j.place].source = "payment_provider"
  BY PreparedTyped
<1> HIDE DEF j
<1>2. ASSUME j.place # 0 PROVE j.place \in ProviderRows
  <2>1. j.place \in 1 .. Len(rows)
    BY <1>1, <1>2, Provider
  <2>2. QED
    BY <2>1, <1>1, <1>2, Provider
<1>3. ASSUME j.place # 0 PROVE Settled(j.old.expires) /\ j.old.expires \in Nat
  BY <1>1, <1>2, <1>3, Provider DEF RowsInv
<1>4. QED
  BY <1>1, <1>2, <1>3 DEF j

(* A step that changes no row is late enough and leaves the provider's rows. *)
LEMMA RowsAlone ==
    ASSUME Typed, UNCHANGED <<rows, log>>, clock' = clock \/ clock' = clock + 2
    PROVE  Later /\ UNCHANGED <<log, ProviderRows>>
<1>1. ProviderRows' = ProviderRows
  BY DEF ProviderRows
<1>2. Len(rows) \in Nat /\ clock \in Nat
  BY Provider
<1>3. QED
  BY <1>1, <1>2 DEF Later

LEMMA RowsInsert ==
    ASSUME Typed, RowsInv, NEW s \in Servers, Insert(s)
    PROVE  RowsInv'
<1> DEFINE e == job[s].event
           now == job[s].now
<1>1. at[s] = "found none" /\ clock' = clock /\ UNCHANGED <<rows, log>> /\ Busy(s)
  BY DEF Insert, Busy
<1>2. e \in Events /\ now \in Nat /\ now <= clock
  BY <1>1, HeldEvent
<1>3. Later /\ UNCHANGED <<log, ProviderRows>>
  BY <1>1, RowsAlone
<1> HIDE DEF e, now
<1>p. PICK p : p = Prepared(e, now)
  OBVIOUS
<1>4. /\ p.now = now
      /\ p.place = 0 => p.new = First(p.event, p.now)
      /\ p.place # 0 => /\ p.place \in ProviderRows
                        /\ p.new = Changed(p.old, p.event, p.now)
                        /\ Settled(p.old.expires)
                        /\ p.old.expires \in Nat
                        /\ p.old.paper = rows[p.place].paper
  BY <1>2, <1>p, PreparedTyped, PreparedGrounded
<1>5. \/ Goto(s, "idle", Nothing)
      \/ Goto(s, "storing", job[s])
      \/ Goto(s, "applying", p)
  BY <1>p DEF Insert, Answer, e, now
<1>6. ASSUME NEW place, NEW held, Goto(s, place, held), place = "idle" \/ held.now = now,
             place = "applying" => held = p
      PROVE  RowsInv'
  <2>1. /\ Arrivals'
        /\ \A t \in Servers : Busy(t)' =>
              \/ Busy(t) /\ job'[t].now = job[t].now
              \/ job'[t].now = clock' /\ clock' \in Instants /\ clock < clock'
    BY <1>1, <1>6, ArrivalsGoto DEF RowsInv, now
  <2>2. ASSUME p.place # 0 PROVE Settled(p.old.expires)'
    <3>1. clock' \in Nat /\ clock <= clock'
      BY <1>3 DEF Later
    <3>2. QED
      BY <1>4, <2>1, <2>2, <3>1, SettledKept
  <2>3. Grounded(p)'
    BY <1>1, <1>3, <1>4, <2>2 DEF Grounded, Stale
  <2>4. ASSUME NEW t \in Servers, at'[t] = "applying"
        PROVE  \/ at[t] = "applying" /\ job'[t] = job[t]
               \/ Grounded(job[t])'
    <3>1. /\ t # s => at'[t] = at[t] /\ job'[t] = job[t]
          /\ t = s => at'[t] = place /\ job'[t] = held
      BY <1>6 DEF Goto, Typed, Holding
    <3>2. CASE t = s
      <4>1. job'[t] = p
        BY <2>4, <3>1, <3>2, <1>6
      <4>2. QED
        BY <4>1, <2>3 DEF Grounded, Stale
    <3>3. QED
      BY <2>4, <3>1, <3>2
  <2>5. QED
    BY <1>1, <1>3, <2>1, <2>4, RowsKept
<1>7. CASE Goto(s, "applying", p)
  BY <1>4, <1>6, <1>7
<1>8. CASE Goto(s, "idle", Nothing)
  BY <1>6, <1>8
<1>9. CASE Goto(s, "storing", job[s])
  <2>1. PICK held : held = job[s]
    OBVIOUS
  <2>2. Goto(s, "storing", held) /\ held.now = now
    BY <1>9, <2>1 DEF now
  <2>3. QED
    BY <2>2, <1>6
<1>10. QED
  BY <1>5, <1>7, <1>8, <1>9

(* Arrivals, lost transactions and passages of time change no row. *)
LEMMA RowsSame ==
    ASSUME Typed, RowsInv, UNCHANGED <<rows, log>>, NEW s \in Servers, NEW held,
           \/ UNCHANGED <<at, job>> /\ (clock' = clock \/ clock' = clock + 2)
           \/ Goto(s, "idle", held) /\ clock' = clock
           \/ Goto(s, "found none", held) /\ held.now = clock' /\ clock' = clock + 2
    PROVE  RowsInv'
<1>1. Later /\ UNCHANGED <<log, ProviderRows>>
  BY RowsAlone
<1>2. CASE UNCHANGED <<at, job>> /\ (clock' = clock \/ clock' = clock + 2)
  <2>1. Arrivals'
    BY <1>2, ArrivalsSame DEF RowsInv
  <2>2. QED
    BY <1>1, <1>2, <2>1, RowsKept DEF Busy
<1>3. ASSUME NEW p, p # "applying", Goto(s, p, held),
             \/ p = "idle" /\ clock' = clock
             \/ held.now = clock' /\ clock' = clock + 2
      PROVE  RowsInv'
  <2>1. /\ Arrivals'
        /\ \A t \in Servers : Busy(t)' =>
              \/ Busy(t) /\ job'[t].now = job[t].now
              \/ job'[t].now = clock' /\ clock' \in Instants /\ clock < clock'
    BY <1>3, ArrivalsGoto DEF RowsInv
  <2>2. ASSUME NEW t \in Servers, at'[t] = "applying"
        PROVE  at[t] = "applying" /\ job'[t] = job[t]
    BY <1>3, <2>2 DEF Goto, Typed, Holding
  <2>3. QED
    BY <1>1, <2>1, <2>2, RowsKept
<1>4. QED
  BY <1>2, <1>3

LEMMA RowsPilot ==
    ASSUME Typed, RowsInv, NEW source \in {"trial", "manual_admin"}, NEW status, NEW until, NEW on,
           Pilot(source, status, until, on)
    PROVE  RowsInv' /\ UNCHANGED <<log, ProviderRows>> /\ \A i \in ProviderRows : rows'[i] = rows[i]
<1> DEFINE r == [source |-> source, codes |-> {}, status |-> status, expires |-> until,
                 live |-> on, paper |-> FALSE, updated |-> clock']
<1>1. clock' = clock + 2 /\ rows' = Append(rows, r) /\ UNCHANGED <<at, job>> /\ log' = log
  BY DEF Pilot
<1>2. r.source # "payment_provider"
  OBVIOUS
<1> HIDE DEF r
<1>3. /\ rows \in Seq(Row) /\ Len(rows) \in Nat /\ clock \in Nat
      /\ ProviderRows = {i \in 1 .. Len(rows) : rows[i].source = "payment_provider"}
  BY Provider
<1>4. /\ Len(rows') = Len(rows) + 1 /\ DOMAIN rows' = 1 .. (Len(rows) + 1)
      /\ \A i \in 1 .. Len(rows) : rows'[i] = rows[i]
      /\ rows'[Len(rows) + 1] = r
  BY <1>1, <1>3
<1>5. ProviderRows' = ProviderRows
  BY <1>2, <1>3, <1>4 DEF ProviderRows
<1>6. \A i \in ProviderRows : rows'[i] = rows[i]
  BY <1>3, <1>4
<1>7. Later
  BY <1>1, <1>3, <1>4 DEF Later
<1>8. Arrivals'
  BY <1>1, ArrivalsSame DEF RowsInv
<1>9. RowsInv'
  BY <1>1, <1>5, <1>6, <1>7, <1>8, RowsKept DEF Busy
<1>10. QED
  BY <1>1, <1>5, <1>6, <1>9

(* The columns an event changes, and what a commit makes of them. *)
LEMMA WrittenColumns ==
    ASSUME NEW r \in Row, NEW o \in Row, NEW n \in Row
    PROVE  /\ Written(r, o, n).paper = IF n.paper # o.paper THEN n.paper ELSE r.paper
           /\ Written(r, o, n).expires = IF n.expires # o.expires THEN n.expires ELSE r.expires
  BY DEF Written, Columns

LEMMA ChangedColumns ==
    ASSUME NEW r \in Row, NEW e \in Events, NEW now \in Nat
    PROVE  LET n == Changed(r, e, now) IN
           /\ n.expires \in {r.expires, now, End[e]}
           /\ Plan[e] = Paper => n.expires \in {r.expires, now}
           /\ Brings[e] # "active" /\ Plan[e] = Premium => n.expires = now
           /\ Plan[e] = Premium => n.paper = r.paper
           /\ Plan[e] = Paper /\ Brings[e] = "active" => n.paper = TRUE
<1>1. r.expires \in Nat /\ r.paper \in BOOLEAN /\ Premium # Paper /\ DOMAIN r = Columns
  BY DEF Row, Premium, Paper, Columns
<1>2. CASE Brings[e] = "active"
  BY <1>1, <1>2 DEF Changed, Activated, Latest, Until, Columns
<1>3. CASE Brings[e] # "active"
  BY <1>1, <1>3 DEF Changed, Revoked, Kept, Columns
<1>4. QED
  BY <1>2, <1>3

LEMMA FirstColumns ==
    ASSUME NEW e \in Events, NEW now \in Nat
    PROVE  LET n == First(e, now) IN
           /\ n.source = "payment_provider"
           /\ n.expires \in {now, End[e]}
           /\ Brings[e] # "active" => n.expires = now
           /\ Plan[e] = Paper /\ Brings[e] = "active" => n.paper = TRUE
  BY DEF First, Until

(* The commit of an effect: one event more, one row new or written over. *)
LEMMA CommitEffect ==
    ASSUME Typed, RowsInv, NEW s \in Servers, Commit(s), at[s] = "applying"
    PROVE  LET j == job[s] IN
           /\ clock' = clock /\ Goto(s, "idle", Nothing) /\ Later
           /\ DOMAIN log' = 1 .. (Len(log) + 1) /\ log'[Len(log) + 1] = j.event
           /\ \A i \in 1 .. Len(log) : log'[i] = log[i]
           /\ Committed' = Committed \cup {j.event}
           /\ j.place = 0 => LET n == Len(rows) + 1 IN
                /\ ProviderRows' = ProviderRows \cup {n} /\ n \notin ProviderRows
                /\ rows'[n] = First(j.event, j.now)
                /\ \A i \in ProviderRows : rows'[i] = rows[i]
           /\ j.place # 0 =>
                /\ Stale(j) /\ ProviderRows' = ProviderRows
                /\ rows'[j.place] = Written(rows[j.place], j.old, j.new)
                /\ \A i \in ProviderRows : i # j.place => rows'[i] = rows[i]
<1> DEFINE j == job[s]
<1>1. /\ j \in Effect /\ j.event \in Events /\ j.now \in Nat /\ j.now <= clock
      /\ j.place \in 0 .. Len(rows) /\ j.old \in Row /\ j.new \in Row
  BY Effects
<1>2. /\ ProviderRows = {i \in 1 .. Len(rows) : rows[i].source = "payment_provider"}
      /\ rows \in Seq(Row) /\ Len(rows) \in Nat /\ log \in Seq(Events)
      /\ Len(log) \in Nat /\ DOMAIN log = 1 .. Len(log) /\ clock \in Nat
      /\ \A i \in 1 .. Len(rows) : rows[i] \in Row
  BY Provider
<1>3. Grounded(j)
  BY DEF RowsInv
<1>4. clock' = clock /\ Goto(s, "idle", Nothing)
  BY DEF Commit, Answer
<1>5. /\ log' = Append(log, j.event)
      /\ rows' = IF j.place = 0 THEN Append(rows, j.new)
                 ELSE [rows EXCEPT ![j.place] = Written(rows[j.place], j.old, j.new)]
  BY DEF Commit
<1> HIDE DEF j
<1>6. /\ log' \in Seq(Events) /\ Len(log') = Len(log) + 1 /\ log'[Len(log) + 1] = j.event
      /\ \A i \in 1 .. Len(log) : log'[i] = log[i]
  BY <1>1, <1>2, <1>5, AppendProperties
<1>7. DOMAIN log' = 1 .. (Len(log) + 1)
  BY <1>6, LenProperties
<1>8. Committed' = Committed \cup {j.event}
  BY <1>2, <1>6, <1>7 DEF Committed
<1>9. CASE j.place = 0
  <2> DEFINE n == Len(rows) + 1
  <2>0. j.new = First(j.event, j.now)
    BY <1>3, <1>9 DEF Grounded
  <2>1. j.new.source = "payment_provider"
    <3>1. First(j.event, j.now).source = "payment_provider"
      BY <1>1, FirstColumns
    <3>2. QED
      BY <2>0, <3>1
  <2>2. /\ rows' \in Seq(Row) /\ Len(rows') = n /\ rows'[n] = j.new
        /\ \A i \in 1 .. Len(rows) : rows'[i] = rows[i]
    <3>1. rows' = Append(rows, j.new)
      BY <1>5, <1>9
    <3>2. QED
      BY <3>1, <1>1, <1>2, AppendProperties
  <2>3. DOMAIN rows' = 1 .. n
    BY <2>2, LenProperties
  <2>4. ProviderRows' = ProviderRows \cup {n} /\ n \notin ProviderRows
    BY <1>2, <2>1, <2>2, <2>3 DEF ProviderRows
  <2>5. \A i \in ProviderRows : rows'[i] = rows[i]
    BY <1>2, <2>2
  <2>6. Later
    BY <1>2, <1>4, <2>2 DEF Later
  <2>7. QED
    BY <1>4, <1>6, <1>7, <1>8, <1>9, <2>0, <2>2, <2>4, <2>5, <2>6 DEF j
<1>10. CASE j.place # 0
  <2> DEFINE p == j.place
             w == Written(rows[p], j.old, j.new)
  <2>1. Stale(j)
    BY <1>3, <1>10 DEF Grounded
  <2>2. p \in 1 .. Len(rows) /\ rows[p] \in Row /\ rows[p].source = "payment_provider"
    BY <1>2, <2>1 DEF Stale
  <2>3. j.new.source = j.old.source
    BY <1>1, <2>1, ChangedTyped DEF Stale
  <2>w. w \in Row /\ w.source = "payment_provider"
    BY <1>1, <2>2, <2>3, WrittenTyped
  <2>4. rows' = [rows EXCEPT ![p] = w]
    BY <1>5, <1>10
  <2> HIDE DEF p, w
  <2>5. /\ rows' \in Seq(Row) /\ Len(rows') = Len(rows)
        /\ \A i \in 1 .. Len(rows) : rows'[i] = IF i = p THEN w ELSE rows[i]
    BY <1>2, <2>2, <2>w, <2>4, ExceptSeq
  <2>6. DOMAIN rows' = 1 .. Len(rows)
    BY <2>5, LenProperties
  <2>7. ProviderRows' = ProviderRows
    BY <1>2, <2>2, <2>w, <2>5, <2>6 DEF ProviderRows
  <2>8. rows'[p] = w /\ \A i \in ProviderRows : i # p => rows'[i] = rows[i]
    BY <1>2, <2>2, <2>5
  <2>9. Later
    BY <1>2, <1>4, <2>5 DEF Later
  <2>10. QED
    BY <1>4, <1>6, <1>7, <1>8, <1>10, <2>1, <2>7, <2>8, <2>9 DEF j, p, w
<1>11. QED
  BY <1>9, <1>10

\* What a server process holds over a step of which it is no part.
LEMMA OthersHold ==
    ASSUME Typed, NEW s \in Servers, Goto(s, "idle", Nothing), NEW t \in Servers, Busy(t)'
    PROVE  t # s /\ Busy(t) /\ at'[t] = at[t] /\ job'[t] = job[t]
  BY DEF Goto, Busy, Typed, Holding

(* What an effect brings is settled once it is committed. *)
LEMMA BroughtSettled ==
    ASSUME Typed, RowsInv, NEW s \in Servers, Commit(s), at[s] = "applying",
           NEW x \in Nat, Settled(x) \/ x = job[s].now
    PROVE  Settled(x)'
<1>1. clock' = clock /\ Goto(s, "idle", Nothing) /\ Busy(s) /\ clock \in Nat
  BY Provider DEF Commit, Answer, Busy
<1>2. \A t \in Servers : Busy(t)' => t # s /\ Busy(t) /\ at'[t] = at[t] /\ job'[t] = job[t]
  BY <1>1, OthersHold
<1>3. CASE Settled(x)
  BY <1>1, <1>2, <1>3, SettledKept
<1>4. CASE x = job[s].now
  <2>1. x <= clock
    BY <1>1, <1>4, HeldEvent DEF Busy
  <2>2. \A t \in Servers : Busy(t)' => job'[t].now # x
    BY <1>1, <1>2, <1>4 DEF RowsInv, Arrivals
  <2>3. QED
    BY <2>1, <2>2, <1>1 DEF Settled
<1>5. QED
  BY <1>3, <1>4

LEMMA RowsCommit ==
    ASSUME Typed, RowsInv, NEW s \in Servers, Commit(s)
    PROVE  RowsInv'
<1>storing. CASE at[s] = "storing"
  BY <1>storing, RowsSame DEF Commit, Answer
<1>applying. CASE at[s] = "applying"
  <2>j. PICK j : j = job[s]
    OBVIOUS
  <2>e. PICK e : e = j.event
    OBVIOUS
  <2>1. /\ j \in Effect /\ e \in Events /\ j.now \in Nat /\ j.now <= clock
        /\ j.place \in 0 .. Len(rows) /\ j.old \in Row /\ j.new \in Row /\ j.old.expires \in Nat
    BY <1>applying, <2>j, <2>e, Effects
  <2>2. /\ clock' = clock /\ Goto(s, "idle", Nothing) /\ Later
        /\ Committed' = Committed \cup {e}
        /\ j.place = 0 => LET n == Len(rows) + 1 IN
             /\ ProviderRows' = ProviderRows \cup {n} /\ n \notin ProviderRows
             /\ rows'[n] = First(e, j.now)
             /\ \A i \in ProviderRows : rows'[i] = rows[i]
        /\ j.place # 0 =>
             /\ Stale(j) /\ ProviderRows' = ProviderRows
             /\ rows'[j.place] = Written(rows[j.place], j.old, j.new)
             /\ \A i \in ProviderRows : i # j.place => rows'[i] = rows[i]
    BY <1>applying, <2>j, <2>e, CommitEffect
  <2>3. \A t \in Servers : Busy(t)' => t # s /\ Busy(t) /\ at'[t] = at[t] /\ job'[t] = job[t]
    BY <2>2, OthersHold
  <2>4. Arrivals'
    BY <2>2, ArrivalsGoto DEF RowsInv
  <2>5. \A x \in Nat : Settled(x) \/ x = j.now => Settled(x)'
    BY <1>applying, <2>j, BroughtSettled
  <2>end. End[e] \in Nat /\ Settled(End[e])
    BY <2>1, Ending DEF Settled
  <2>6. \A i \in ProviderRows : rows[i] \in Row /\ rows[i].expires \in Nat /\ Settled(rows[i].expires)
    BY Provider DEF RowsInv
  <2>7. j.place = 0 => First(e, j.now).expires \in {j.now, End[e]}
    BY <2>1, FirstColumns
  <2>8. j.place # 0 => /\ rows'[j.place].expires \in {rows[j.place].expires, j.now, End[e], j.old.expires}
                       /\ rows[j.place] \in Row /\ Settled(j.old.expires) /\ j.place \in ProviderRows
    <3> SUFFICES ASSUME j.place # 0
                 PROVE  /\ rows'[j.place].expires \in {rows[j.place].expires, j.now, End[e], j.old.expires}
                        /\ rows[j.place] \in Row /\ Settled(j.old.expires) /\ j.place \in ProviderRows
      OBVIOUS
    <3>1. j.place \in ProviderRows /\ j.new = Changed(j.old, e, j.now) /\ Settled(j.old.expires)
      BY <2>2, <2>e DEF Stale
    <3>2. rows[j.place] \in Row
      BY <2>6, <3>1
    <3>3. j.new.expires \in {j.old.expires, j.now, End[e]}
      BY <2>1, <3>1, ChangedColumns
    <3>4. rows'[j.place].expires \in {j.new.expires, rows[j.place].expires}
      BY <2>1, <2>2, <3>2, WrittenColumns
    <3>5. QED
      BY <3>1, <3>2, <3>3, <3>4
  <2>9. ASSUME NEW i \in ProviderRows' PROVE Settled(rows[i].expires)'
    <3>1. \E x \in Nat : rows'[i].expires = x /\ (Settled(x) \/ x = j.now)
      <4>1. CASE i \in ProviderRows /\ rows'[i] = rows[i]
        BY <4>1, <2>6
      <4>2. CASE j.place = 0 /\ i = Len(rows) + 1
        BY <4>2, <2>1, <2>2, <2>7, <2>end
      <4>3. CASE j.place # 0 /\ i = j.place
        BY <4>3, <2>1, <2>6, <2>8, <2>end
      <4>4. QED
        BY <2>2, <2>9, <4>1, <4>2, <4>3
    <3>2. QED
      BY <3>1, <2>5 DEF Settled
  <2>10. ASSUME NEW t \in Servers, at'[t] = "applying" PROVE Grounded(job[t])'
    <3>1. at[t] = "applying" /\ job'[t] = job[t] /\ t # s
      BY <2>3, <2>10 DEF Busy
    <3>2. Grounded(job[t]) /\ job[t].old.expires \in Nat
      BY <3>1, Effects DEF RowsInv
    <3>3. ASSUME job[t].place # 0 PROVE Stale(job[t])'
      <4>1. Stale(job[t])
        BY <3>2, <3>3 DEF Grounded
      <4>2. job[t].place \in ProviderRows'
        BY <2>2, <4>1 DEF Stale
      <4>3. Settled(job[t].old.expires)'
        BY <2>5, <3>1, <3>2, <4>1 DEF Stale, Settled
      <4>4. ASSUME job[t].old.paper, Ended(Paper)' = {} PROVE rows'[job[t].place].paper
        <5>1. Ended(Paper) = {} /\ ~(Plan[e] = Paper /\ Brings[e] \in Denied)
          BY <2>2, <4>4 DEF Ended
        <5>2. rows[job[t].place].paper /\ job[t].place \in ProviderRows
          BY <4>1, <4>4, <5>1 DEF Stale
        <5>3. CASE rows'[job[t].place] = rows[job[t].place]
          BY <5>2, <5>3
        <5>4. CASE j.place # 0 /\ j.place = job[t].place
          <6>1. j.new = Changed(j.old, e, j.now)
            BY <5>4, <2>2, <2>e DEF Stale
          <6>2. Plan[e] \in {Premium, Paper} /\ Brings[e] \in Denied \cup {"active"}
            BY <2>1, PaymentsAssumption DEF Plans
          <6>3. j.new.paper = TRUE \/ j.new.paper = j.old.paper
            <7>1. \/ Plan[e] = Premium
                  \/ Plan[e] = Paper /\ Brings[e] = "active"
              BY <5>1, <6>2
            <7>2. /\ Plan[e] = Premium => Changed(j.old, e, j.now).paper = j.old.paper
                  /\ Plan[e] = Paper /\ Brings[e] = "active" => Changed(j.old, e, j.now).paper = TRUE
              BY <2>1, ChangedColumns
            <7>3. QED
              BY <6>1, <7>1, <7>2
          <6>4. rows'[j.place].paper = IF j.new.paper # j.old.paper THEN j.new.paper ELSE rows[j.place].paper
            BY <2>1, <2>2, <2>8, <5>4, WrittenColumns
          <6>5. QED
            BY <5>2, <5>4, <6>3, <6>4
        <5>5. QED
          BY <2>2, <5>2, <5>3, <5>4
      <4>5. QED
        BY <3>1, <4>1, <4>2, <4>3, <4>4 DEF Stale
    <3>4. QED
      BY <3>1, <3>2, <3>3 DEF Grounded
  <2>11. ProviderRows' # {}
    BY <2>2, <2>8
  <2>12. QED
    BY <2>4, <2>9, <2>10, <2>11 DEF RowsInv
<1>3. QED
  BY <1>storing, <1>applying DEF Commit

\* A step that commits no effect leaves the rows of the provider alone.
Aside ==
    /\ log' = log /\ ProviderRows' = ProviderRows /\ clock \in Nat /\ clock' \in Nat /\ clock <= clock'
    /\ \A i \in ProviderRows : rows'[i] = rows[i]
Applying(s) == Commit(s) /\ at[s] = "applying"

LEMMA AsideSame ==
    ASSUME Typed, UNCHANGED <<rows, log>>, clock' = clock \/ clock' = clock + 2
    PROVE  Aside
<1>1. clock \in Nat /\ clock' \in Nat /\ clock <= clock'
  BY Provider
<1>2. QED
  BY <1>1, RowsAlone DEF Aside

LEMMA RowsStep ==
    ASSUME Typed, RowsInv, [Next]_vars
    PROVE  RowsInv' /\ (Aside \/ \E s \in Servers : Applying(s))
<1>1. CASE UNCHANGED vars
  <2>1. RowsInv'
    BY <1>1 DEF vars, RowsInv, Arrivals, Grounded, Stale, Settled, Busy, ProviderRows, Ended, Committed
  <2>2. QED
    BY <1>1, <2>1, AsideSame DEF vars
<1>2. ASSUME NEW s \in Servers, NEW e \in Events, Deliver(s, e) \/ Repeat(s, e) PROVE RowsInv' /\ Aside
  <2>0. Receive(s, e)
    BY <1>2 DEF Deliver, Repeat
  <2>1. clock' = clock + 2 /\ UNCHANGED rows /\ UNCHANGED log
    BY <2>0 DEF Receive
  <2>2. UNCHANGED <<at, job>> \/ Goto(s, "found none", [event |-> e, now |-> clock'])
    BY <2>0 DEF Receive
  <2>3. CASE UNCHANGED <<at, job>>
    BY <2>1, <2>3, RowsSame, AsideSame
  <2>4. CASE Goto(s, "found none", [event |-> e, now |-> clock'])
    <3>1. PICK held : held = [event |-> e, now |-> clock']
      OBVIOUS
    <3>2. Goto(s, "found none", held) /\ held.now = clock'
      BY <2>4, <3>1
    <3>3. QED
      BY <2>1, <3>2, RowsSame, AsideSame
  <2>5. QED
    BY <2>2, <2>3, <2>4
<1>3. ASSUME NEW s \in Servers, Insert(s) PROVE RowsInv' /\ Aside
  <2>1. clock' = clock /\ UNCHANGED <<rows, log>>
    BY <1>3 DEF Insert
  <2>2. QED
    BY <1>3, <2>1, RowsInsert, AsideSame
<1>4. ASSUME NEW s \in Servers, Commit(s) PROVE RowsInv' /\ (Aside \/ Applying(s))
  <2>1. RowsInv' /\ clock' = clock
    BY <1>4, RowsCommit DEF Commit
  <2>2. at[s] = "applying" \/ UNCHANGED <<rows, log>>
    BY <1>4 DEF Commit
  <2>3. QED
    BY <1>4, <2>1, <2>2, AsideSame DEF Applying
<1>5. ASSUME NEW s \in Servers, Lose(s) PROVE RowsInv' /\ Aside
  <2>1. clock' = clock /\ UNCHANGED <<rows, log>> /\ Goto(s, "idle", Nothing)
    BY <1>5 DEF Lose
  <2>2. QED
    BY <2>1, RowsSame, AsideSame
<1>6. ASSUME NEW source \in {"trial", "manual_admin"}, NEW status, NEW until, NEW on,
             Pilot(source, status, until, on)
      PROVE  RowsInv' /\ Aside
  <2>1. RowsInv' /\ UNCHANGED <<log, ProviderRows>> /\ \A i \in ProviderRows : rows'[i] = rows[i]
    BY <1>6, RowsPilot
  <2>2. clock \in Nat /\ clock' = clock + 2
    BY <1>6, Provider DEF Pilot
  <2>3. QED
    BY <2>1, <2>2 DEF Aside
<1>7. CASE GrantPilot \/ RevokePilot
  BY <1>6, <1>7 DEF GrantPilot, RevokePilot
<1>8. CASE Tick
  <2>1. clock' = clock + 2 /\ UNCHANGED <<rows, log>> /\ UNCHANGED <<at, job>>
    BY <1>8 DEF Tick
  <2>2. Aside
    BY <2>1, AsideSame
  <2>3. RowsInv'
    <3>1. Arrivals'
      BY <2>1, ArrivalsSame DEF RowsInv
    <3>2. QED
      BY <2>1, <3>1, RowsAlone, RowsKept DEF Busy
  <2>4. QED
    BY <2>2, <2>3
<1>9. QED
  BY <1>1, <1>2, <1>3, <1>4, <1>5, <1>7, <1>8 DEF Next

LEMMA AlwaysRows == Spec => [](Typed /\ RowsInv)
<1>1. Init => RowsInv
  <2>1. 0 \in Instants
    BY DEF Instants
  <2>2. QED
    BY <2>1 DEF Init, RowsInv, Arrivals, Busy, ProviderRows
<1>2. Typed /\ RowsInv /\ [Next]_vars => RowsInv'
  BY RowsStep
<1>3. QED
  BY <1>1, <1>2, AlwaysTyped, PTL DEF Spec

\* The commit of the effect of e, that arrived at now, seen from the place p it writes:
\* a first row, or the row that was read as old.
Writes(e, now, old, p) ==
    /\ now <= clock /\ clock' = clock /\ clock \in Nat
    /\ DOMAIN log = 1 .. Len(log) /\ Len(log) \in Nat
    /\ DOMAIN log' = 1 .. (Len(log) + 1) /\ log'[Len(log) + 1] = e
    /\ \A i \in 1 .. Len(log) : log'[i] = log[i]
    /\ Committed' = Committed \cup {e}
    /\ \/ /\ p \notin ProviderRows /\ ProviderRows' = ProviderRows \cup {p}
          /\ rows'[p] = First(e, now)
          /\ \A i \in ProviderRows : rows'[i] = rows[i]
       \/ /\ p \in ProviderRows /\ ProviderRows' = ProviderRows
          /\ rows[p] \in Row /\ old.expires # now
          /\ old.paper /\ Ended(Paper) = {} => rows[p].paper
          /\ rows'[p] = Written(rows[p], old, Changed(old, e, now))
          /\ \A i \in ProviderRows : i # p => rows'[i] = rows[i]

LEMMA ApplyingFacts ==
    ASSUME Typed, RowsInv, NEW s \in Servers, Applying(s)
    PROVE  \E e \in Events, now \in Nat, old \in Row, p \in Nat : Writes(e, now, old, p)
<1>j. PICK j : j = job[s]
  OBVIOUS
<1>1. /\ j.event \in Events /\ j.now \in Nat /\ j.now <= clock
      /\ j.place \in 0 .. Len(rows) /\ j.old \in Row
  BY <1>j, Effects DEF Applying
<1>2. /\ clock' = clock
      /\ DOMAIN log' = 1 .. (Len(log) + 1) /\ log'[Len(log) + 1] = j.event
      /\ \A i \in 1 .. Len(log) : log'[i] = log[i]
      /\ Committed' = Committed \cup {j.event}
      /\ j.place = 0 => LET n == Len(rows) + 1 IN
           /\ ProviderRows' = ProviderRows \cup {n} /\ n \notin ProviderRows
           /\ rows'[n] = First(j.event, j.now)
           /\ \A i \in ProviderRows : rows'[i] = rows[i]
      /\ j.place # 0 =>
           /\ Stale(j) /\ ProviderRows' = ProviderRows
           /\ rows'[j.place] = Written(rows[j.place], j.old, j.new)
           /\ \A i \in ProviderRows : i # j.place => rows'[i] = rows[i]
  BY <1>j, CommitEffect DEF Applying
<1>3. DOMAIN log = 1 .. Len(log) /\ Len(log) \in Nat /\ Len(rows) \in Nat /\ clock \in Nat
      /\ \A i \in ProviderRows : rows[i] \in Row
  BY Provider
<1>e. PICK e \in Events, now \in Nat, old \in Row : e = j.event /\ now = j.now /\ old = j.old
  BY <1>1
<1>4. CASE j.place = 0
  <2>1. Len(rows) + 1 \in Nat
    BY <1>3
  <2>2. PICK n \in Nat : n = Len(rows) + 1
    BY <2>1
  <2>3. /\ n \notin ProviderRows /\ ProviderRows' = ProviderRows \cup {n}
        /\ rows'[n] = First(e, now)
        /\ \A i \in ProviderRows : rows'[i] = rows[i]
    BY <1>2, <1>4, <1>e, <2>2
  <2>4. QED
    BY <1>1, <1>2, <1>3, <1>e, <2>3 DEF Writes
<1>5. CASE j.place # 0
  <2>1. PICK p \in Nat : p = j.place
    BY <1>1
  <2>now. Settled(old.expires) => old.expires # now
    <3>1. Busy(s) /\ job[s].now = now /\ now \in Instants
      BY <1>j, <1>e DEF Applying, Busy, RowsInv, Arrivals
    <3>2. now \notin Ends
      BY <3>1 DEF Instants, Ends
    <3>3. QED
      BY <3>1, <3>2 DEF Settled
  <2>2. /\ p \in ProviderRows /\ ProviderRows' = ProviderRows
        /\ rows[p] \in Row /\ old.expires # now
        /\ old.paper /\ Ended(Paper) = {} => rows[p].paper
        /\ rows'[p] = Written(rows[p], old, Changed(old, e, now))
        /\ \A i \in ProviderRows : i # p => rows'[i] = rows[i]
    BY <1>2, <1>3, <1>5, <1>e, <2>1, <2>now DEF Stale
  <2>3. QED
    BY <1>1, <1>2, <1>3, <1>e, <2>2 DEF Writes
<1>6. QED
  BY <1>4, <1>5

LEMMA KeptStep ==
    ASSUME Typed, RowsInv, PaperKept, Aside \/ \E s \in Servers : Applying(s)
    PROVE  PaperKept'
<1>1. CASE Aside
  <2>1. /\ Bought(Paper)' = Bought(Paper) /\ Ended(Paper)' = Ended(Paper)
        /\ OneProviderRow' = OneProviderRow
    BY <1>1 DEF Aside, Bought, Ended, Committed, OneProviderRow
  <2>2. QED
    BY <1>1, <2>1 DEF Aside, PaperKept
<1>2. ASSUME NEW s \in Servers, Applying(s) PROVE PaperKept'
  <2>1. PICK e \in Events, now \in Nat, old \in Row, p \in Nat : Writes(e, now, old, p)
    BY <1>2, ApplyingFacts
  <2> USE DEF Writes
  <2>2. SUFFICES ASSUME OneProviderRow', Bought(Paper)' # {}, Ended(Paper)' = {}, NEW i \in ProviderRows'
                 PROVE  rows'[i].paper
    BY DEF PaperKept
  <2>3. Ended(Paper) = {} /\ OneProviderRow /\ ~(Plan[e] = Paper /\ Brings[e] \in Denied)
    BY <2>1, <2>2 DEF Ended, OneProviderRow
  <2>4. Bought(Paper) # {} \/ (Plan[e] = Paper /\ Brings[e] = "active")
    BY <2>1, <2>2 DEF Bought
  <2>5. Plan[e] \in {Premium, Paper} /\ Brings[e] \in Denied \cup {"active"}
    BY PaymentsAssumption DEF Plans
  <2>6. p \in ProviderRows' /\ i = p
    BY <2>1, <2>2 DEF OneProviderRow
  <2>7. CASE p \notin ProviderRows
    <3>1. ProviderRows = {}
      BY <2>1, <2>2, <2>7 DEF OneProviderRow
    <3>2. log = <<>>
      BY <3>1 DEF RowsInv
    <3>3. Bought(Paper) = {}
      BY <3>2 DEF Bought, Committed
    <3>4. Plan[e] = Paper /\ Brings[e] = "active"
      BY <2>4, <3>3
    <3>5. First(e, now).paper = TRUE
      BY <3>4, FirstColumns
    <3>6. QED
      BY <2>1, <2>6, <2>7, <3>5
  <2>8. CASE p \in ProviderRows
    <3> DEFINE n == Changed(old, e, now)
    <3>1. n \in Row
      BY ChangedTyped
    <3>2. rows[p] \in Row /\ rows'[p] = Written(rows[p], old, n) /\ (old.paper => rows[p].paper)
      BY <2>1, <2>3, <2>8
    <3>3. /\ Plan[e] = Premium => n.paper = old.paper
          /\ Plan[e] = Paper /\ Brings[e] = "active" => n.paper = TRUE
      BY ChangedColumns
    <3> HIDE DEF n
    <3>4. rows'[p].paper = IF n.paper # old.paper THEN n.paper ELSE rows[p].paper
      BY <3>1, <3>2, WrittenColumns
    <3>5. Bought(Paper) # {} => rows[p].paper
      BY <2>3, <2>8 DEF PaperKept
    <3>6. CASE Plan[e] = Paper /\ Brings[e] = "active"
      <4>1. n.paper = TRUE
        BY <3>3, <3>6
      <4>2. CASE old.paper
        BY <2>6, <3>2, <3>4, <4>1, <4>2
      <4>3. CASE ~old.paper
        BY <2>6, <3>4, <4>1, <4>3
      <4>4. QED
        BY <4>2, <4>3
    <3>7. CASE Plan[e] = Premium
      <4>1. Plan[e] # Paper
        BY <3>7 DEF Premium, Paper
      <4>2. rows'[p].paper = rows[p].paper
        BY <3>3, <3>4, <3>7
      <4>3. QED
        BY <2>4, <2>6, <3>5, <4>1, <4>2
    <3>8. QED
      BY <2>3, <2>5, <3>6, <3>7
  <2>9. QED
    BY <2>7, <2>8
<1>3. QED
  BY <1>1, <1>2

LEMMA RevokedStep ==
    ASSUME Typed, RowsInv, RevokedInv, Aside \/ \E s \in Servers : Applying(s)
    PROVE  RevokedInv'
<1>1. CASE Aside
  <2>1. LastDenied' = LastDenied /\ OneProviderRow' = OneProviderRow
    BY <1>1 DEF Aside, LastDenied, OneProviderRow
  <2>2. \A i \in ProviderRows : rows[i].expires \in Nat
    BY Provider
  <2>3. QED
    BY <1>1, <2>1, <2>2 DEF Aside, RevokedInv
<1>2. ASSUME NEW s \in Servers, Applying(s) PROVE RevokedInv'
  <2>1. PICK e \in Events, now \in Nat, old \in Row, p \in Nat : Writes(e, now, old, p)
    BY <1>2, ApplyingFacts
  <2> USE DEF Writes
  <2>2. SUFFICES ASSUME OneProviderRow', LastDenied', NEW i \in ProviderRows'
                 PROVE  rows'[i].expires <= clock
    BY <2>1 DEF RevokedInv
  <2>3. OneProviderRow /\ p \in ProviderRows' /\ i = p
    BY <2>1, <2>2 DEF OneProviderRow
  <2>4. Plan[e] \in {Premium, Paper} /\ Brings[e] \in Denied \cup {"active"} /\ Premium # Paper
        /\ "active" \notin Denied
    BY PaymentsAssumption DEF Plans, Premium, Paper, Denied
  <2>5. Plan[e] = Premium => Brings[e] \in Denied
    <3> SUFFICES ASSUME Plan[e] = Premium PROVE Brings[e] \in Denied
      OBVIOUS
    <3>1. PICK k \in DOMAIN log' : /\ \A l \in DOMAIN log' : Plan[log'[l]] = Premium => l <= k
                                   /\ Brings[log'[k]] \in Denied
      BY <2>2 DEF LastDenied
    <3>2. k = Len(log) + 1
      BY <2>1, <3>1
    <3>3. QED
      BY <2>1, <3>1, <3>2
  <2>6. Plan[e] # Premium => LastDenied
    <3> SUFFICES ASSUME Plan[e] # Premium PROVE LastDenied
      OBVIOUS
    <3>1. PICK k \in DOMAIN log' : /\ Plan[log'[k]] = Premium
                                   /\ \A l \in DOMAIN log' : Plan[log'[l]] = Premium => l <= k
                                   /\ Brings[log'[k]] \in Denied
      BY <2>2 DEF LastDenied
    <3>2. k \in 1 .. Len(log)
      BY <2>1, <3>1
    <3>3. \A l \in DOMAIN log : Plan[log[l]] = Premium => l <= k
      BY <2>1, <3>1
    <3>4. QED
      BY <2>1, <3>1, <3>2, <3>3 DEF LastDenied
  <2>7. CASE p \notin ProviderRows
    <3>1. ProviderRows = {}
      BY <2>1, <2>2, <2>7 DEF OneProviderRow
    <3>2. log = <<>>
      BY <3>1 DEF RowsInv
    <3>3. ~LastDenied
      BY <3>2 DEF LastDenied
    <3>4. Brings[e] # "active"
      BY <2>4, <2>5, <2>6, <3>3
    <3>5. First(e, now).expires = now
      BY <3>4, FirstColumns
    <3>6. QED
      BY <2>1, <2>3, <2>7, <3>5
  <2>8. CASE p \in ProviderRows
    <3> DEFINE n == Changed(old, e, now)
    <3>1. n \in Row
      BY ChangedTyped
    <3>2. rows[p] \in Row /\ rows'[p] = Written(rows[p], old, n) /\ old.expires # now
      BY <2>1, <2>8
    <3>3. /\ Plan[e] = Paper => n.expires \in {old.expires, now}
          /\ Brings[e] # "active" /\ Plan[e] = Premium => n.expires = now
      BY ChangedColumns
    <3> HIDE DEF n
    <3>4. rows'[p].expires = IF n.expires # old.expires THEN n.expires ELSE rows[p].expires
      BY <3>1, <3>2, WrittenColumns
    <3>5. CASE Plan[e] = Paper
      <4>1. rows[p].expires <= clock
        BY <2>3, <2>4, <2>6, <2>8, <3>5 DEF RevokedInv
      <4>2. QED
        BY <2>1, <2>3, <3>3, <3>4, <3>5, <4>1
    <3>6. CASE Plan[e] = Premium
      <4>1. n.expires = now
        BY <2>4, <2>5, <3>3, <3>6
      <4>2. QED
        BY <2>1, <2>3, <3>2, <3>4, <4>1
    <3>7. QED
      BY <2>4, <3>5, <3>6
  <2>9. QED
    BY <2>7, <2>8
<1>3. QED
  BY <1>1, <1>2

(* A paper purchase survives, for every number of events, server processes  *)
(* and lost answers: while the provider has one row and no paper plan has   *)
(* ended, no transaction that read that row before the purchase clears the  *)
(* flag, because a session writes the columns it changed.                   *)
THEOREM PaperIsKept == Spec => []PaperKept
<1>1. Init => PaperKept
  BY DEF Init, PaperKept, Bought, Committed
<1>2. Typed /\ RowsInv /\ PaperKept /\ [Next]_vars => PaperKept'
  BY RowsStep, KeptStep
<1>3. QED
  BY <1>1, <1>2, AlwaysRows, PTL DEF Spec

(* A revocation of the bundle that committed last closes it, whatever a     *)
(* concurrent delivery had read: _revoke_entitlement writes an expiry that  *)
(* no row it can have read holds, since no purchased period ends at the     *)
(* instant an event arrives (PaymentsAssumption).                           *)
THEOREM RevocationIsFinal == Spec => []RevocationHolds
<1>1. Init => RevokedInv
  BY DEF Init, RevokedInv, LastDenied
<1>2. Typed /\ RowsInv /\ RevokedInv /\ [Next]_vars => RevokedInv'
  BY RowsStep, RevokedStep
<1>3. Typed /\ RevokedInv => RevocationHolds
  <2> SUFFICES ASSUME Typed, RevokedInv, OneProviderRow, LastDenied, NEW i \in ProviderRows
               PROVE  ~Standing(rows[i])
    BY DEF RevocationHolds, LastDenied
  <2>1. rows[i].expires <= clock /\ rows[i].expires \in Nat /\ clock \in Nat
    BY Provider DEF RevokedInv
  <2>2. QED
    BY <2>1 DEF Standing
<1>4. QED
  BY <1>1, <1>2, <1>3, AlwaysRows, PTL DEF Spec
==============================================================================
