------------------------ MODULE PositionShadowProofs ------------------------
(* Proofs about PositionShadow. *)
EXTENDS PositionShadow, SequenceTheorems, TLAPS

----------------------------------------------------------------------------
(* Names and numbers. *)

LEMMA CallerNames ==
  /\ NoCaller \notin Callers
  /\ \A s \in Slots : Monitor(s) \in Callers /\ Monitor(s)[1] = s
  /\ \A c \in Routing : /\ c \in Callers /\ c[1] \in Slots
                        /\ \A s \in Slots : c # Monitor(s)
  /\ \A c \in Callers : c[1] \in Slots /\ (c \in Routing \/ c = Monitor(c[1]))
<1>1. NoCaller \notin Callers
  BY ShadowAssumption DEF ShadowAssumption, Callers, NoCaller
<1>2. \A s \in Slots : Monitor(s) \in Callers /\ Monitor(s)[1] = s
  BY DEF Callers, Monitor
<1>3. ASSUME NEW c \in Routing
      PROVE  c \in Callers /\ c[1] \in Slots /\ \A s \in Slots : c # Monitor(s)
  <2>1. PICK s \in Slots, k \in Routers : c = <<s, k>>
    BY DEF Routing
  <2>2. k # "monitor"
    BY ShadowAssumption DEF ShadowAssumption
  <2> QED BY <2>1, <2>2 DEF Callers, Monitor
<1>4. ASSUME NEW c \in Callers
      PROVE  c[1] \in Slots /\ (c \in Routing \/ c = Monitor(c[1]))
  <2>1. PICK s \in Slots, k \in Routers \cup {"monitor"} : c = <<s, k>>
    BY DEF Callers
  <2>2. c[1] = s
    BY <2>1
  <2> QED BY <2>1, <2>2 DEF Routing, Monitor
<1> QED BY <1>1, <1>2, <1>3, <1>4

LEMMA UnusedSlot == Unused.slot \notin Slots /\ Unused.owner = NoCaller
BY ShadowAssumption DEF Unused, ShadowAssumption

LEMMA FlatFacts ==
  Flat \in Position /\ Flat.qty = 0 /\ Flat.order = 0 /\ Flat.partial = 0 /\ Flat.reversal = 0
BY ShadowAssumption DEF ShadowAssumption, Flat, Position

LEMMA NoOpFacts == NoOp \in Op /\ NoOp.kind = "none"
BY ShadowAssumption, FlatFacts DEF ShadowAssumption, NoOp, Op

----------------------------------------------------------------------------
(* The shape of operations, calls and rows; n is the number of calls so far. *)

GoodOp(o, n) ==
  /\ o.kind # "none" /\ o.id \in 1..n /\ o.snap.order <= n
  /\ o.kind = "entry" => o.snap.order = o.id
  /\ o.kind \notin {"close", "reversal"} \cup Mirrors => o.snap.qty > 0
  /\ o.kind = "close" => o.snap.qty = 0
  /\ o.snap.qty > 0 <=> o.snap.order > 0

GoodCall(cl, n, ty) ==
  /\ cl.pc \in {"called", "waiting", "answered"} =>
       GoodOp(cl.op, n) /\ (cl.op.kind \in Mirrors <=> ~ty)
  /\ cl.pc \in Decisions => cl.op.kind = "none"
  /\ cl.pc = "answered" <=> cl.out # "none"

GoodRow(r, n) ==
  r = NoRow \/ (r.born \in 1..n /\ r.state # "none" /\ r.snap.order \in 1..n)

GoodPosition(p, n) ==
  p.order \in 0..n /\ p.partial \in 0..n /\ p.reversal \in 0..n /\ (p.qty > 0 <=> p.order > 0)

GoodWorker(wk, n) == wk = Unused \/ (wk.slot \in Slots /\ GoodOp(wk.op, n))

Shape ==
  /\ \A s \in Slots : GoodRow(row[s], calls) /\ GoodPosition(position[s], calls)
  /\ \A c \in Callers : GoodCall(call[c], calls, typed)
  /\ \A w \in Permits : GoodWorker(worker[w], calls)

Owned ==
  \A w \in Permits : LET c == worker[w].owner IN
    c # NoCaller => /\ call[c].pc = "waiting"
                    /\ worker[w].slot = c[1] /\ worker[w].op = call[c].op
                    /\ \A v \in Permits \ {w} : worker[v].owner # c

TypeInv == TypeOK /\ Shape

----------------------------------------------------------------------------
(* What the transactions return. *)

LEMMA DerivedTyped ==
  ASSUME NEW p \in Position
  PROVE  /\ DerivedState(p) \in States \ {"none", "error"}
         /\ DerivedState(p) = "closed" <=> p.qty = 0
BY ShadowAssumption DEF ShadowAssumption, DerivedState, States, Position

LEMMA AppliedTyped ==
  ASSUME NEW p \in Position, NEW r \in Row
  PROVE  /\ Applied(r, p) \in Row
         /\ Applied(r, p).born = r.born /\ Applied(r, p).snap = p
         /\ Applied(r, p).qty = p.qty /\ Applied(r, p).state = DerivedState(p)
BY DerivedTyped DEF Applied, Row, Position

LEMMA NoRowTyped == NoRow \in Row /\ ~Active(NoRow)
BY ShadowAssumption, FlatFacts DEF ShadowAssumption, NoRow, Row, States, Active

LEMMA LesserTyped ==
  ASSUME NEW a \in 0..Lots, NEW b \in 0..Lots
  PROVE  Lesser(a, b) \in 0..Lots
BY DEF Lesser

LEMMA TargetTyped ==
  ASSUME NEW op \in Op, NEW r \in Row, op.kind \notin Mirrors, op.kind # "none"
  PROVE  Target(op, r) \in States /\ (Active(r) \/ op.kind = "entry" => Target(op, r) # "none")
BY DEF Target, Op, Row, Kinds, States, Active, Mirrors

LEMMA ChangedTyped ==
  ASSUME NEW op \in Op, NEW r \in Row, op.kind \notin Mirrors, op.kind # "none",
         Active(r) \/ op.kind = "entry"
  PROVE  LET x == Changed(op, r) IN
         /\ x \in Row /\ x.state = Target(op, r)
         /\ x.born = (IF op.kind = "entry" THEN op.id ELSE r.born)
         /\ x.snap = (IF op.kind \in {"entry", "fill", "pending", "partial", "verified"}
                      THEN op.snap ELSE r.snap)
<1> DEFINE to == Target(op, r)
<1>0. to \in States /\ op.snap \in Position /\ op.id \in 0..Calls /\ 0 \in 0..Lots
  BY TargetTyped, ShadowAssumption DEF ShadowAssumption, Op
<1>1. CASE op.kind = "entry"
  <2>1. Changed(op, r) = [Applied(NoRow, op.snap) EXCEPT !.born = op.id, !.state = to]
    BY <1>1 DEF Changed
  <2>2. Applied(NoRow, op.snap) \in Row /\ Applied(NoRow, op.snap).snap = op.snap
    BY <1>0, NoRowTyped, AppliedTyped
  <2> QED BY <1>0, <1>1, <2>1, <2>2 DEF Row
<1>2. CASE op.kind \in {"fill", "pending"}
  <2>1. Changed(op, r) = [Applied(r, op.snap) EXCEPT !.state = to]
    BY <1>2 DEF Changed
  <2>2. Applied(r, op.snap) \in Row /\ Applied(r, op.snap).snap = op.snap
        /\ Applied(r, op.snap).born = r.born
    BY <1>0, AppliedTyped
  <2> QED BY <1>0, <1>2, <2>1, <2>2 DEF Row
<1>3. CASE op.kind \in {"partial", "verified"}
  <2> DEFINE m == Lesser(r.qty, op.snap.qty)
  <2>1. Changed(op, r) = [Applied(r, op.snap) EXCEPT !.state = to, !.qty = m]
    BY <1>3 DEF Changed
  <2>2. Applied(r, op.snap) \in Row /\ Applied(r, op.snap).snap = op.snap
        /\ Applied(r, op.snap).born = r.born
    BY <1>0, AppliedTyped
  <2>3. m \in 0..Lots
    BY <1>0, LesserTyped DEF Row, Position
  <2> QED BY <1>0, <1>3, <2>1, <2>2, <2>3 DEF Row
<1>4. CASE op.kind = "close"
  <2>1. Changed(op, r) = [r EXCEPT !.state = to, !.qty = 0]
    BY <1>4 DEF Changed
  <2> QED BY <1>0, <1>4, <2>1 DEF Row
<1>5. CASE op.kind \notin {"entry", "fill", "pending", "partial", "verified", "close"}
  <2>1. Changed(op, r) = [r EXCEPT !.state = to]
    BY <1>5 DEF Changed
  <2> QED BY <1>0, <1>5, <2>1 DEF Row
<1> QED BY <1>1, <1>2, <1>3, <1>4, <1>5

\* The state a transaction starts from.
From(r) == IF Active(r) THEN r.state ELSE "none"

\* A typed operation leaves everything alone, or it is accepted and either its
\* event is appended or an equal one was there.
Accepted(op, r) ==
  /\ IF op.kind = "entry" THEN ~Active(r) ELSE Active(r)
  /\ op.kind = "fill" => r.snap.order = op.snap.order
  /\ op.kind = "verified" \/ Target(op, r) \in Allowed[From(r)]

LEMMA TypedCases ==
  ASSUME NEW op \in Op, NEW r \in Row, NEW es, op.kind \notin Mirrors, op.kind # "none"
  PROVE  LET e == TypedWrite(op, r, es)
             x == Changed(op, r)
             ev == Event(x, Key(op, r), From(r), x.state) IN
         \/ /\ e.out \in {"noop", "conflict", "refused"} /\ e.row = r /\ e.log = es
            /\ e.out = "noop" => ~Active(r) /\ op.kind # "entry"
         \/ /\ e.out = "written" /\ Accepted(op, r) /\ e.row = x
            /\ \/ ~Known(es, Key(op, r)) /\ e.log = Append(es, ev)
               \/ /\ \E i \in DOMAIN es : /\ es[i].key = Key(op, r)
                                          /\ es[i].from = From(r) /\ es[i].to = x.state
                  /\ e.log = es
<1> DEFINE x == Changed(op, r)
           ev == Event(x, Key(op, r), From(r), x.state)
           e == TypedWrite(op, r, es)
<1>1. CASE ~Active(r) /\ op.kind # "entry"
  BY <1>1 DEF TypedWrite, Outcome
<1>2. CASE ~(~Active(r) /\ op.kind # "entry") /\ Contradicts(op, r)
  BY <1>2 DEF TypedWrite, Outcome
<1>3. CASE /\ ~(~Active(r) /\ op.kind # "entry") /\ ~Contradicts(op, r)
           /\ op.kind # "verified" /\ Target(op, r) \notin Allowed[From(r)]
  BY <1>3 DEF TypedWrite, Outcome, From
<1>4. CASE /\ ~(~Active(r) /\ op.kind # "entry") /\ ~Contradicts(op, r)
           /\ ~(op.kind # "verified" /\ Target(op, r) \notin Allowed[From(r)])
  <2>1. e = Emitted(r, x, es, Key(op, r), From(r))
    BY <1>4 DEF TypedWrite, From
  <2>2. Accepted(op, r)
    BY <1>4 DEF Accepted, Contradicts
  <2>3. CASE ~Known(es, Key(op, r))
    BY <2>1, <2>2, <2>3 DEF Emitted, Outcome
  <2>4. CASE /\ Known(es, Key(op, r))
             /\ \E i \in DOMAIN es : es[i].key = Key(op, r) /\ es[i].from = From(r) /\ es[i].to = x.state
    BY <2>1, <2>2, <2>4 DEF Emitted, Outcome
  <2>5. CASE /\ Known(es, Key(op, r))
             /\ ~\E i \in DOMAIN es : es[i].key = Key(op, r) /\ es[i].from = From(r) /\ es[i].to = x.state
    BY <2>1, <2>5 DEF Emitted, Outcome
  <2> QED BY <2>3, <2>4, <2>5
<1> QED BY <1>1, <1>2, <1>3, <1>4

\* A mirror leaves everything alone, closes the active row, or makes the row
\* follow the snapshot.
ClosedRow(r) == [r EXCEPT !.state = "closed", !.qty = 0]
Followed(op, r) == Applied(IF Active(r) THEN r ELSE [NoRow EXCEPT !.born = op.id], op.snap)

LEMMA MirrorCases ==
  ASSUME NEW op \in Op, NEW r \in Row, NEW es
  PROVE  LET e == MirrorWrite(op, r, es)
             to == DerivedState(op.snap) IN
         \/ /\ e.out = "noop" /\ e.row = r /\ e.log = es
            /\ IF Active(r) THEN r.snap = op.snap ELSE op.snap.qty = 0
         \/ /\ e.out = "written" /\ op.snap.qty = 0 /\ Active(r) /\ e.row = ClosedRow(r)
            /\ e.log = Appended(es, Event(ClosedRow(r), <<"mirror", r.state, "closed", r.snap>>,
                                          r.state, "closed"))
         \/ /\ e.out = "written" /\ op.snap.qty # 0 /\ e.row = Followed(op, r)
            /\ e.log = Appended(es, Event(Followed(op, r), <<"mirror", From(r), to, op.snap>>,
                                          From(r), to))
<1>0. op.snap \in Position
  BY DEF Op
<1>1. (DerivedState(op.snap) = "closed") <=> op.snap.qty = 0
  BY <1>0, DerivedTyped
<1> DEFINE base == IF Active(r) THEN r ELSE [NoRow EXCEPT !.born = op.id]
           e == MirrorWrite(op, r, es)
           next == IF DerivedState(op.snap) = "closed" THEN ClosedRow(r) ELSE Followed(op, r)
           still == \/ ~Active(r) /\ DerivedState(op.snap) = "closed"
                    \/ Active(r) /\ r.snap = op.snap
           ev == Event(next, <<"mirror", From(r), DerivedState(op.snap), next.snap>>,
                       From(r), DerivedState(op.snap))
<1>2. e = IF still THEN Outcome("noop", r, es) ELSE Outcome("written", next, Appended(es, ev))
  BY DEF MirrorWrite, From, ClosedRow, Followed
<1>3. CASE still
  BY <1>1, <1>2, <1>3 DEF Outcome
<1>4. CASE ~still /\ op.snap.qty = 0
  <2>1. Active(r) /\ next = ClosedRow(r) /\ DerivedState(op.snap) = "closed" /\ From(r) = r.state
    BY <1>1, <1>4 DEF From
  <2>2. next.snap = r.snap
    BY <2>1 DEF ClosedRow, Row
  <2>3. ev = Event(ClosedRow(r), <<"mirror", r.state, "closed", r.snap>>, r.state, "closed")
    BY <2>1, <2>2
  <2>4. e.out = "written" /\ e.row = next /\ e.log = Appended(es, ev)
    BY <1>2, <1>4 DEF Outcome
  <2> QED BY <1>4, <2>1, <2>3, <2>4
<1>5. CASE ~still /\ op.snap.qty # 0
  <2>1. next = Followed(op, r)
    BY <1>1, <1>5
  <2>2. base \in Row
    BY NoRowTyped, ShadowAssumption DEF ShadowAssumption, Row, Op
  <2>3. next.snap = op.snap
    BY <1>0, <2>1, <2>2, AppliedTyped DEF Followed
  <2>4. ev = Event(Followed(op, r), <<"mirror", From(r), DerivedState(op.snap), op.snap>>,
                   From(r), DerivedState(op.snap))
    BY <2>1, <2>3
  <2>5. e.out = "written" /\ e.row = next /\ e.log = Appended(es, ev)
    BY <1>2, <1>5 DEF Outcome
  <2> QED BY <1>5, <2>1, <2>4, <2>5
<1> QED BY <1>3, <1>4, <1>5

LEMMA FollowedTyped ==
  ASSUME NEW op \in Op, NEW r \in Row
  PROVE  /\ Followed(op, r) \in Row /\ ClosedRow(r) \in Row
         /\ Followed(op, r).snap = op.snap /\ Followed(op, r).state = DerivedState(op.snap)
         /\ Followed(op, r).born = (IF Active(r) THEN r.born ELSE op.id)
         /\ ClosedRow(r).born = r.born /\ ClosedRow(r).snap = r.snap /\ ClosedRow(r).state = "closed"
<1> DEFINE base == IF Active(r) THEN r ELSE [NoRow EXCEPT !.born = op.id]
<1>1. base \in Row /\ op.snap \in Position
  BY NoRowTyped DEF Row, Op
<1>2. base.born = (IF Active(r) THEN r.born ELSE op.id)
  BY NoRowTyped DEF Row
<1>3. ClosedRow(r) \in Row
  <2>1. 0 \in 0..Lots /\ "closed" \in States
    BY ShadowAssumption DEF ShadowAssumption, States
  <2> QED BY <2>1 DEF Row, ClosedRow
<1>4. ClosedRow(r).born = r.born /\ ClosedRow(r).snap = r.snap /\ ClosedRow(r).state = "closed"
  BY DEF ClosedRow, Row
<1>5. Followed(op, r) = Applied(base, op.snap)
  BY DEF Followed
<1> HIDE DEF base
<1>6. /\ Followed(op, r) \in Row /\ Followed(op, r).snap = op.snap
      /\ Followed(op, r).state = DerivedState(op.snap) /\ Followed(op, r).born = base.born
  BY <1>1, <1>5, AppliedTyped
<1> QED BY <1>2, <1>3, <1>4, <1>6

LEMMA AppendedTyped ==
  ASSUME NEW es \in Seq(Events), NEW ev \in Events
  PROVE  Appended(es, ev) \in Seq(Events)
BY DEF Appended

LEMMA ActiveRow ==
  ASSUME NEW n, NEW r \in Row, GoodRow(r, n), Active(r)
  PROVE  r # NoRow /\ r.born \in 1..n /\ r.snap.order \in 1..n
BY NoRowTyped DEF GoodRow

LEMMA TypedKey ==
  ASSUME NEW n \in 0..Calls, NEW op \in Op, NEW r \in Row, op.kind \notin Mirrors,
         GoodOp(op, n), GoodRow(r, n), Accepted(op, r)
  PROVE  Key(op, r) \in Kinds \X (1..n)
<1>1. op.kind \in Kinds /\ op.id \in 1..n
  BY DEF Op, GoodOp
<1>2. CASE op.kind \in {"entry", "fill"}
  <2>1. op.snap.order \in 1..n
    BY <1>2, ShadowAssumption DEF ShadowAssumption, GoodOp, Op, Position
  <2> QED BY <1>1, <1>2, <2>1 DEF Key
<1>3. CASE op.kind = "unverified"
  <2>1. r.born \in 1..n
    BY <1>3, ActiveRow DEF Accepted
  <2> QED BY <1>1, <1>3, <2>1 DEF Key
<1>4. CASE op.kind \notin {"entry", "fill", "unverified"}
  BY <1>1, <1>4 DEF Key
<1> QED BY <1>2, <1>3, <1>4

LEMMA AcceptedRow ==
  ASSUME NEW n \in 0..Calls, NEW op \in Op, NEW r \in Row, op.kind \notin Mirrors,
         GoodOp(op, n), GoodRow(r, n), Accepted(op, r)
  PROVE  /\ Changed(op, r) \in Row /\ GoodRow(Changed(op, r), n) /\ Changed(op, r) # NoRow
         /\ Changed(op, r).born = (IF op.kind = "entry" THEN op.id ELSE r.born)
         /\ Changed(op, r).snap = (IF op.kind \in {"entry", "fill", "pending", "partial", "verified"}
                                   THEN op.snap ELSE r.snap)
         /\ Changed(op, r).state = Target(op, r) /\ Target(op, r) # "none"
<1> DEFINE x == Changed(op, r)
<1>0. op.kind # "none" /\ (Active(r) \/ op.kind = "entry")
  BY DEF GoodOp, Accepted
<1>1. /\ x \in Row /\ x.state = Target(op, r)
      /\ x.born = (IF op.kind = "entry" THEN op.id ELSE r.born)
      /\ x.snap = (IF op.kind \in {"entry", "fill", "pending", "partial", "verified"}
                   THEN op.snap ELSE r.snap)
  BY <1>0, ChangedTyped
<1>2. Target(op, r) # "none"
  BY <1>0, TargetTyped
<1> HIDE DEF x
<1>3. x.born \in 1..n
  <2>1. op.kind # "entry" => r.born \in 1..n
    BY ActiveRow DEF Accepted
  <2> QED BY <1>1, <2>1 DEF GoodOp
<1>4. x.snap.order \in 1..n
  <2>1. op.kind \notin {"entry", "fill", "pending", "partial", "verified"} => r.snap.order \in 1..n
    BY ActiveRow DEF Accepted
  <2>2. op.kind \in {"entry", "fill", "pending", "partial", "verified"} => op.snap.order \in 1..n
    BY ShadowAssumption DEF ShadowAssumption, GoodOp, Op, Position
  <2> QED BY <1>1, <2>1, <2>2
<1>5. x # NoRow
  BY <1>1, <1>2 DEF NoRow
<1> QED BY <1>1, <1>2, <1>3, <1>4, <1>5 DEF x, GoodRow

LEMMA EffectTyped ==
  ASSUME NEW n \in 0..Calls, NEW op \in Op, NEW r \in Row, NEW es \in Seq(Events),
         GoodOp(op, n), GoodRow(r, n)
  PROVE  LET e == Effect(op, r, es) IN
         /\ e.out \in (Landed \cup Failed) \ {"none"}
         /\ e.row \in Row /\ GoodRow(e.row, n) /\ e.log \in Seq(Events)
<1> DEFINE e == Effect(op, r, es)
<1>0. 1..n \subseteq 1..Calls /\ op.kind # "none"
  BY ShadowAssumption DEF ShadowAssumption, GoodOp
<1>1. CASE op.kind \notin Mirrors
  <2> DEFINE x == Changed(op, r)
             ev == Event(x, Key(op, r), From(r), x.state)
  <2>1. e = TypedWrite(op, r, es)
    BY <1>1 DEF Effect
  <2>2. CASE e.out \in {"noop", "conflict", "refused"} /\ e.row = r /\ e.log = es
    BY <2>2 DEF Landed, Failed
  <2>3. CASE e.out = "written" /\ Accepted(op, r) /\ e.row = x /\ (e.log = es \/ e.log = Append(es, ev))
    <3>1. x \in Row /\ GoodRow(x, n) /\ x # NoRow
      BY <1>1, <2>3, AcceptedRow
    <3>2. Key(op, r) \in Kinds \X (1..n)
      BY <1>1, <2>3, TypedKey
    <3>3. ev.row = x.born /\ ev.key = Key(op, r) /\ ev.from = From(r) /\ ev.to = x.state
      BY DEF Event
    <3>4. x.born \in 1..Calls /\ From(r) \in States /\ x.state \in States
      BY <1>0, <3>1 DEF GoodRow, From, Row, States
    <3>5. Key(op, r) \in Keys
      BY <1>0, <3>2 DEF Keys
    <3>6. ev \in Events
      BY <3>4, <3>5 DEF Event, Events
    <3> HIDE DEF x, ev
    <3>7. Append(es, ev) \in Seq(Events)
      BY <3>6
    <3> QED BY <2>3, <3>1, <3>7 DEF Landed
  <2> HIDE DEF e
  <2> QED BY <1>0, <1>1, <2>1, <2>2, <2>3, TypedCases
<1>2. CASE op.kind \in Mirrors
  <2> DEFINE to == DerivedState(op.snap)
             f == Followed(op, r)
             k == ClosedRow(r)
             ek == Event(k, <<"mirror", r.state, "closed", r.snap>>, r.state, "closed")
             ef == Event(f, <<"mirror", From(r), to, op.snap>>, From(r), to)
  <2>1. e = MirrorWrite(op, r, es)
    BY <1>2 DEF Effect
  <2>2. CASE e.out = "noop" /\ e.row = r /\ e.log = es
    BY <2>2 DEF Landed
  <2>3. CASE /\ e.out = "written" /\ Active(r) /\ e.row = k /\ e.log = Appended(es, ek)
    <3>1. k \in Row /\ k.born = r.born /\ k.snap = r.snap /\ k.state = "closed"
      BY FollowedTyped
    <3>2. r.born \in 1..n /\ r.snap.order \in 1..n
      BY <2>3, ActiveRow
    <3>3. GoodRow(k, n)
      BY <3>1, <3>2 DEF GoodRow
    <3>4. r.state \in States /\ r.snap \in Position /\ "closed" \in States
      BY DEF Row, States
    <3>5. ek \in Events
      BY <1>0, <3>1, <3>2, <3>4 DEF Event, Events, Keys
    <3> HIDE DEF k, ek
    <3>6. Appended(es, ek) \in Seq(Events)
      BY <3>5, AppendedTyped
    <3> QED BY <2>3, <3>1, <3>3, <3>6 DEF Landed
  <2>4. CASE /\ e.out = "written" /\ op.snap.qty # 0 /\ e.row = f /\ e.log = Appended(es, ef)
    <3>1. /\ f \in Row /\ f.snap = op.snap /\ f.state = to
          /\ f.born = (IF Active(r) THEN r.born ELSE op.id)
      BY FollowedTyped
    <3>2. f.born \in 1..n
      <4>1. Active(r) => r.born \in 1..n
        BY ActiveRow
      <4> QED BY <3>1, <4>1 DEF GoodOp
    <3>3. op.snap \in Position /\ op.snap.order \in 1..n
      BY <2>4, ShadowAssumption DEF ShadowAssumption, GoodOp, Op, Position
    <3>4. to \in States /\ to # "none" /\ From(r) \in States
      BY <3>3, DerivedTyped DEF From, Row, States
    <3> HIDE DEF f, to
    <3>5. GoodRow(f, n)
      BY <3>1, <3>2, <3>3, <3>4 DEF GoodRow
    <3>6. ef \in Events
      BY <1>0, <3>2, <3>3, <3>4 DEF Event, Events, Keys
    <3> HIDE DEF ef
    <3>7. Appended(es, ef) \in Seq(Events)
      BY <3>6, AppendedTyped
    <3> QED BY <2>4, <3>1, <3>5, <3>7 DEF Landed
  <2> HIDE DEF e, k, f, ek, ef, to
  <2>5. \/ e.out = "noop" /\ e.row = r /\ e.log = es
        \/ e.out = "written" /\ Active(r) /\ e.row = k /\ e.log = Appended(es, ek)
        \/ e.out = "written" /\ op.snap.qty # 0 /\ e.row = f /\ e.log = Appended(es, ef)
    BY <2>1, MirrorCases DEF k, f, ek, ef, to
  <2> QED BY <2>2, <2>3, <2>4, <2>5
<1> QED BY <1>1, <1>2

----------------------------------------------------------------------------
(* Type correctness. *)

Breaker == [state: {"CLOSED", "OPEN", "HALF_OPEN"}, failures: 0..Threshold, probe: BOOLEAN]

LEMMA TypeParts ==
  TypeOK <=> /\ typed \in BOOLEAN /\ position \in [Slots -> Position] /\ row \in [Slots -> Row]
             /\ log \in [Slots -> Seq(Events)] /\ breaker \in Breaker
             /\ call \in [Callers -> Call] /\ worker \in [Permits -> Worker] /\ Owned
             /\ missed \subseteq Slots /\ crossed \subseteq Slots
             /\ calls \in 0..Calls /\ faults \in 0..Faults
BY DEF TypeOK, Owned, Breaker

\* A step of the envelope or of the database that leaves the slots alone.
LEMMA SlotsAlone ==
  ASSUME TypeInv, UNCHANGED <<typed, position, row, log, crossed, calls>>,
         breaker' \in Breaker, call' \in [Callers -> Call], worker' \in [Permits -> Worker],
         Owned', missed' \subseteq Slots, faults' \in 0..Faults,
         \A c \in Callers : GoodCall(call'[c], calls, typed),
         \A w \in Permits : GoodWorker(worker'[w], calls)
  PROVE  TypeInv'
<1>1. TypeOK'
  BY TypeParts DEF TypeInv, TypeOK, Owned, Breaker
<1>2. Shape'
  BY DEF TypeInv, Shape
<1> QED BY <1>1, <1>2 DEF TypeInv

\* A caller that does not wait changes its place.
LEMMA OwnedKept ==
  ASSUME Owned, NEW c \in Callers, NEW x, call \in [Callers -> Call], call[c].pc # "waiting",
         call' = [call EXCEPT ![c] = x], worker' = worker,
         worker \in [Permits -> Worker]
  PROVE  Owned'
<1>1. \A w \in Permits : worker[w].owner # NoCaller => worker[w].owner \in Callers
  BY DEF Worker
<1>2. \A w \in Permits : worker[w].owner # NoCaller => worker[w].owner # c
  BY DEF Owned
<1> QED BY <1>1, <1>2 DEF Owned

LEMMA CallAlone ==
  ASSUME TypeInv, NEW c \in Callers, NEW x \in Call, GoodCall(x, calls, typed),
         call[c].pc # "waiting", call' = [call EXCEPT ![c] = x],
         UNCHANGED <<typed, position, row, log, crossed, calls, worker, faults>>,
         breaker' \in Breaker, missed' \subseteq Slots
  PROVE  TypeInv'
<1>1. call' \in [Callers -> Call] /\ \A d \in Callers : GoodCall(call'[d], calls, typed)
  BY TypeParts DEF TypeInv, Shape
<1>2. Owned'
  BY OwnedKept, TypeParts DEF TypeInv
<1>3. worker' \in [Permits -> Worker] /\ faults' \in 0..Faults
      /\ \A w \in Permits : GoodWorker(worker'[w], calls)
  BY TypeParts DEF TypeInv, Shape
<1> QED BY <1>1, <1>2, <1>3, SlotsAlone

LEMMA IdleTyped ==
  /\ Idle \in Call /\ Idle.pc = "idle" /\ Idle.op = NoOp /\ Idle.out = "none"
  /\ \A n : GoodCall(Idle, n, TRUE) /\ GoodCall(Idle, n, FALSE)
BY NoOpFacts DEF Idle, Call, GoodCall, Decisions

\* A caller between two operations.
LEMMA BetweenTyped ==
  ASSUME NEW pc \in Decisions, NEW p \in Position, NEW n, NEW ty
  PROVE  LET x == [Idle EXCEPT !.pc = pc, !.op = [NoOp EXCEPT !.snap = p]] IN
         x \in Call /\ x.pc = pc /\ x.op.kind = "none" /\ GoodCall(x, n, ty)
<1> DEFINE o == [NoOp EXCEPT !.snap = p]
           x == [Idle EXCEPT !.pc = pc, !.op = o]
<1>1. o \in Op /\ o.kind = "none"
  BY NoOpFacts DEF Op
<1> HIDE DEF o
<1>2. x \in Call /\ x.pc = pc /\ x.op = o /\ x.out = "none"
  BY <1>1, IdleTyped DEF Call
<1>3. pc # "answered" /\ pc \notin {"called", "waiting", "answered"}
  BY DEF Decisions
<1> HIDE DEF x
<1>4. x \in Call /\ x.pc = pc /\ x.op.kind = "none" /\ GoodCall(x, n, ty)
  BY <1>1, <1>2, <1>3 DEF GoodCall
<1> QED BY <1>4 DEF x, o

LEMMA ReturnedTyped ==
  ASSUME TypeInv, NEW c \in Callers
  PROVE  /\ Returned(c) \in Call /\ GoodCall(Returned(c), calls, typed)
         /\ Returned(c).pc \in Decisions /\ Returned(c).op = NoOp
<1>1. call[c].next \in Decisions
  BY TypeParts DEF TypeInv, Call
<1>2. /\ Returned(c) = [Idle EXCEPT !.pc = call[c].next]
      /\ Returned(c).pc = call[c].next /\ Returned(c).op = NoOp /\ Returned(c).out = "none"
  BY DEF Returned, Idle
<1>3. Returned(c) \in Call
  BY <1>1, <1>2, IdleTyped DEF Call
<1>4. call[c].next \notin {"called", "waiting", "answered"}
  BY <1>1 DEF Decisions
<1> HIDE DEF Returned
<1> QED BY <1>1, <1>2, <1>3, <1>4, NoOpFacts DEF GoodCall

LEMMA BreakerTyped ==
  ASSUME breaker \in Breaker
  PROVE  Allow \in Breaker /\ Succeeded \in Breaker /\ Tripped \in Breaker
<1>1. Allow \in Breaker
  BY DEF Breaker, Allow
<1>2. Succeeded \in Breaker
  BY ShadowAssumption DEF ShadowAssumption, Breaker, Succeeded
<1>3. Lesser(breaker.failures + 1, Threshold) \in 0..Threshold
  BY ShadowAssumption DEF ShadowAssumption, Breaker, Lesser
<1>4. Tripped \in Breaker
  BY <1>3 DEF Breaker, Tripped
<1> QED BY <1>1, <1>2, <1>4

LEMMA EnvelopeTyped ==
  ASSUME TypeInv, NEW c \in Callers, Envelope(c)
  PROVE  TypeInv'
<1>0. /\ breaker \in Breaker /\ call[c] \in Call /\ missed \cup {c[1]} \subseteq Slots
      /\ GoodCall(call[c], calls, typed) /\ c[1] \in Slots /\ typed \in BOOLEAN
      /\ c # NoCaller /\ Owned
  BY TypeParts, CallerNames DEF TypeInv, Shape
<1>1. CASE Skip(c)
  BY <1>0, <1>1, ReturnedTyped, CallAlone DEF Skip
<1>2. CASE Saturated(c)
  BY <1>0, <1>2, ReturnedTyped, BreakerTyped, CallAlone DEF Saturated
<1>3. CASE Record(c)
  <2>1. breaker' \in Breaker
    BY <1>0, <1>3, BreakerTyped DEF Record
  <2>2. missed' \subseteq Slots
    BY <1>0, <1>3 DEF Record
  <2> QED BY <1>0, <1>3, <2>1, <2>2, ReturnedTyped, CallAlone DEF Record
<1>4. CASE Submit(c)
  <2>1. PICK w \in Permits : /\ worker[w] = Unused
                             /\ worker' = [worker EXCEPT ![w] = [slot |-> c[1], op |-> call[c].op, owner |-> c]]
    BY <1>4 DEF Submit
  <2> DEFINE x == [call[c] EXCEPT !.pc = "waiting"]
             k == [slot |-> c[1], op |-> call[c].op, owner |-> c]
  <2>2. call' = [call EXCEPT ![c] = x] /\ call[c].pc = "called"
    BY <1>4 DEF Submit
  <2>3. x \in Call /\ GoodCall(x, calls, typed) /\ x.pc = "waiting" /\ x.op = call[c].op
    BY <1>0, <2>2 DEF Call, GoodCall, Decisions
  <2>4. k \in Worker /\ GoodWorker(k, calls)
    BY <1>0, <2>2 DEF Worker, Call, GoodWorker, GoodCall
  <2>5. call' \in [Callers -> Call] /\ worker' \in [Permits -> Worker]
    BY <2>1, <2>2, <2>3, <2>4, TypeParts DEF TypeInv
  <2>6. \A d \in Callers : GoodCall(call'[d], calls, typed)
    BY <2>2, <2>3, TypeParts DEF TypeInv, Shape
  <2>7. \A v \in Permits : GoodWorker(worker'[v], calls)
    BY <2>1, <2>4, TypeParts DEF TypeInv, Shape
  <2>8. \A v \in Permits : worker[v].owner # c
    BY <1>0, <2>2 DEF Owned
  <2>9. Owned'
    <3> SUFFICES ASSUME NEW v \in Permits, worker'[v].owner # NoCaller
                 PROVE  LET d == worker'[v].owner IN
                        /\ call'[d].pc = "waiting"
                        /\ worker'[v].slot = d[1] /\ worker'[v].op = call'[d].op
                        /\ \A u \in Permits \ {v} : worker'[u].owner # d
      BY DEF Owned
    <3>1. worker'[w] = k /\ \A u \in Permits \ {w} : worker'[u] = worker[u]
      <4>1. worker \in [Permits -> Worker]
        BY TypeParts DEF TypeInv
      <4> QED BY <2>1, <4>1
    <3>2. call'[c] = x /\ \A d \in Callers \ {c} : call'[d] = call[d]
      BY <2>2, TypeParts DEF TypeInv
    <3>3. CASE v = w
      <4>1. k.owner = c /\ k.slot = c[1] /\ k.op = call[c].op
        OBVIOUS
      <4> HIDE DEF k, x
      <4>2. worker'[v].owner = c /\ worker'[v].slot = c[1] /\ worker'[v].op = call'[c].op
            /\ call'[c].pc = "waiting"
        BY <2>3, <3>1, <3>2, <3>3, <4>1
      <4>3. \A u \in Permits \ {v} : worker'[u].owner # c
        BY <2>8, <3>1, <3>3
      <4> QED BY <4>2, <4>3
    <3>4. CASE v # w
      <4>1. worker[v].owner \in Callers \ {c} /\ worker'[v] = worker[v]
        BY <2>8, <3>1, <3>4, TypeParts DEF TypeInv, Worker
      <4> QED BY <3>1, <3>2, <3>4, <4>1, TypeParts DEF TypeInv, Owned
    <3> QED BY <3>3, <3>4
  <2>10. breaker' \in Breaker /\ missed' \subseteq Slots /\ faults' \in 0..Faults
         /\ UNCHANGED <<typed, position, row, log, crossed, calls>>
    BY <1>0, <1>4, BreakerTyped, TypeParts DEF Submit, TypeInv
  <2> QED BY <2>5, <2>6, <2>7, <2>9, <2>10, SlotsAlone
<1>5. CASE Abandon(c)
  <2> DEFINE x == [call[c] EXCEPT !.pc = "answered", !.out = "budget"]
             W(v) == IF worker[v].owner = c THEN [worker[v] EXCEPT !.owner = NoCaller] ELSE worker[v]
  <2>1. call' = [call EXCEPT ![c] = x] /\ call[c].pc = "waiting" /\ worker' = [v \in Permits |-> W(v)]
    BY <1>5 DEF Abandon
  <2>2. x \in Call /\ GoodCall(x, calls, typed)
    BY <1>0, <2>1 DEF Call, GoodCall, Failed, Decisions
  <2>3. ASSUME NEW v \in Permits
        PROVE  /\ W(v) \in Worker /\ GoodWorker(W(v), calls) /\ W(v).owner # c
               /\ W(v).owner # NoCaller => W(v) = worker[v]
    <3>1. worker[v] \in Worker /\ GoodWorker(worker[v], calls)
      BY TypeParts DEF TypeInv, Shape
    <3>2. CASE worker[v].owner = c
      <4>1. worker[v] # Unused
        BY <3>2, UnusedSlot, CallerNames
      <4> QED BY <3>1, <3>2, <4>1, CallerNames DEF Worker, GoodWorker
    <3> QED BY <3>1, <3>2
  <2>4. call' \in [Callers -> Call] /\ worker' \in [Permits -> Worker]
    BY <2>1, <2>2, <2>3, TypeParts DEF TypeInv
  <2>5. \A d \in Callers : GoodCall(call'[d], calls, typed)
    BY <2>1, <2>2, TypeParts DEF TypeInv, Shape
  <2>6. \A v \in Permits : GoodWorker(worker'[v], calls)
    BY <2>1, <2>3
  <2>7. Owned'
    <3> SUFFICES ASSUME NEW v \in Permits, worker'[v].owner # NoCaller
                 PROVE  LET d == worker'[v].owner IN
                        /\ call'[d].pc = "waiting"
                        /\ worker'[v].slot = d[1] /\ worker'[v].op = call'[d].op
                        /\ \A u \in Permits \ {v} : worker'[u].owner # d
      BY DEF Owned
    <3>1. worker'[v] = worker[v] /\ worker[v].owner \in Callers \ {c}
      BY <2>1, <2>3, TypeParts DEF TypeInv, Worker
    <3>2. call'[worker[v].owner] = call[worker[v].owner]
      BY <2>1, <3>1, TypeParts DEF TypeInv
    <3>3. \A u \in Permits \ {v} : worker'[u].owner # worker[v].owner
      <4> SUFFICES ASSUME NEW u \in Permits \ {v}, worker'[u].owner = worker[v].owner PROVE FALSE
        OBVIOUS
      <4>1. worker'[u] = worker[u]
        BY <2>1, <2>3, <3>1
      <4> QED BY <3>1, <4>1, TypeParts DEF TypeInv, Owned
    <3> QED BY <3>1, <3>2, <3>3, TypeParts DEF TypeInv, Owned
  <2>8. breaker' \in Breaker /\ missed' \subseteq Slots /\ faults' \in 0..Faults
        /\ UNCHANGED <<typed, position, row, log, crossed, calls>>
    BY <1>0, <1>5, TypeParts DEF Abandon, TypeInv
  <2> QED BY <2>4, <2>5, <2>6, <2>7, <2>8, SlotsAlone
<1> QED BY <1>1, <1>2, <1>3, <1>4, <1>5 DEF Envelope

\* The end of a transaction: the permit is free, whoever waits has an answer.
LEMMA AnsweredTyped ==
  ASSUME TypeInv, NEW w \in Permits, worker[w] # Unused,
         NEW out \in Landed \cup Failed, Answered(w, out)
  PROVE  /\ call' \in [Callers -> Call] /\ worker' \in [Permits -> Worker] /\ Owned'
         /\ \A c \in Callers : GoodCall(call'[c], calls, typed)
         /\ \A v \in Permits : GoodWorker(worker'[v], calls)
<1> DEFINE c == worker[w].owner
           x == [call[c] EXCEPT !.pc = "answered", !.out = out]
<1>0. /\ worker \in [Permits -> Worker] /\ call \in [Callers -> Call] /\ Owned
      /\ \A d \in Callers : GoodCall(call[d], calls, typed)
      /\ \A v \in Permits : GoodWorker(worker[v], calls)
      /\ c \in Callers \cup {NoCaller}
  BY TypeParts DEF TypeInv, Shape, Worker
<1>1. worker' = [worker EXCEPT ![w] = Unused]
  BY DEF Answered
<1>2. Unused \in Worker /\ Unused.owner = NoCaller /\ GoodWorker(Unused, calls)
  BY UnusedSlot, NoOpFacts DEF Unused, Worker, GoodWorker
<1>3. worker' \in [Permits -> Worker] /\ \A v \in Permits : GoodWorker(worker'[v], calls)
  BY <1>0, <1>1, <1>2
<1>4. worker'[w].owner = NoCaller /\ \A v \in Permits \ {w} : worker'[v] = worker[v]
  BY <1>0, <1>1, <1>2
<1>5. CASE c = NoCaller
  <2>1. call' = call
    BY <1>5 DEF Answered
  <2>2. Owned'
    <3> SUFFICES ASSUME NEW v \in Permits, worker'[v].owner # NoCaller
                 PROVE  LET d == worker'[v].owner IN
                        /\ call'[d].pc = "waiting"
                        /\ worker'[v].slot = d[1] /\ worker'[v].op = call'[d].op
                        /\ \A u \in Permits \ {v} : worker'[u].owner # d
      BY DEF Owned
    <3>1. worker'[v] = worker[v] /\ v # w
      BY <1>4
    <3>2. \A u \in Permits \ {v} : worker'[u].owner # worker[v].owner
      BY <1>0, <1>4, <3>1 DEF Owned
    <3> QED BY <1>0, <2>1, <3>1, <3>2 DEF Owned
  <2> QED BY <1>0, <1>3, <2>1, <2>2
<1>6. CASE c \in Callers
  <2>1. call' = [call EXCEPT ![c] = x] /\ c # NoCaller
    BY <1>6, CallerNames DEF Answered
  <2>2. x \in Call /\ GoodCall(x, calls, typed)
    <3>1. call[c] \in Call /\ GoodCall(call[c], calls, typed) /\ call[c].pc = "waiting"
      BY <1>0, <1>6, <2>1 DEF Owned
    <3>2. out # "none"
      BY DEF Landed, Failed
    <3> QED BY <3>1, <3>2 DEF Call, GoodCall, Decisions
  <2>3. call' \in [Callers -> Call] /\ \A d \in Callers : GoodCall(call'[d], calls, typed)
    BY <1>0, <2>1, <2>2
  <2>4. Owned'
    <3> SUFFICES ASSUME NEW v \in Permits, worker'[v].owner # NoCaller
                 PROVE  LET d == worker'[v].owner IN
                        /\ call'[d].pc = "waiting"
                        /\ worker'[v].slot = d[1] /\ worker'[v].op = call'[d].op
                        /\ \A u \in Permits \ {v} : worker'[u].owner # d
      BY DEF Owned
    <3>1. worker'[v] = worker[v] /\ v # w
      BY <1>4
    <3>2. worker[v].owner \in Callers \ {c}
      BY <1>0, <2>1, <3>1 DEF Owned, Worker
    <3>3. call'[worker[v].owner] = call[worker[v].owner]
      BY <1>0, <2>1, <3>2
    <3>4. \A u \in Permits \ {v} : worker'[u].owner # worker[v].owner
      BY <1>0, <1>4, <3>1, <3>2 DEF Owned
    <3> QED BY <1>0, <3>1, <3>3, <3>4 DEF Owned
  <2> QED BY <1>3, <2>3, <2>4
<1> QED BY <1>0, <1>5, <1>6

\* What Run runs.
LEMMA RunTyped ==
  ASSUME TypeInv, NEW w \in Permits, worker[w] # Unused
  PROVE  LET s == worker[w].slot
             e == Effect(worker[w].op, row[s], log[s]) IN
         /\ s \in Slots /\ worker[w].op \in Op /\ GoodOp(worker[w].op, calls)
         /\ row[s] \in Row /\ GoodRow(row[s], calls) /\ log[s] \in Seq(Events)
         /\ e.out \in Landed \cup Failed /\ e.row \in Row /\ GoodRow(e.row, calls)
         /\ e.log \in Seq(Events)
<1> DEFINE s == worker[w].slot
<1>1. s \in Slots /\ worker[w].op \in Op /\ GoodOp(worker[w].op, calls)
  BY TypeParts DEF TypeInv, Shape, GoodWorker, Worker
<1>2. row[s] \in Row /\ GoodRow(row[s], calls) /\ log[s] \in Seq(Events) /\ calls \in 0..Calls
  BY <1>1, TypeParts DEF TypeInv, Shape
<1> HIDE DEF s
<1> QED BY <1>1, <1>2, EffectTyped DEF s

LEMMA DatabaseTyped ==
  ASSUME TypeInv, NEW w \in Permits, Run(w) \/ Break(w)
  PROVE  TypeInv'
<1>1. CASE Run(w)
  <2> DEFINE s == worker[w].slot
             e == Effect(worker[w].op, row[s], log[s])
  <2>1. /\ worker[w] # Unused /\ Answered(w, e.out)
        /\ row' = [row EXCEPT ![s] = e.row] /\ log' = [log EXCEPT ![s] = e.log]
        /\ UNCHANGED <<typed, position, breaker, missed, calls, faults>>
    BY <1>1 DEF Run
  <2>2. s \in Slots /\ e.out \in Landed \cup Failed /\ e.row \in Row /\ GoodRow(e.row, calls)
        /\ e.log \in Seq(Events)
    BY <2>1, RunTyped
  <2>3. /\ call' \in [Callers -> Call] /\ worker' \in [Permits -> Worker] /\ Owned'
        /\ \A c \in Callers : GoodCall(call'[c], calls, typed)
        /\ \A v \in Permits : GoodWorker(worker'[v], calls)
    BY <2>1, <2>2, AnsweredTyped
  <2> HIDE DEF s, e
  <2>4. row' \in [Slots -> Row] /\ log' \in [Slots -> Seq(Events)]
        /\ \A t \in Slots : GoodRow(row'[t], calls)
    BY <2>1, <2>2, TypeParts DEF TypeInv, Shape
  <2>5. crossed' \subseteq Slots
    BY <1>1, <2>2, TypeParts DEF Run, TypeInv, s
  <2>6. TypeOK'
    BY <2>1, <2>3, <2>4, <2>5, TypeParts DEF TypeInv, TypeOK, Owned, Breaker
  <2>7. Shape'
    BY <2>1, <2>3, <2>4 DEF TypeInv, Shape
  <2> QED BY <2>6, <2>7 DEF TypeInv
<1>2. CASE Break(w)
  <2>1. PICK out \in {"error", "lock"} : Answered(w, out)
    BY <1>2 DEF Break
  <2>2. out \in Landed \cup Failed /\ worker[w] # Unused /\ faults' \in 0..Faults
    BY <1>2, TypeParts, ShadowAssumption DEF ShadowAssumption, TypeInv, Break, Failed
  <2>3. breaker' \in Breaker /\ missed' \subseteq Slots
        /\ UNCHANGED <<typed, position, row, log, crossed, calls>>
    BY <1>2, TypeParts DEF Break, TypeInv
  <2> QED BY <2>1, <2>2, <2>3, AnsweredTyped, SlotsAlone
<1> QED BY <1>1, <1>2

LEMMA RestartTyped ==
  ASSUME TypeInv, Restart
  PROVE  TypeInv'
<1>1. typed' \in BOOLEAN /\ breaker' \in Breaker /\ faults' \in 0..Faults
  BY TypeParts, BreakerTyped, ShadowAssumption DEF ShadowAssumption, TypeInv, Restart
<1>2. call' = [c \in Callers |-> Idle] /\ worker' = [w \in Permits |-> Unused]
      /\ UNCHANGED <<position, row, log, crossed, calls>>
  BY DEF Restart
<1>3. Unused \in Worker /\ Unused.owner = NoCaller /\ GoodWorker(Unused, calls)
  BY UnusedSlot, NoOpFacts DEF Unused, Worker, GoodWorker
<1>4. missed' \subseteq Slots
  <2>1. \A c \in Callers : c[1] \in Slots
    BY CallerNames
  <2> QED BY <2>1, TypeParts DEF TypeInv, Restart
<1>5. call' \in [Callers -> Call] /\ worker' \in [Permits -> Worker] /\ Owned'
      /\ \A c \in Callers : GoodCall(call'[c], calls, typed')
  <2>1. call' \in [Callers -> Call] /\ \A c \in Callers : GoodCall(call'[c], calls, typed')
    BY <1>1, <1>2, IdleTyped
  <2>2. worker' \in [Permits -> Worker] /\ Owned'
    BY <1>2, <1>3 DEF Owned
  <2> QED BY <2>1, <2>2
<1>6. TypeOK'
  BY <1>1, <1>2, <1>4, <1>5, TypeParts DEF TypeInv, TypeOK, Owned, Breaker
<1>7. Shape'
  BY <1>2, <1>3, <1>5 DEF TypeInv, Shape
<1> QED BY <1>6, <1>7 DEF TypeInv

----------------------------------------------------------------------------
(* The callers and the importer count one more call. *)

LEMMA GoodLater ==
  ASSUME TypeInv, calls' = calls + 1, calls < Calls
  PROVE  /\ calls \in Nat /\ calls' \in 0..Calls /\ calls + 1 \in 1..calls'
         /\ \A s \in Slots : GoodRow(row[s], calls') /\ GoodPosition(position[s], calls')
         /\ \A c \in Callers : GoodCall(call[c], calls', typed)
         /\ \A w \in Permits : GoodWorker(worker[w], calls')
<1>1. calls \in Nat /\ calls' \in 0..Calls /\ calls + 1 \in 1..calls' /\ 1..calls \subseteq 1..calls'
  BY TypeParts, ShadowAssumption DEF ShadowAssumption, TypeInv
<1>2. \A s \in Slots : GoodRow(row[s], calls') /\ GoodPosition(position[s], calls')
  BY <1>1 DEF TypeInv, Shape, GoodRow, GoodPosition
<1>3. \A o \in Op : GoodOp(o, calls) => GoodOp(o, calls')
  <2>1. \A o \in Op : o.snap.order \in Nat
    BY ShadowAssumption DEF ShadowAssumption, Op, Position
  <2> QED BY <1>1, <2>1 DEF GoodOp
<1>4. \A c \in Callers : call[c].op \in Op
  BY TypeParts DEF TypeInv, Call
<1>5. \A w \in Permits : worker[w].op \in Op
  BY TypeParts DEF TypeInv, Worker
<1> QED BY <1>1, <1>2, <1>3, <1>4, <1>5 DEF TypeInv, Shape, GoodCall, GoodWorker

LEMMA ImportTyped ==
  ASSUME TypeInv, NEW s \in Slots, Import(s)
  PROVE  TypeInv'
<1> DEFINE r == row[s]
           base == IF Active(r) THEN r ELSE [NoRow EXCEPT !.born = calls + 1]
           next == [Applied(base, position[s]) EXCEPT !.imported = TRUE]
           from == IF Active(r) THEN r.state ELSE "none"
           ev == Event(next, <<"import", position[s]>>, from, next.state)
<1>1. /\ calls < Calls /\ calls' = calls + 1 /\ Open(s)
      /\ row' = [row EXCEPT ![s] = next] /\ log' = [log EXCEPT ![s] = Appended(log[s], ev)]
      /\ UNCHANGED <<typed, position, breaker, call, worker, missed, crossed, faults>>
  BY DEF Import
<1>2. /\ r \in Row /\ log[s] \in Seq(Events) /\ position[s] \in Position
      /\ GoodRow(r, calls) /\ GoodPosition(position[s], calls)
  BY TypeParts DEF TypeInv, Shape
<1>3. /\ calls \in Nat /\ calls' \in 0..Calls /\ calls + 1 \in 1..calls'
      /\ \A t \in Slots : GoodRow(row[t], calls') /\ GoodPosition(position[t], calls')
      /\ \A c \in Callers : GoodCall(call[c], calls', typed)
      /\ \A w \in Permits : GoodWorker(worker[w], calls')
  BY <1>1, GoodLater
<1>4. base \in Row /\ base.born \in 1..calls'
  <2>1. Active(r) => r.born \in 1..calls'
    BY <1>2, <1>3, ActiveRow
  <2>2. calls + 1 \in 0..Calls
    BY <1>1, <1>3
  <2> QED BY <1>2, <1>3, <2>1, <2>2, NoRowTyped DEF Row
<1> HIDE DEF base
<1>5. /\ next \in Row /\ next.born = base.born /\ next.snap = position[s]
      /\ next.state = DerivedState(position[s])
  <2>1. Applied(base, position[s]) \in Row
    BY <1>2, <1>4, AppliedTyped
  <2> QED BY <1>2, <1>4, <2>1, AppliedTyped DEF Row
<1>6. next.state \in States \ {"none", "error", "closed"} /\ position[s].order \in 1..calls'
  BY <1>1, <1>2, <1>3, <1>5, DerivedTyped, ShadowAssumption
  DEF Open, GoodPosition, ShadowAssumption, Position
<1>7. GoodRow(next, calls')
  BY <1>4, <1>5, <1>6 DEF GoodRow
<1>8. ev \in Events
  <2>1. next.born \in 1..Calls /\ from \in States
    BY <1>2, <1>3, <1>4, <1>5 DEF Row, States
  <2> QED BY <1>2, <1>6, <2>1 DEF Event, Events, Keys
<1> HIDE DEF next, ev
<1>9. row' \in [Slots -> Row] /\ log' \in [Slots -> Seq(Events)]
      /\ \A t \in Slots : GoodRow(row'[t], calls')
  <2>1. Appended(log[s], ev) \in Seq(Events)
    BY <1>2, <1>8, AppendedTyped
  <2> QED BY <1>1, <1>3, <1>5, <1>7, <2>1, TypeParts DEF TypeInv
<1>10. TypeOK'
  BY <1>1, <1>3, <1>9, TypeParts DEF TypeInv, TypeOK, Owned, Breaker
<1>11. Shape'
  BY <1>1, <1>3, <1>9 DEF TypeInv, Shape
<1> QED BY <1>10, <1>11 DEF TypeInv

\* What a caller sets out to do: the operation, the position it leaves and what
\* the caller decides once it returns.
Sets(c, kind, p, next) ==
  /\ Calling(c, kind, p, next) /\ LockFree
  /\ position' = [position EXCEPT ![c[1]] = p]

\* The position c finds.
Found(c) == position[c[1]]

LEMMA EnterSets ==
  ASSUME TypeInv, NEW c \in Routing, Enter(c)
  PROVE  /\ call[c].pc = "entry"
         /\ \E p \in Position : /\ Sets(c, IF typed THEN "entry" ELSE "mirror", p, "idle")
                                /\ p.order = calls + 1 /\ p.qty > 0
                                /\ p.partial = 0 /\ p.reversal = 0
<1>1. PICK priced \in BOOLEAN :
        Write(c, "entry", FALSE, [Flat EXCEPT !.order = calls + 1, !.qty = Lots, !.priced = priced], "idle")
  BY DEF Enter
<1> DEFINE p == [Flat EXCEPT !.order = calls + 1, !.qty = Lots, !.priced = priced]
<1>2. calls + 1 \in 0..Calls /\ Lots \in 0..Lots /\ Lots > 0
  BY <1>1, TypeParts, ShadowAssumption DEF ShadowAssumption, TypeInv, Write, Calling
<1>3. p \in Position /\ p.order = calls + 1 /\ p.qty = Lots /\ p.partial = 0 /\ p.reversal = 0
  BY <1>2, FlatFacts DEF Position
<1> HIDE DEF p
<1>4. Sets(c, IF typed THEN "entry" ELSE "mirror", p, "idle")
  BY <1>1 DEF p, Write, Mirrored, Sets
<1> QED BY <1>2, <1>3, <1>4 DEF Enter

LEMMA FillSets ==
  ASSUME TypeInv, NEW s \in Slots, FillSynced(s)
  PROVE  /\ call[Monitor(s)].pc = "idle" /\ Open(s) /\ ~position[s].priced
         /\ \E p \in Position : /\ Sets(Monitor(s), IF typed THEN "fill" ELSE "patch", p, "idle")
                                /\ p.order = position[s].order /\ p.qty = position[s].qty
                                /\ p.priced /\ p.reversal = position[s].reversal
                                /\ p.partial = position[s].partial
<1> DEFINE p == [position[s] EXCEPT !.priced = TRUE]
<1>1. /\ p \in Position /\ p.order = position[s].order /\ p.qty = position[s].qty
      /\ p.priced /\ p.reversal = position[s].reversal /\ p.partial = position[s].partial
  BY TypeParts DEF TypeInv, Position
<1>2. Write(Monitor(s), "fill", TRUE, p, "idle")
  BY DEF FillSynced
<1> HIDE DEF p
<1>3. Sets(Monitor(s), IF typed THEN "fill" ELSE "patch", p, "idle")
  BY <1>2 DEF Write, Mirrored, Sets
<1> QED BY <1>1, <1>3 DEF FillSynced

LEMMA PartialSets ==
  ASSUME TypeInv, NEW c \in Routing, PartialExit(c)
  PROVE  /\ call[c].pc = "exit" /\ Open(c[1])
         /\ \E p \in Position : /\ Sets(c, IF typed THEN "partial" ELSE "patch", p, "idle")
                                /\ p.order = Found(c).order /\ p.qty > 0
                                /\ p.partial = calls + 1 /\ p.reversal = Found(c).reversal
                                /\ p.priced = Found(c).priced
<1> DEFINE q == call[c].op.snap.qty - 1
           p == [Found(c) EXCEPT !.qty = q, !.partial = calls + 1]
<1>1. Write(c, "partial", TRUE, p, "idle") /\ call[c].op.snap.qty > 1 /\ Open(c[1])
  BY DEF PartialExit, Same, Found
<1>2. Found(c) \in Position /\ call[c].op.snap \in Position /\ calls + 1 \in 0..Calls
  BY <1>1, CallerNames, TypeParts, ShadowAssumption
  DEF ShadowAssumption, TypeInv, Found, Call, Op, Write, Calling
<1>3. q \in 0..Lots /\ q > 0
  BY <1>1, <1>2, ShadowAssumption DEF ShadowAssumption, Position
<1> HIDE DEF q
<1>4. /\ p \in Position /\ p.order = Found(c).order /\ p.qty = q /\ p.partial = calls + 1
      /\ p.reversal = Found(c).reversal /\ p.priced = Found(c).priced
  BY <1>2, <1>3 DEF Position
<1> HIDE DEF p
<1>5. Sets(c, IF typed THEN "partial" ELSE "patch", p, "idle")
  BY <1>1 DEF Write, Mirrored, Sets
<1> QED BY <1>1, <1>3, <1>4, <1>5 DEF PartialExit

LEMMA CloseSets ==
  ASSUME TypeInv, NEW c \in Routing, Close(c)
  PROVE  /\ call[c].pc \in {"exit", "leg"}
         /\ \E kind \in (IF typed THEN {"close"} ELSE Mirrors), next \in {"idle", "entry"} :
              Sets(c, kind, Flat, next)
<1>1. PICK cas \in BOOLEAN : Write(c, "close", cas, Flat, IF call[c].pc = "leg" THEN "entry" ELSE "idle")
  BY DEF Close
<1>2. Mirrored("close", cas) \in (IF typed THEN {"close"} ELSE Mirrors)
  BY TypeParts DEF TypeInv, Mirrored, Mirrors
<1> QED BY <1>1, <1>2 DEF Close, Write, Sets

LEMMA PendingSets ==
  ASSUME TypeInv, NEW c \in Routing, ExitPending(c)
  PROVE  /\ call[c].pc = "leg" /\ Open(c[1])
         /\ \E p \in Position : /\ Sets(c, IF typed THEN "pending" ELSE "mirror", p, "idle")
                                /\ p.order = Found(c).order /\ p.qty > 0
                                /\ p.reversal = calls + 1 /\ p.partial = Found(c).partial
                                /\ p.priced = Found(c).priced
<1> DEFINE p == [Found(c) EXCEPT !.reversal = calls + 1]
<1>1. Write(c, "pending", FALSE, p, "idle") /\ Open(c[1])
  BY DEF ExitPending, Found
<1>2. Found(c) \in Position /\ calls + 1 \in 0..Calls
  BY <1>1, CallerNames, TypeParts, ShadowAssumption
  DEF ShadowAssumption, TypeInv, Found, Write, Calling
<1>3. /\ p \in Position /\ p.order = Found(c).order /\ p.qty = Found(c).qty /\ p.reversal = calls + 1
      /\ p.partial = Found(c).partial /\ p.priced = Found(c).priced
  BY <1>2 DEF Position
<1> HIDE DEF p
<1>4. Sets(c, IF typed THEN "pending" ELSE "mirror", p, "idle")
  BY <1>1 DEF Write, Mirrored, Sets
<1> QED BY <1>1, <1>3, <1>4 DEF ExitPending, Open, Found

\* The steps that leave the position as it is and tell the database.
Tells(c) == (MarkReversal(c) /\ typed) \/ Reconcile(c)

LEMMA TellsSets ==
  ASSUME TypeInv, NEW c \in Routing, Tells(c)
  PROVE  /\ call[c].pc \in {"exit", "idle"} /\ typed
         /\ \E kind \in {"reversal", "verified", "unverified"}, next \in {"idle", "leg"} :
              /\ Sets(c, kind, Found(c), next)
              /\ kind # "reversal" => Open(c[1])
<1>1. position' = position /\ LockFree /\ typed
  BY DEF Tells, MarkReversal, Reconcile
<1>2. position' = [position EXCEPT ![c[1]] = Found(c)]
  BY <1>1, TypeParts DEF TypeInv, Found
<1>3. CASE MarkReversal(c)
  <2>1. Calling(c, "reversal", Found(c), "leg") /\ call[c].pc = "exit"
    BY <1>1, <1>3 DEF MarkReversal, Found
  <2> QED BY <1>1, <1>2, <2>1 DEF Sets
<1>4. CASE Reconcile(c)
  <2>1. PICK kind \in {"verified", "unverified"} : Calling(c, kind, Found(c), "idle")
    BY <1>4 DEF Reconcile, Found
  <2>2. call[c].pc = "idle" /\ Open(c[1])
    BY <1>4 DEF Reconcile
  <2> QED BY <1>1, <1>2, <2>1, <2>2 DEF Sets
<1> QED BY <1>3, <1>4 DEF Tells

\* What every such step has in common, and the kinds of step there are.
Enters(kind, p) ==
  /\ kind \in {"entry", "mirror"} /\ p.order = calls + 1 /\ p.qty > 0
  /\ p.partial = 0 /\ p.reversal = 0
Fills(c, kind, p) ==
  /\ kind \in {"fill", "patch"} /\ c = Monitor(c[1]) /\ Open(c[1]) /\ ~Found(c).priced
  /\ p.order = Found(c).order /\ p.qty = Found(c).qty /\ p.priced
  /\ p.reversal = Found(c).reversal /\ p.partial = Found(c).partial
Trims(kind, c, p) ==
  /\ kind \in {"partial", "pending"} \cup Mirrors
  /\ p.order = Found(c).order /\ p.qty > 0 /\ Open(c[1]) /\ p.priced = Found(c).priced
  /\ \/ p.partial = calls + 1 /\ p.reversal = Found(c).reversal
     \/ p.reversal = calls + 1 /\ p.partial = Found(c).partial
Clears(kind, p) == kind \in {"close"} \cup Mirrors /\ p = Flat
Marks(kind, c, p) ==
  /\ kind \in {"reversal", "verified", "unverified"} /\ p = Found(c)
  /\ kind # "reversal" => Open(c[1])

Intends(c, kind, p) ==
  /\ kind \in Mirrors <=> ~typed
  /\ \/ c \in Routing /\ (Enters(kind, p) \/ Trims(kind, c, p) \/ Clears(kind, p) \/ Marks(kind, c, p))
     \/ Fills(c, kind, p)

\* The steps that call the database, and those of a router that do not.
Acts(c) ==
  \/ c \in Routing /\ (Enter(c) \/ PartialExit(c) \/ Close(c) \/ ExitPending(c) \/ Tells(c))
  \/ c = Monitor(c[1]) /\ FillSynced(c[1])
Thinks(c) == c \in Routing /\ (Decide(c) \/ GiveUp(c) \/ (MarkReversal(c) /\ ~typed))

LEMMA CallerSets ==
  ASSUME TypeInv, NEW c \in Callers, Acts(c)
  PROVE  /\ call[c].pc \in Decisions
         /\ \E kind \in Kinds \cup Mirrors, p \in Position, next \in Decisions :
              Sets(c, kind, p, next) /\ Intends(c, kind, p)
<1>0. typed \in BOOLEAN /\ Found(c) \in Position /\ {"idle", "entry", "leg", "exit"} = Decisions
  BY CallerNames, TypeParts DEF TypeInv, Found, Decisions
<1>1. ASSUME c \in Routing, Enter(c)
      PROVE  \E kind \in Kinds \cup Mirrors, p \in Position : Sets(c, kind, p, "idle") /\ Intends(c, kind, p)
  <2>1. PICK p \in Position : /\ Sets(c, IF typed THEN "entry" ELSE "mirror", p, "idle")
                              /\ p.order = calls + 1 /\ p.qty > 0
                              /\ p.partial = 0 /\ p.reversal = 0
    BY <1>1, EnterSets
  <2> DEFINE k == IF typed THEN "entry" ELSE "mirror"
  <2>2. k \in Kinds \cup Mirrors /\ Intends(c, k, p)
    BY <1>0, <1>1, <2>1 DEF Kinds, Mirrors, Intends, Enters
  <2> QED BY <2>1, <2>2
<1>2. ASSUME c = Monitor(c[1]), FillSynced(c[1])
      PROVE  \E kind \in Kinds \cup Mirrors, p \in Position : Sets(c, kind, p, "idle") /\ Intends(c, kind, p)
  <2>0. c[1] \in Slots
    BY CallerNames
  <2>1. PICK p \in Position : /\ Sets(c, IF typed THEN "fill" ELSE "patch", p, "idle")
                              /\ p.order = Found(c).order /\ p.qty = Found(c).qty
                              /\ p.priced /\ p.reversal = Found(c).reversal
                              /\ p.partial = Found(c).partial
    BY <1>2, <2>0, FillSets DEF Found
  <2>2. Open(c[1]) /\ ~Found(c).priced
    BY <1>2, <2>0, FillSets DEF Found
  <2> DEFINE k == IF typed THEN "fill" ELSE "patch"
  <2>3. k \in Kinds \cup Mirrors /\ Intends(c, k, p)
    BY <1>0, <1>2, <2>1, <2>2 DEF Kinds, Mirrors, Intends, Fills
  <2> QED BY <2>1, <2>3
<1>3. ASSUME c \in Routing, PartialExit(c)
      PROVE  \E kind \in Kinds \cup Mirrors, p \in Position : Sets(c, kind, p, "idle") /\ Intends(c, kind, p)
  <2>1. PICK p \in Position : /\ Sets(c, IF typed THEN "partial" ELSE "patch", p, "idle")
                              /\ p.order = Found(c).order /\ p.qty > 0 /\ p.partial = calls + 1
                              /\ p.reversal = Found(c).reversal /\ p.priced = Found(c).priced
    BY <1>3, PartialSets
  <2> DEFINE k == IF typed THEN "partial" ELSE "patch"
  <2>2. k \in Kinds \cup Mirrors /\ Intends(c, k, p)
    BY <1>0, <1>3, <2>1, PartialSets DEF Kinds, Mirrors, Intends, Trims
  <2> QED BY <2>1, <2>2
<1>4. ASSUME c \in Routing, Close(c)
      PROVE  \E kind \in Kinds \cup Mirrors, p \in Position, next \in {"idle", "entry"} :
               Sets(c, kind, p, next) /\ Intends(c, kind, p)
  <2>1. PICK kind \in (IF typed THEN {"close"} ELSE Mirrors), next \in {"idle", "entry"} :
          Sets(c, kind, Flat, next)
    BY <1>4, CloseSets
  <2>2. kind \in Kinds \cup Mirrors /\ Intends(c, kind, Flat)
    BY <1>0, <1>4, <2>1 DEF Kinds, Mirrors, Intends, Clears
  <2> QED BY <2>1, <2>2, FlatFacts
<1>5. ASSUME c \in Routing, ExitPending(c)
      PROVE  \E kind \in Kinds \cup Mirrors, p \in Position : Sets(c, kind, p, "idle") /\ Intends(c, kind, p)
  <2>1. PICK p \in Position : /\ Sets(c, IF typed THEN "pending" ELSE "mirror", p, "idle")
                              /\ p.order = Found(c).order /\ p.qty > 0 /\ p.reversal = calls + 1
                              /\ p.partial = Found(c).partial /\ p.priced = Found(c).priced
    BY <1>5, PendingSets
  <2> DEFINE k == IF typed THEN "pending" ELSE "mirror"
  <2>2. k \in Kinds \cup Mirrors /\ Intends(c, k, p)
    BY <1>0, <1>5, <2>1, PendingSets DEF Kinds, Mirrors, Intends, Trims
  <2> QED BY <2>1, <2>2
<1>6. ASSUME c \in Routing, Tells(c)
      PROVE  \E kind \in Kinds \cup Mirrors, p \in Position, next \in {"idle", "leg"} :
               Sets(c, kind, p, next) /\ Intends(c, kind, p)
  <2>1. PICK kind \in {"reversal", "verified", "unverified"}, next \in {"idle", "leg"} :
          Sets(c, kind, Found(c), next) /\ (kind # "reversal" => Open(c[1]))
    BY <1>6, TellsSets
  <2>2. kind \in Kinds \cup Mirrors /\ Intends(c, kind, Found(c))
    BY <1>6, <2>1, TellsSets DEF Kinds, Mirrors, Intends, Marks
  <2> QED BY <1>0, <2>1, <2>2
<1>7. call[c].pc \in Decisions
  BY CallerNames DEF Acts, Enter, PartialExit, Close, ExitPending, Tells, MarkReversal, Reconcile,
     FillSynced, Decisions
<1> QED BY <1>0, <1>1, <1>2, <1>3, <1>4, <1>5, <1>6, <1>7 DEF Acts

LEMMA ThinksTurns ==
  ASSUME TypeInv, NEW c \in Callers, Thinks(c)
  PROVE  /\ call[c].pc \in Decisions
         /\ \E pc \in Decisions, p \in Position : Turns(c, pc, p)
<1>1. Found(c) \in Position /\ Flat \in Position
  BY CallerNames, FlatFacts, TypeParts DEF TypeInv, Found
<1>2. CASE Decide(c)
  BY <1>1, <1>2 DEF Decide, Found, Decisions
<1>3. CASE GiveUp(c)
  BY <1>1, <1>3 DEF GiveUp, Decisions
<1>4. CASE MarkReversal(c) /\ ~typed
  BY <1>1, <1>4 DEF MarkReversal, Decisions
<1> QED BY <1>2, <1>3, <1>4 DEF Thinks

LEMMA CallerTyped ==
  ASSUME TypeInv, NEW c \in Callers, Acts(c)
  PROVE  TypeInv'
<1>1. call[c].pc \in Decisions
  BY CallerSets
<1>2. PICK kind \in Kinds \cup Mirrors, p \in Position, next \in Decisions :
        Sets(c, kind, p, next) /\ Intends(c, kind, p)
  BY CallerSets
<1> DEFINE o == [kind |-> kind, id |-> calls + 1, snap |-> p]
           x == [pc |-> "called", out |-> "none", next |-> next, op |-> o]
<1>3. /\ calls < Calls /\ calls' = calls + 1 /\ call' = [call EXCEPT ![c] = x]
      /\ position' = [position EXCEPT ![c[1]] = p]
      /\ UNCHANGED <<typed, row, log, breaker, worker, missed, crossed, faults>>
  BY <1>2 DEF Sets, Calling
<1>4. /\ calls \in Nat /\ calls' \in 0..Calls /\ calls + 1 \in 1..calls'
      /\ \A t \in Slots : GoodRow(row[t], calls') /\ GoodPosition(position[t], calls')
      /\ \A d \in Callers : GoodCall(call[d], calls', typed)
      /\ \A w \in Permits : GoodWorker(worker[w], calls')
  BY <1>3, GoodLater
<1>5. o \in Op
  BY <1>3, <1>4 DEF Op
<1>6. x \in Call
  BY <1>5 DEF Call
<1>7. p.order \in Nat /\ p.qty \in Nat /\ GoodPosition(Found(c), calls')
  BY <1>4, CallerNames, ShadowAssumption DEF ShadowAssumption, Position, Found
<1>8. GoodPosition(p, calls')
  BY <1>2, <1>3, <1>4, <1>7, FlatFacts
  DEF Intends, Enters, Fills, Trims, Clears, Marks, GoodPosition, Open, Found
<1>9. GoodOp(o, calls')
  <2>1. o.kind = kind /\ o.id = calls + 1 /\ o.snap = p
    OBVIOUS
  <2>2. kind # "none"
    BY DEF Kinds, Mirrors
  <2>3. kind = "entry" => p.order = calls + 1
    BY <1>2 DEF Intends, Enters, Fills, Trims, Clears, Marks, Mirrors
  <2>4. kind \notin {"close", "reversal"} \cup Mirrors => p.qty > 0
    BY <1>2, <1>7 DEF Intends, Enters, Fills, Trims, Clears, Marks, Open, Found
  <2>5. kind = "close" => p.qty = 0
    BY <1>2, FlatFacts DEF Intends, Enters, Fills, Trims, Clears, Marks, Mirrors
  <2>6. p.order <= calls' /\ (p.qty > 0 <=> p.order > 0)
    BY <1>4, <1>8 DEF GoodPosition
  <2> HIDE DEF o
  <2> QED BY <1>4, <2>1, <2>2, <2>3, <2>4, <2>5, <2>6 DEF GoodOp
<1>10. GoodCall(x, calls', typed)
  <2>1. x.pc = "called" /\ x.op = o /\ x.out = "none" /\ o.kind = kind
    OBVIOUS
  <2>2. kind \in Mirrors <=> ~typed
    BY <1>2 DEF Intends
  <2> HIDE DEF x, o
  <2> QED BY <1>9, <2>1, <2>2 DEF GoodCall, Decisions
<1> HIDE DEF o, x
<1>11. call' \in [Callers -> Call] /\ \A d \in Callers : GoodCall(call'[d], calls', typed)
  BY <1>3, <1>4, <1>6, <1>10, TypeParts DEF TypeInv
<1>12. position' \in [Slots -> Position] /\ \A t \in Slots : GoodPosition(position'[t], calls')
  BY <1>3, <1>4, <1>8, TypeParts DEF TypeInv
<1>13. Owned'
  <2>1. call[c].pc # "waiting"
    BY <1>1 DEF Decisions
  <2> QED BY <1>3, <2>1, OwnedKept, TypeParts DEF TypeInv
<1>14. TypeOK'
  BY <1>3, <1>4, <1>11, <1>12, <1>13, TypeParts DEF TypeInv, TypeOK, Owned, Breaker
<1>15. Shape'
  BY <1>3, <1>4, <1>11, <1>12 DEF TypeInv, Shape
<1> QED BY <1>14, <1>15 DEF TypeInv

LEMMA ThinksTyped ==
  ASSUME TypeInv, NEW c \in Callers, Thinks(c)
  PROVE  TypeInv'
<1>1. PICK pc \in Decisions, p \in Position : Turns(c, pc, p)
  BY ThinksTurns
<1> DEFINE x == [Idle EXCEPT !.pc = pc, !.op = [NoOp EXCEPT !.snap = p]]
<1>2. x \in Call /\ GoodCall(x, calls, typed)
  BY BetweenTyped
<1>3. /\ call' = [call EXCEPT ![c] = x]
      /\ UNCHANGED <<typed, position, row, log, breaker, worker, missed, crossed, calls, faults>>
  BY <1>1 DEF Turns
<1>4. breaker' \in Breaker /\ missed' \subseteq Slots /\ call[c].pc # "waiting"
  BY <1>3, ThinksTurns, TypeParts DEF TypeInv, Decisions
<1> HIDE DEF x
<1> QED BY <1>2, <1>3, <1>4, CallAlone

LEMMA InitTyped == Init => TypeInv
<1> SUFFICES ASSUME Init PROVE TypeInv
  OBVIOUS
<1>1. /\ typed \in BOOLEAN /\ position = [s \in Slots |-> Flat] /\ row = [s \in Slots |-> NoRow]
      /\ log = [s \in Slots |-> <<>>] /\ breaker = Succeeded /\ call = [c \in Callers |-> Idle]
      /\ worker = [w \in Permits |-> Unused] /\ missed = {} /\ crossed = {}
      /\ calls = 0 /\ faults = 0
  BY DEF Init
<1>2. Unused \in Worker /\ Unused.owner = NoCaller /\ GoodWorker(Unused, calls)
  BY UnusedSlot, NoOpFacts DEF Unused, Worker, GoodWorker
<1>3. breaker \in Breaker
  BY <1>1, ShadowAssumption DEF ShadowAssumption, Breaker, Succeeded
<1>4. Owned /\ worker \in [Permits -> Worker]
  BY <1>1, <1>2 DEF Owned
<1>5. call \in [Callers -> Call] /\ \A c \in Callers : GoodCall(call[c], calls, typed)
  BY <1>1, IdleTyped
<1>6. position \in [Slots -> Position] /\ row \in [Slots -> Row] /\ log \in [Slots -> Seq(Events)]
      /\ \A s \in Slots : GoodRow(row[s], calls) /\ GoodPosition(position[s], calls)
  BY <1>1, FlatFacts, NoRowTyped DEF GoodRow, GoodPosition
<1>7. missed \subseteq Slots /\ crossed \subseteq Slots /\ calls \in 0..Calls /\ faults \in 0..Faults
  BY <1>1, ShadowAssumption DEF ShadowAssumption
<1>8. TypeOK
  BY <1>1, <1>3, <1>4, <1>5, <1>6, <1>7, TypeParts
<1>9. Shape
  BY <1>1, <1>2, <1>5, <1>6 DEF Shape
<1> QED BY <1>8, <1>9 DEF TypeInv

\* The kinds of step there are.
LEMMA Steps ==
  [Next]_vars => \/ UNCHANGED vars
                 \/ \E c \in Callers : Acts(c) \/ Thinks(c) \/ Envelope(c)
                 \/ \E s \in Slots : Import(s)
                 \/ \E w \in Permits : Run(w) \/ Break(w)
                 \/ Restart
<1> SUFFICES ASSUME Next
             PROVE  \/ \E c \in Callers : Acts(c) \/ Thinks(c) \/ Envelope(c)
                    \/ \E s \in Slots : Import(s)
                    \/ \E w \in Permits : Run(w) \/ Break(w)
                    \/ Restart
  OBVIOUS
<1>1. ASSUME NEW c \in Routing,
             \/ Decide(c) \/ GiveUp(c) \/ Enter(c) \/ PartialExit(c) \/ Close(c)
             \/ MarkReversal(c) \/ ExitPending(c) \/ Reconcile(c)
      PROVE  c \in Callers /\ (Acts(c) \/ Thinks(c))
  BY <1>1, CallerNames DEF Acts, Thinks, Tells
<1>2. ASSUME NEW s \in Slots, FillSynced(s)
      PROVE  Monitor(s) \in Callers /\ Acts(Monitor(s))
  BY <1>2, CallerNames DEF Acts
<1> QED BY <1>1, <1>2 DEF Next

LEMMA NextTyped == TypeInv /\ [Next]_vars => TypeInv'
<1> SUFFICES ASSUME TypeInv, [Next]_vars PROVE TypeInv'
  OBVIOUS
<1>1. CASE UNCHANGED vars
  BY <1>1 DEF vars, TypeInv, TypeOK, Shape
<1>2. CASE \E c \in Callers : Acts(c) \/ Thinks(c) \/ Envelope(c)
  BY <1>2, CallerTyped, ThinksTyped, EnvelopeTyped
<1>3. CASE \E s \in Slots : Import(s)
  BY <1>3, ImportTyped
<1>4. CASE \E w \in Permits : Run(w) \/ Break(w)
  BY <1>4, DatabaseTyped
<1>5. CASE Restart
  BY <1>5, RestartTyped
<1> QED BY <1>1, <1>2, <1>3, <1>4, <1>5, Steps

(* Every variable keeps its type, however the callers, the transactions and the
   restarts interleave; a permit whose caller still waits carries that caller's
   own operation on its own slot. *)
THEOREM TypesHold == Spec => []TypeOK
<1>1. TypeInv => TypeOK
  BY DEF TypeInv
<1> QED BY InitTyped, NextTyped, <1>1, PTL DEF Spec

----------------------------------------------------------------------------
(* One probe of a half-open breaker. *)

InDatabase(c) == call[c].pc \in {"waiting", "answered"}
Alone == \A c, d \in Callers : InDatabase(c) /\ InDatabase(d) => c = d
ProbeInv == breaker.state = "HALF_OPEN" => breaker.probe /\ Alone

\* Steps that bring nobody into the database.
LEMMA NobodyEnters ==
  ASSUME ProbeInv, breaker' = breaker, \A c \in Callers : InDatabase(c)' => InDatabase(c)
  PROVE  ProbeInv'
BY DEF ProbeInv, Alone

LEMMA AnsweredWaits ==
  ASSUME TypeInv, NEW w \in Permits, NEW out, Answered(w, out)
  PROVE  \A c \in Callers : InDatabase(c)' => InDatabase(c)
<1>1. call \in [Callers -> Call] /\ Owned
  BY TypeParts DEF TypeInv
<1>2. CASE worker[w].owner = NoCaller
  BY <1>2 DEF Answered, InDatabase
<1>3. CASE worker[w].owner # NoCaller
  <2> DEFINE d == worker[w].owner
  <2>1. call[d].pc = "waiting"
    BY <1>1, <1>3 DEF Owned
  <2>2. call' = [call EXCEPT ![d] = [call[d] EXCEPT !.pc = "answered", !.out = out]]
    BY <1>3 DEF Answered
  <2>3. \A c \in Callers \ {d} : call'[c] = call[c]
    BY <1>1, <2>2
  <2> QED BY <2>1, <2>3 DEF InDatabase
<1> QED BY <1>2, <1>3

LEMMA ReturnedOut ==
  ASSUME TypeInv, NEW c \in Callers
  PROVE  Returned(c).pc \notin {"waiting", "answered"}
BY ReturnedTyped DEF Decisions

LEMMA ProbeNext == TypeInv /\ ProbeInv /\ [Next]_vars => ProbeInv'
<1> SUFFICES ASSUME TypeInv, ProbeInv, [Next]_vars PROVE ProbeInv'
  OBVIOUS
<1>0. call \in [Callers -> Call]
  BY TypeParts DEF TypeInv
<1>1. CASE UNCHANGED vars
  BY <1>1 DEF vars, ProbeInv, Alone, InDatabase
<1>2. ASSUME NEW c \in Callers, Acts(c) \/ Thinks(c) PROVE ProbeInv'
  <2>1. \E x : /\ call' = [call EXCEPT ![c] = x] /\ x.pc \notin {"waiting", "answered"}
               /\ breaker' = breaker
    <3>1. CASE Acts(c)
      <4>1. \E kind, p, next : Calling(c, kind, p, next)
        BY <3>1, CallerSets DEF Sets
      <4> QED BY <4>1 DEF Calling
    <3>2. CASE Thinks(c)
      <4>1. PICK pc \in Decisions, p \in Position : Turns(c, pc, p)
        BY <3>2, ThinksTurns
      <4>2. [Idle EXCEPT !.pc = pc, !.op = [NoOp EXCEPT !.snap = p]].pc \notin {"waiting", "answered"}
        BY BetweenTyped DEF Decisions
      <4> QED BY <4>1, <4>2 DEF Turns
    <3> QED BY <1>2, <3>1, <3>2
  <2> QED BY <1>0, <2>1, NobodyEnters DEF InDatabase
<1>4. ASSUME NEW s \in Slots, Import(s) PROVE ProbeInv'
  BY <1>4, NobodyEnters DEF Import, InDatabase
<1>5. ASSUME NEW c \in Callers, Envelope(c) PROVE ProbeInv'
  <2>1. CASE Skip(c)
    <3>1. call' = [call EXCEPT ![c] = Returned(c)] /\ breaker' = breaker
      BY <2>1 DEF Skip
    <3> QED BY <1>0, <3>1, ReturnedOut, NobodyEnters DEF InDatabase
  <2>2. CASE Submit(c)
    <3>1. /\ call' = [call EXCEPT ![c] = [call[c] EXCEPT !.pc = "waiting"]] /\ breaker' = Allow /\ Admits
      BY <2>2 DEF Submit
    <3>2. \A d \in Callers \ {c} : call'[d] = call[d]
      BY <1>0, <3>1
    <3>3. CASE breaker.state = "CLOSED"
      BY <3>1, <3>3 DEF ProbeInv, Allow
    <3>4. CASE breaker.state = "OPEN" /\ CooledOff
      <4>1. breaker'.probe
        BY <3>1, <3>4, TypeParts DEF Allow, TypeInv, Breaker
      <4>2. \A d \in Callers : InDatabase(d)' => d = c
        BY <3>2, <3>4 DEF CooledOff, InDatabase
      <4> QED BY <4>1, <4>2 DEF ProbeInv, Alone
    <3>5. CASE breaker.state = "HALF_OPEN" /\ ~breaker.probe
      BY <3>5 DEF ProbeInv
    <3> QED BY <3>1, <3>3, <3>4, <3>5 DEF Admits
  <2>3. CASE Saturated(c)
    <3>1. call' = [call EXCEPT ![c] = Returned(c)] /\ breaker' = Allow /\ Admits
      BY <2>3 DEF Saturated
    <3>2. \A d \in Callers : InDatabase(d)' => InDatabase(d)
      BY <1>0, <3>1, ReturnedOut DEF InDatabase
    <3>3. CASE breaker.state = "CLOSED"
      BY <3>1, <3>3 DEF ProbeInv, Allow
    <3>4. CASE breaker.state = "OPEN" /\ CooledOff
      <4>1. breaker'.probe
        BY <3>1, <3>4, TypeParts DEF Allow, TypeInv, Breaker
      <4> QED BY <3>2, <3>4, <4>1 DEF ProbeInv, Alone, CooledOff, InDatabase
    <3>5. CASE breaker.state = "HALF_OPEN" /\ ~breaker.probe
      BY <3>5 DEF ProbeInv
    <3> QED BY <3>1, <3>3, <3>4, <3>5 DEF Admits
  <2>4. CASE Abandon(c)
    <3>1. /\ call' = [call EXCEPT ![c] = [call[c] EXCEPT !.pc = "answered", !.out = "budget"]]
          /\ breaker' = breaker /\ call[c].pc = "waiting"
      BY <2>4 DEF Abandon
    <3>2. \A d \in Callers \ {c} : call'[d] = call[d]
      BY <1>0, <3>1
    <3> QED BY <3>1, <3>2, NobodyEnters DEF InDatabase
  <2>5. CASE Record(c)
    <3>1. /\ call' = [call EXCEPT ![c] = Returned(c)]
          /\ breaker' \in {Succeeded, breaker, Tripped}
      BY <2>5 DEF Record
    <3>2. \A d \in Callers : InDatabase(d)' => InDatabase(d)
      BY <1>0, <3>1, ReturnedOut DEF InDatabase
    <3>3. Succeeded.state # "HALF_OPEN" /\ Tripped.state # "HALF_OPEN"
      BY DEF Succeeded, Tripped
    <3>4. CASE breaker' = breaker
      BY <3>2, <3>4, NobodyEnters
    <3> QED BY <3>1, <3>3, <3>4 DEF ProbeInv
  <2> QED BY <1>5, <2>1, <2>2, <2>3, <2>4, <2>5 DEF Envelope
<1>6. ASSUME NEW w \in Permits, Run(w) \/ Break(w) PROVE ProbeInv'
  <2>1. breaker' = breaker /\ \E out : Answered(w, out)
    BY <1>6 DEF Run, Break
  <2> QED BY <2>1, AnsweredWaits, NobodyEnters
<1>7. CASE Restart
  BY <1>7 DEF Restart, Succeeded, ProbeInv
<1> QED BY <1>1, <1>2, <1>4, <1>5, <1>6, <1>7, Steps

(* While the breaker is half open one call at most is in the database: the
   probe flag is set whenever it is, and nobody was under way when it opened. *)
THEOREM ProbeIsAlone == Spec => []ProbeAlone
<1>1. Init => ProbeInv
  BY DEF Init, Succeeded, ProbeInv
<1>2. ProbeInv => ProbeAlone
  BY DEF ProbeInv, Alone, InDatabase, ProbeAlone
<1> QED BY InitTyped, NextTyped, ProbeNext, <1>1, <1>2, PTL DEF Spec

----------------------------------------------------------------------------
(* The row and the JSON position. *)

IsMirror(o) == o.kind \in Mirrors /\ o.snap.qty > 0
Arrives(o) == o.kind = "entry" \/ IsMirror(o)
Closes(o) == o.kind = "close" \/ (o.kind \in Mirrors /\ o.snap.qty = 0)

\* An operation that leaves the row to the entry it finds there.
Depends(o) == ~Arrives(o) /\ ~Closes(o)

\* The entry a row is about, 0 when none is open.
RowOrder(r) == IF Active(r) THEN r.snap.order ELSE 0

LEMMA EffectOnRow ==
  ASSUME NEW n \in 0..Calls, NEW op \in Op, NEW r \in Row, NEW es \in Seq(Events),
         GoodOp(op, n), GoodRow(r, n), Effect(op, r, es).out \in Landed
  PROVE  LET x == Effect(op, r, es).row IN
         /\ ~Depends(op) => RowOrder(x) = op.snap.order
         /\ op.kind = "fill" => RowOrder(x) = RowOrder(r)
         /\ RowOrder(r) = op.snap.order => RowOrder(x) = op.snap.order
<1> DEFINE e == Effect(op, r, es)
           x == e.row
           o == op.snap.order
<1> SUFFICES /\ ~Depends(op) => RowOrder(x) = o
             /\ op.kind = "fill" => RowOrder(x) = RowOrder(r)
             /\ RowOrder(r) = o => RowOrder(x) = o
  OBVIOUS
<1>0. op.kind # "none" /\ op.snap \in Position /\ op.snap.order \in Nat /\ op.snap.qty \in Nat
  BY ShadowAssumption DEF ShadowAssumption, GoodOp, Op, Position
<1>1. CASE op.kind \notin Mirrors
  <2>1. e = TypedWrite(op, r, es)
    BY <1>1 DEF Effect
  <2> HIDE DEF e
  <2>2. CASE e.out = "noop" /\ e.row = r /\ ~Active(r) /\ op.kind # "entry"
    <3>1. op.kind = "close" => o = 0
      BY <1>0 DEF GoodOp
    <3> QED BY <1>1, <2>2, <3>1 DEF Depends, Arrives, Closes, IsMirror, RowOrder
  <2>3. CASE Accepted(op, r) /\ x = Changed(op, r)
    <3>1. /\ x.snap = (IF op.kind \in {"entry", "fill", "pending", "partial", "verified"}
                       THEN op.snap ELSE r.snap)
          /\ x.state = Target(op, r) /\ Target(op, r) # "none"
      BY <1>1, <2>3, AcceptedRow
    <3>2. Target(op, r) = "closed" <=> op.kind = "close"
      BY <1>0, <1>1, <2>3 DEF Target, Op, Kinds, Mirrors, Accepted, Active
    <3>3. Active(x) <=> op.kind # "close"
      BY <3>1, <3>2 DEF Active
    <3>4. op.kind = "fill" => Active(r) /\ r.snap.order = o
      BY <2>3 DEF Accepted
    <3>5. op.kind # "entry" => Active(r)
      BY <2>3 DEF Accepted
    <3>6. op.kind = "close" => o = 0
      BY <1>0 DEF GoodOp
    <3> HIDE DEF x
    <3> QED BY <1>1, <3>1, <3>3, <3>4, <3>5, <3>6 DEF Depends, Arrives, Closes, IsMirror, RowOrder
  <2>4. e.out \in Landed
    BY DEF e
  <2>5. \/ /\ e.out \in {"noop", "conflict", "refused"} /\ e.row = r
           /\ e.out = "noop" => ~Active(r) /\ op.kind # "entry"
        \/ Accepted(op, r) /\ e.row = Changed(op, r)
    BY <1>0, <1>1, <2>1, TypedCases
  <2> QED BY <2>2, <2>3, <2>4, <2>5 DEF Landed
<1>2. CASE op.kind \in Mirrors
  <2>1. e = MirrorWrite(op, r, es) /\ op.kind \notin {"entry", "close", "fill"}
    BY <1>2 DEF Effect, Mirrors
  <2> HIDE DEF e
  <2>0. op.snap.qty = 0 => o = 0
    BY <1>0 DEF GoodOp
  <2>2. CASE e.row = r /\ IF Active(r) THEN r.snap = op.snap ELSE op.snap.qty = 0
    BY <2>0, <2>1, <2>2 DEF RowOrder
  <2>3. CASE op.snap.qty = 0 /\ e.row = ClosedRow(r)
    <3>1. ~Active(x)
      BY <2>3, FollowedTyped DEF Active
    <3> QED BY <2>0, <2>1, <2>3, <3>1 DEF RowOrder
  <2>4. CASE op.snap.qty # 0 /\ e.row = Followed(op, r)
    <3>1. x.snap = op.snap /\ x.state = DerivedState(op.snap)
      BY <2>4, FollowedTyped
    <3>2. Active(x)
      BY <1>0, <2>4, <3>1, DerivedTyped DEF Active
    <3> QED BY <2>1, <3>1, <3>2 DEF RowOrder
  <2>5. \/ e.row = r /\ IF Active(r) THEN r.snap = op.snap ELSE op.snap.qty = 0
        \/ op.snap.qty = 0 /\ e.row = ClosedRow(r)
        \/ op.snap.qty # 0 /\ e.row = Followed(op, r)
    BY <2>1, MirrorCases
  <2> QED BY <2>2, <2>3, <2>4, <2>5
<1> QED BY <1>1, <1>2

\* The operations of a slot's routers in the order of their writes: the calls of
\* U stand in line, the row is about entry r, the position about p.  The newest
\* agrees with the position, and one that depends on the row's entry finds what
\* the one before it leaves.
Before(U, f, d, c) ==
  f[d].op.id < f[c].op.id /\ \A e \in U : f[e].op.id <= f[d].op.id \/ f[c].op.id <= f[e].op.id
Newest(U, f, c) == \A d \in U : f[d].op.id <= f[c].op.id
Oldest(U, f, c) == \A d \in U : f[c].op.id <= f[d].op.id
Line(U, f, r, p) ==
  /\ U = {} => r = p
  /\ \A c, d \in U : f[c].op.id = f[d].op.id => c = d
  /\ \A c \in U : Newest(U, f, c) => f[c].op.snap.order = p
  /\ \A c \in U : Depends(f[c].op) =>
       /\ Oldest(U, f, c) => r = f[c].op.snap.order
       /\ \A d \in U : Before(U, f, d, c) => f[d].op.snap.order = f[c].op.snap.order

LEMMA LineSame ==
  ASSUME NEW U, NEW f, NEW g, NEW r, NEW p, Line(U, f, r, p), \A c \in U : g[c].op = f[c].op
  PROVE  Line(U, g, r, p)
BY DEF Line, Newest, Oldest, Before

\* Nobody depends on the row: it may take over the position.
LEMMA LinePatched ==
  ASSUME NEW U, NEW f, NEW r, NEW p, Line(U, f, r, p), \A c \in U : ~Depends(f[c].op)
  PROVE  Line(U, f, p, p)
BY DEF Line

\* A router writes position q: its operation is the newest.
LEMMA LineJoins ==
  ASSUME NEW U, NEW f, NEW g, NEW r, NEW p, NEW q, NEW c, NEW n \in Nat,
         Line(U, f, r, p), c \notin U,
         \A d \in U : g[d].op = f[d].op /\ f[d].op.id \in 1..n,
         g[c].op.id = n + 1, g[c].op.snap.order = q, Depends(g[c].op) => q = p
  PROVE  Line(U \cup {c}, g, r, q)
<1> DEFINE V == U \cup {c}
<1>1. \A d \in U : g[d].op.id < g[c].op.id /\ g[d].op.id \in Nat
  OBVIOUS
<1>2. \A d, e \in V : g[d].op.id = g[e].op.id => d = e
  BY <1>1 DEF Line
<1>3. \A d \in V : Newest(V, g, d) => d = c
  BY <1>1 DEF Newest
<1>4. ASSUME NEW d \in V, Depends(g[d].op), Oldest(V, g, d) PROVE r = g[d].op.snap.order
  <2>1. CASE d = c
    <3>1. U = {}
      BY <1>1, <1>4, <2>1 DEF Oldest
    <3> QED BY <1>4, <2>1, <3>1 DEF Line
  <2>2. CASE d \in U
    BY <1>4, <2>2 DEF Oldest, Line
  <2> QED BY <2>1, <2>2
<1>5. ASSUME NEW d \in V, NEW e \in V, Depends(g[d].op), Before(V, g, e, d)
      PROVE  g[e].op.snap.order = g[d].op.snap.order
  <2>1. e \in U
    BY <1>1, <1>5 DEF Before
  <2>2. CASE d = c
    <3>1. Newest(U, f, e)
      BY <1>1, <1>5, <2>1, <2>2 DEF Before, Newest
    <3> QED BY <1>5, <2>1, <2>2, <3>1 DEF Line
  <2>3. CASE d \in U
    BY <1>5, <2>1, <2>3 DEF Before, Line
  <2> QED BY <2>2, <2>3
<1> QED BY <1>2, <1>3, <1>4, <1>5 DEF Line

\* The oldest operation has landed, and the row is about entry x.
LEMMA LineLeaves ==
  ASSUME NEW U, NEW f, NEW g, NEW r, NEW p, NEW x, NEW c \in U,
         Line(U, f, r, p), Oldest(U, f, c), \A d \in U : f[d].op.id \in Nat,
         \A d \in U \ {c} : g[d].op = f[d].op,
         ~Depends(f[c].op) => x = f[c].op.snap.order,
         r = f[c].op.snap.order => x = f[c].op.snap.order
  PROVE  Line(U \ {c}, g, x, p)
<1> DEFINE V == U \ {c}
<1>1. x = f[c].op.snap.order
  BY DEF Line
<1>2. \A d \in V : f[c].op.id < f[d].op.id
  BY DEF Line, Oldest
<1>3. V = {} => x = p
  <2> SUFFICES ASSUME V = {} PROVE x = p
    OBVIOUS
  <2>1. Newest(U, f, c)
    BY DEF Newest
  <2> QED BY <1>1, <2>1 DEF Line
<1>4. \A d, e \in V : g[d].op.id = g[e].op.id => d = e
  BY DEF Line
<1>5. ASSUME NEW d \in V, Newest(V, g, d) PROVE g[d].op.snap.order = p
  <2>1. Newest(U, f, d)
    BY <1>2, <1>5 DEF Newest
  <2> QED BY <2>1 DEF Line
<1>6. ASSUME NEW d \in V, Depends(g[d].op), Oldest(V, g, d) PROVE x = g[d].op.snap.order
  <2>1. Before(U, f, c, d)
    BY <1>2, <1>6 DEF Before, Oldest
  <2> QED BY <1>1, <1>6, <2>1 DEF Line
<1>7. ASSUME NEW d \in V, NEW e \in V, Depends(g[d].op), Before(V, g, e, d)
      PROVE  g[e].op.snap.order = g[d].op.snap.order
  <2>1. Before(U, f, e, d)
    BY <1>2, <1>7 DEF Before
  <2> QED BY <1>7, <2>1 DEF Line
<1> QED BY <1>3, <1>4, <1>5, <1>6, <1>7 DEF Line

\* A write of the slot may not have reached the row, or out of turn.
Doubtful(s) ==
  \/ s \in missed \cup crossed
  \/ \E c \in Callers : c[1] = s /\ call[c].pc = "answered" /\ call[c].out \in Failed

LEMMA LandedOrFailed == Landed \cap Failed = {}
BY DEF Landed, Failed

\* How a caller's step changes the calls.
LEMMA CallerMoves ==
  ASSUME TypeInv, NEW c \in Callers, Acts(c) \/ Thinks(c)
  PROVE  /\ call[c].pc \in Decisions
         /\ \A d \in Callers \ {c} : call'[d] = call[d]
         /\ UNCHANGED <<typed, row, log, worker, missed, crossed>>
<1>1. call \in [Callers -> Call]
  BY TypeParts DEF TypeInv
<1>2. CASE Acts(c)
  <2>1. call[c].pc \in Decisions /\ \E kind, p, next : Calling(c, kind, p, next)
    BY <1>2, CallerSets DEF Sets
  <2> QED BY <1>1, <2>1 DEF Calling
<1>3. CASE Thinks(c)
  <2>1. call[c].pc \in Decisions /\ \E pc, p : Turns(c, pc, p)
    BY <1>3, ThinksTurns
  <2> QED BY <1>1, <2>1 DEF Turns
<1> QED BY <1>2, <1>3

\* The end of a transaction changes the call of its owner, who waits.
LEMMA AnsweredMoves ==
  ASSUME TypeInv, NEW w \in Permits, NEW out, Answered(w, out)
  PROVE  LET c == worker[w].owner IN
         /\ c \in Callers \cup {NoCaller}
         /\ c = NoCaller => call' = call
         /\ c # NoCaller =>
              /\ call[c].pc = "waiting" /\ worker[w].slot = c[1] /\ worker[w].op = call[c].op
              /\ call'[c].pc = "answered" /\ call'[c].out = out /\ call'[c].op = call[c].op
              /\ \A d \in Callers \ {c} : call'[d] = call[d]
         /\ worker' = [worker EXCEPT ![w] = Unused]
<1> DEFINE c == worker[w].owner
<1>1. /\ call \in [Callers -> Call] /\ worker \in [Permits -> Worker] /\ Owned
  BY TypeParts DEF TypeInv
<1>2. c \in Callers \cup {NoCaller}
  BY <1>1 DEF Worker
<1>3. c = NoCaller => call' = call
  BY DEF Answered
<1>4. c # NoCaller => call' = [call EXCEPT ![c] = [call[c] EXCEPT !.pc = "answered", !.out = out]]
  BY DEF Answered
<1>5. c # NoCaller => call[c].pc = "waiting" /\ worker[w].slot = c[1] /\ worker[w].op = call[c].op
  BY <1>1 DEF Owned
<1> HIDE DEF c
<1>6. c # NoCaller => /\ call'[c].pc = "answered" /\ call'[c].out = out /\ call'[c].op = call[c].op
                      /\ \A d \in Callers \ {c} : call'[d] = call[d]
  BY <1>1, <1>2, <1>4 DEF Call
<1> QED BY <1>2, <1>3, <1>5, <1>6 DEF c, Answered

\* A doubt about a slot is never taken back.
LEMMA DoubtStays ==
  ASSUME TypeInv, [Next]_vars, NEW s \in Slots, Doubtful(s)
  PROVE  Doubtful(s)'
<1>0. call \in [Callers -> Call]
  BY TypeParts DEF TypeInv
<1>1. missed \subseteq missed' /\ crossed \subseteq crossed'
  <2>1. CASE UNCHANGED vars
    BY <2>1 DEF vars
  <2>2. ASSUME NEW c \in Callers, Acts(c) \/ Thinks(c) PROVE UNCHANGED <<missed, crossed>>
    BY <2>2, CallerMoves
  <2>3. ASSUME NEW c \in Callers, Envelope(c) PROVE missed \subseteq missed' /\ crossed' = crossed
    BY <2>3 DEF Envelope, Skip, Submit, Saturated, Abandon, Record
  <2> QED BY <2>1, <2>2, <2>3, Steps DEF Import, Run, Break, Restart
<1>2. CASE s \in missed \cup crossed
  BY <1>1, <1>2 DEF Doubtful
<1>3. CASE s \notin missed \cup crossed
  <2>1. PICK c \in Callers : c[1] = s /\ call[c].pc = "answered" /\ call[c].out \in Failed
    BY <1>3 DEF Doubtful
  <2>2. SUFFICES call'[c] = call[c] \/ s \in missed'
    BY <2>1 DEF Doubtful
  <2>3. \A d, x : call' = [call EXCEPT ![d] = x] /\ d # c => call'[c] = call[c]
    BY <1>0
  <2>4. CASE UNCHANGED vars
    BY <2>4 DEF vars
  <2>5. ASSUME NEW d \in Callers, Acts(d) \/ Thinks(d) PROVE call'[c] = call[c]
    <3>1. d # c
      BY <2>1, <2>5, CallerMoves DEF Decisions
    <3> QED BY <2>5, <3>1, CallerMoves
  <2>6. ASSUME NEW t \in Slots, Import(t) PROVE call'[c] = call[c]
    BY <2>6 DEF Import
  <2>7. ASSUME NEW d \in Callers, Skip(d) \/ Submit(d) \/ Saturated(d) \/ Abandon(d)
        PROVE  call'[c] = call[c]
    <3>1. call[d].pc \in {"called", "waiting"} /\ \E x : call' = [call EXCEPT ![d] = x]
      BY <2>7 DEF Skip, Submit, Saturated, Abandon
    <3> QED BY <2>1, <2>3, <3>1
  <2>8. ASSUME NEW d \in Callers, Record(d) PROVE call'[c] = call[c] \/ s \in missed'
    <3>1. /\ missed' = IF call[d].out \in Landed THEN missed ELSE missed \cup {d[1]}
          /\ \E x : call' = [call EXCEPT ![d] = x]
      BY <2>8 DEF Record
    <3>2. CASE d = c
      BY <2>1, <3>1, <3>2, LandedOrFailed
    <3> QED BY <2>3, <3>1, <3>2
  <2>9. ASSUME NEW w \in Permits, Run(w) \/ Break(w) PROVE call'[c] = call[c]
    <3>1. PICK out : Answered(w, out)
      BY <2>9 DEF Run, Break
    <3> QED BY <2>1, <3>1, AnsweredMoves
  <2>10. CASE Restart
    BY <2>1, <2>10 DEF Restart, Decisions
  <2> QED BY <2>4, <2>5, <2>6, <2>7, <2>8, <2>9, <2>10, Steps DEF Envelope
<1> QED BY <1>2, <1>3

Pending(c) == call[c].pc \in {"called", "waiting"}
Under(s) == {c \in Routing : c[1] = s /\ Pending(c)}

\* The row follows the JSON position, up to the operations under way; what the
\* monitor writes meanwhile is a fill, or repeats the position.
Tracks(s) ==
  /\ \A w \in Permits : worker[w].slot = s => worker[w].owner # NoCaller
  /\ Line(Under(s), call, RowOrder(row[s]), position[s].order)
  /\ Pending(Monitor(s)) =>
       LET o == call[Monitor(s)].op IN
       \/ o.kind = "fill"
       \/ o.kind = "patch" /\ o.snap.qty > 0 /\ o.snap.order = position[s].order

Tracked == \A s \in Slots : Doubtful(s) \/ Tracks(s)

\* A step that does not touch the slot, or that only moves its calls along.
LEMMA TracksFrame ==
  ASSUME NEW s \in Slots, Tracks(s), position'[s] = position[s], row'[s] = row[s],
         \A w \in Permits : worker'[w].slot = s => worker'[w].owner # NoCaller,
         \A c \in Callers : c[1] = s =>
            (Pending(c) <=> Pending(c)') /\ (Pending(c) => call'[c].op = call[c].op)
  PROVE  Tracks(s)'
<1>1. Under(s)' = Under(s) /\ RowOrder(row[s])' = RowOrder(row[s])
  BY CallerNames DEF Under, RowOrder, Active
<1>2. Line(Under(s), call', RowOrder(row[s]), position[s].order)
  BY CallerNames, LineSame DEF Tracks, Under
<1>3. Line(Under(s), call, RowOrder(row[s]), position[s].order)'
  BY <1>1, <1>2 DEF Line, Newest, Oldest, Before
<1>4. Monitor(s) \in Callers /\ Monitor(s)[1] = s
  BY CallerNames
<1> QED BY <1>3, <1>4 DEF Tracks

\* Numbers and shapes of the operations under way.
LEMMA UnderTyped ==
  ASSUME TypeInv, NEW s \in Slots
  PROVE  /\ calls \in Nat
         /\ \A c \in Callers : Pending(c) => /\ call[c].op \in Op /\ GoodOp(call[c].op, calls)
                                             /\ call[c].op.id \in 1..calls
                                             /\ call[c].op.kind \in Mirrors <=> ~typed
         /\ \A c \in Under(s) : c \in Callers /\ Pending(c) /\ c[1] = s
<1>1. calls \in Nat
  BY TypeParts, ShadowAssumption DEF ShadowAssumption, TypeInv
<1>2. ASSUME NEW c \in Callers, Pending(c)
      PROVE  /\ call[c].op \in Op /\ GoodOp(call[c].op, calls) /\ call[c].op.id \in 1..calls
             /\ call[c].op.kind \in Mirrors <=> ~typed
  <2>1. call[c] \in Call /\ GoodCall(call[c], calls, typed)
    BY TypeParts DEF TypeInv, Shape
  <2> QED BY <1>2, <2>1 DEF Pending, Call, GoodCall, GoodOp
<1> QED BY <1>1, <1>2, CallerNames DEF Under

LEMMA ActsTracks ==
  ASSUME TypeInv, NEW s \in Slots, Tracks(s), NEW c \in Callers, Acts(c)
  PROVE  Tracks(s)'
<1>1. PICK kind \in Kinds \cup Mirrors, p \in Position, next \in Decisions :
        Sets(c, kind, p, next) /\ Intends(c, kind, p)
  BY CallerSets
<1> DEFINE o == [kind |-> kind, id |-> calls + 1, snap |-> p]
<1>2. /\ call[c].pc \in Decisions /\ c[1] \in Slots
      /\ \A d \in Callers \ {c} : call'[d] = call[d] /\ call[d].op.kind # "patch"
      /\ UNCHANGED <<typed, row, worker>>
  BY <1>1, CallerMoves, CallerNames DEF Sets, LockFree
<1>3. call'[c].pc = "called" /\ call'[c].op = o
  BY <1>1, TypeParts DEF TypeInv, Sets, Calling
<1>4. position'[c[1]] = p /\ \A t \in Slots \ {c[1]} : position'[t] = position[t]
  BY <1>1, <1>2, TypeParts DEF TypeInv, Sets
<1>5. \A w \in Permits : worker'[w].slot = s => worker'[w].owner # NoCaller
  BY <1>2 DEF Tracks
<1>6. ~Pending(c) /\ Pending(c)' /\ \A d \in Callers \ {c} : Pending(d)' <=> Pending(d)
  BY <1>2, <1>3 DEF Pending, Decisions
<1>7. o.kind = kind /\ o.id = calls + 1 /\ o.snap = p
  OBVIOUS
<1> HIDE DEF o
<1>8. CASE c[1] # s
  <2>1. \A d \in Callers : d[1] = s =>
          (Pending(d) <=> Pending(d)') /\ (Pending(d) => call'[d].op = call[d].op)
    BY <1>2, <1>6, <1>8
  <2> QED BY <1>2, <1>4, <1>5, <1>8, <2>1, TracksFrame
<1>9. CASE c[1] = s /\ c \in Routing
  <2>1. Under(s)' = Under(s) \cup {c} /\ c \notin Under(s)
    BY <1>6, <1>9, CallerNames DEF Under
  <2>2. Depends(o) => p.order = position[s].order
    <3>1. p.qty \in Nat
      BY ShadowAssumption DEF ShadowAssumption, Position
    <3>2. ~Fills(c, kind, p)
      BY <1>9, CallerNames DEF Fills
    <3> QED BY <1>1, <1>7, <1>9, <3>1, <3>2, FlatFacts
        DEF Intends, Enters, Trims, Clears, Marks, Depends, Arrives, Closes, IsMirror, Mirrors, Found
  <2>3. \A d \in Under(s) : call'[d].op = call[d].op /\ call[d].op.id \in 1..calls
    BY <1>2, <2>1, UnderTyped
  <2>4. Line(Under(s), call, RowOrder(row[s]), position[s].order)
    BY DEF Tracks
  <2>5. Line(Under(s) \cup {c}, call', RowOrder(row[s]), p.order)
    <3> HIDE DEF Under
    <3>1. calls \in Nat
      BY UnderTyped
    <3> QED BY <1>3, <1>7, <2>1, <2>2, <2>3, <2>4, <3>1, LineJoins
  <2>6. RowOrder(row[s])' = RowOrder(row[s]) /\ position'[s].order = p.order
    BY <1>2, <1>4, <1>9 DEF RowOrder, Active
  <2>7. Line(Under(s), call, RowOrder(row[s]), position[s].order)'
    BY <2>1, <2>5, <2>6 DEF Line, Newest, Oldest, Before
  <2>8. Monitor(s) \in Callers \ {c}
    BY <1>9, CallerNames
  <2>9. Pending(Monitor(s))' => call'[Monitor(s)].op.kind = "fill"
    BY <1>2, <1>6, <2>8 DEF Tracks
  <2> QED BY <1>5, <2>7, <2>9 DEF Tracks
<1>10. CASE c = Monitor(s)
  <2>1. c \notin Routing /\ c[1] = s
    BY <1>10, CallerNames
  <2>2. Fills(c, kind, p)
    BY <1>1, <2>1 DEF Intends
  <2>3. p.order = position[s].order /\ kind \in {"fill", "patch"} /\ p.qty > 0
    BY <2>1, <2>2 DEF Fills, Found, Open
  <2>4. Under(s)' = Under(s)
    BY <1>6, <2>1, CallerNames DEF Under
  <2>5. \A d \in Under(s) : call'[d].op = call[d].op
    BY <1>2, <2>1, CallerNames DEF Under
  <2>6. Line(Under(s), call', RowOrder(row[s]), position[s].order)
    <3> HIDE DEF Under
    <3> QED BY <2>5, LineSame DEF Tracks
  <2>7. RowOrder(row[s])' = RowOrder(row[s]) /\ position'[s].order = position[s].order
    BY <1>2, <1>4, <2>1, <2>3 DEF RowOrder, Active
  <2>8. Line(Under(s), call, RowOrder(row[s]), position[s].order)'
    BY <2>4, <2>6, <2>7 DEF Line, Newest, Oldest, Before
  <2> QED BY <1>3, <1>5, <1>7, <1>10, <2>3, <2>7, <2>8 DEF Tracks
<1> QED BY <1>8, <1>9, <1>10, CallerNames

LEMMA ThinksTracks ==
  ASSUME TypeInv, NEW s \in Slots, Tracks(s), NEW c \in Callers, Thinks(c)
  PROVE  Tracks(s)'
<1>1. PICK pc \in Decisions, p \in Position : Turns(c, pc, p)
  BY ThinksTurns
<1>2. UNCHANGED <<position, row, worker>>
  BY <1>1 DEF Turns
<1>3. ~Pending(c) /\ ~Pending(c)'
  <2> DEFINE x == [Idle EXCEPT !.pc = pc, !.op = [NoOp EXCEPT !.snap = p]]
  <2>1. x.pc = pc
    BY BetweenTyped
  <2>2. call'[c] = x
    BY <1>1, TypeParts DEF TypeInv, Turns
  <2> HIDE DEF x
  <2> QED BY <2>1, <2>2, CallerMoves DEF Pending, Decisions
<1>4. \A d \in Callers : d[1] = s =>
        (Pending(d) <=> Pending(d)') /\ (Pending(d) => call'[d].op = call[d].op)
  BY <1>3, CallerMoves DEF Pending
<1>5. \A w \in Permits : worker'[w].slot = s => worker'[w].owner # NoCaller
  BY <1>2 DEF Tracks
<1> QED BY <1>2, <1>4, <1>5, TracksFrame

LEMMA EnvelopeTracks ==
  ASSUME TypeInv, NEW s \in Slots, Tracks(s), ~Doubtful(s)', NEW c \in Callers, Envelope(c)
  PROVE  Tracks(s)'
<1>0. /\ call \in [Callers -> Call] /\ worker \in [Permits -> Worker] /\ Owned
      /\ c # NoCaller /\ c[1] \in Slots
  BY TypeParts, CallerNames DEF TypeInv
<1>1. UNCHANGED <<position, row>>
  BY DEF Envelope, Skip, Submit, Saturated, Abandon, Record
<1>2. \A w \in Permits : worker[w].slot = s => worker[w].owner # NoCaller
  BY DEF Tracks
<1>3. \A x : call' = [call EXCEPT ![c] = x] => call'[c] = x /\ \A d \in Callers \ {c} : call'[d] = call[d]
  BY <1>0
<1>4. CASE Skip(c) \/ Saturated(c)
  <2>1. /\ missed' = missed \cup {c[1]} /\ call' = [call EXCEPT ![c] = Returned(c)] /\ worker' = worker
    BY <1>4 DEF Skip, Saturated
  <2>2. c[1] # s
    BY <2>1 DEF Doubtful
  <2>3. \A d \in Callers : d[1] = s => call'[d] = call[d]
    BY <1>3, <2>1, <2>2
  <2> QED BY <1>1, <1>2, <2>1, <2>3, TracksFrame DEF Pending
<1>5. CASE Submit(c)
  <2>1. PICK w \in Permits : worker' = [worker EXCEPT ![w] = [slot |-> c[1], op |-> call[c].op, owner |-> c]]
    BY <1>5 DEF Submit
  <2>2. \A v \in Permits : worker'[v].slot = s => worker'[v].owner # NoCaller
    BY <1>0, <1>2, <2>1
  <2>3. call' = [call EXCEPT ![c] = [call[c] EXCEPT !.pc = "waiting"]] /\ call[c].pc = "called"
    BY <1>5 DEF Submit
  <2>4. call'[c].pc = "waiting" /\ call'[c].op = call[c].op
    BY <1>0, <1>3, <2>3 DEF Call
  <2>5. \A d \in Callers : d[1] = s =>
          (Pending(d) <=> Pending(d)') /\ (Pending(d) => call'[d].op = call[d].op)
    BY <1>3, <2>3, <2>4 DEF Pending
  <2> QED BY <1>1, <2>2, <2>5, TracksFrame
<1>6. CASE Abandon(c)
  <2>1. /\ call' = [call EXCEPT ![c] = [call[c] EXCEPT !.pc = "answered", !.out = "budget"]]
        /\ worker' = [v \in Permits |-> IF worker[v].owner = c THEN [worker[v] EXCEPT !.owner = NoCaller]
                                        ELSE worker[v]]
    BY <1>6 DEF Abandon
  <2>2. call'[c].pc = "answered" /\ call'[c].out \in Failed
    BY <1>0, <1>3, <2>1 DEF Call, Failed
  <2>3. c[1] # s
    BY <2>2 DEF Doubtful
  <2>4. ASSUME NEW v \in Permits, worker'[v].slot = s PROVE worker'[v].owner # NoCaller
    <3>1. CASE worker[v].owner = c
      <4>1. worker'[v].slot = worker[v].slot /\ worker[v].slot = c[1]
        BY <1>0, <2>1, <3>1 DEF Worker, Owned
      <4> QED BY <2>3, <2>4, <4>1
    <3>2. CASE worker[v].owner # c
      BY <1>2, <2>1, <2>4, <3>2
    <3> QED BY <3>1, <3>2
  <2>5. \A d \in Callers : d[1] = s => call'[d] = call[d]
    BY <1>3, <2>1, <2>3
  <2> QED BY <1>1, <2>4, <2>5, TracksFrame DEF Pending
<1>7. CASE Record(c)
  <2>1. call' = [call EXCEPT ![c] = Returned(c)] /\ worker' = worker /\ call[c].pc = "answered"
    BY <1>7 DEF Record
  <2>2. ~Pending(c) /\ ~Pending(c)'
    BY <1>3, <2>1, ReturnedTyped DEF Pending, Decisions
  <2>3. \A d \in Callers : d[1] = s =>
          (Pending(d) <=> Pending(d)') /\ (Pending(d) => call'[d].op = call[d].op)
    BY <1>3, <2>1, <2>2 DEF Pending
  <2> QED BY <1>1, <1>2, <2>1, <2>3, TracksFrame
<1> QED BY <1>4, <1>5, <1>6, <1>7 DEF Envelope

\* A router's operation that lands in its turn, or one of the monitor.
LEMMA LandedTracks ==
  ASSUME TypeInv, NEW s \in Slots, Tracks(s), NEW c \in Callers, c[1] = s, Pending(c),
         c \in Routing => \A d \in Under(s) : call[c].op.id <= call[d].op.id,
         Effect(call[c].op, row[s], log[s]).out \in Landed,
         row'[s] = Effect(call[c].op, row[s], log[s]).row,
         position' = position, call'[c].pc = "answered",
         \A d \in Callers \ {c} : call'[d] = call[d],
         \A w \in Permits : worker'[w].slot = s => worker'[w].owner # NoCaller
  PROVE  Tracks(s)'
<1> DEFINE o == call[c].op
           x == Effect(o, row[s], log[s]).row
           R == RowOrder(row[s])
           P == position[s].order
<1>1. /\ o \in Op /\ GoodOp(o, calls) /\ row[s] \in Row /\ GoodRow(row[s], calls)
      /\ log[s] \in Seq(Events) /\ calls \in 0..Calls /\ (o.kind \in Mirrors <=> ~typed)
  BY UnderTyped, TypeParts DEF TypeInv, Shape
<1>2. /\ ~Depends(o) => RowOrder(x) = o.snap.order
      /\ o.kind = "fill" => RowOrder(x) = R
      /\ R = o.snap.order => RowOrder(x) = o.snap.order
  BY <1>1, EffectOnRow
<1> HIDE DEF x
<1>3. RowOrder(row[s])' = RowOrder(x) /\ position'[s].order = P
  BY DEF RowOrder, Active, x
<1>4. Line(Under(s), call, R, P)
  BY DEF Tracks
<1>5. \A d \in Callers \ {c} : Pending(d)' <=> Pending(d)
  BY DEF Pending
<1>6. ~Pending(c)'
  BY DEF Pending
<1> SUFFICES /\ Line(Under(s)', call', RowOrder(x), P)
             /\ Pending(Monitor(s))' =>
                  LET m == call'[Monitor(s)].op IN
                  \/ m.kind = "fill"
                  \/ m.kind = "patch" /\ m.snap.qty > 0 /\ m.snap.order = P
  <2>1. Line(Under(s), call, RowOrder(row[s]), position[s].order)'
    BY <1>3 DEF Line, Newest, Oldest, Before
  <2> QED BY <1>3, <2>1 DEF Tracks
<1>7. CASE c \in Routing
  <2>1. Under(s)' = Under(s) \ {c} /\ c \in Under(s)
    BY <1>5, <1>6, <1>7, CallerNames DEF Under
  <2>2. \A d \in Under(s) : call[d].op.id \in Nat
    BY UnderTyped
  <2>3. \A d \in Under(s) \ {c} : call'[d].op = call[d].op
    BY CallerNames DEF Under
  <2>4. Oldest(Under(s), call, c)
    BY <1>7 DEF Oldest
  <2>5. Line(Under(s) \ {c}, call', RowOrder(x), P)
    <3> HIDE DEF Under, R, P
    <3> QED BY <1>2, <1>4, <2>1, <2>2, <2>3, <2>4, LineLeaves
  <2>6. Monitor(s) \in Callers \ {c}
    BY <1>7, CallerNames
  <2> QED BY <1>5, <2>1, <2>5, <2>6 DEF Tracks
<1>8. CASE c = Monitor(s)
  <2>1. c \notin Routing
    BY <1>8, CallerNames
  <2>2. Under(s)' = Under(s) /\ \A d \in Under(s) : call'[d].op = call[d].op
    BY <1>5, <2>1, CallerNames DEF Under
  <2>3. CASE o.kind = "fill"
    <3>1. Line(Under(s), call', R, P)
      <4> HIDE DEF Under, R, P
      <4> QED BY <1>4, <2>2, LineSame
    <3> QED BY <1>2, <1>6, <1>8, <2>2, <2>3, <3>1
  <2>4. CASE o.kind = "patch" /\ o.snap.qty > 0 /\ o.snap.order = P
    <3>1. RowOrder(x) = P
      BY <1>2, <2>4 DEF Depends, Arrives, IsMirror, Mirrors
    <3>2. ASSUME NEW d \in Under(s) PROVE ~Depends(call[d].op)
      <4>1. call[d].op.kind \in Mirrors /\ call[d].op.snap.qty \in Nat
        <5>1. call[d].op \in Op /\ (call[d].op.kind \in Mirrors <=> ~typed)
          BY <3>2, UnderTyped
        <5>2. ~typed
          BY <1>1, <2>4 DEF Mirrors
        <5> QED BY <5>1, <5>2, ShadowAssumption DEF ShadowAssumption, Op, Position
      <4> QED BY <4>1 DEF Depends, Arrives, Closes, IsMirror
    <3>3. Line(Under(s), call', P, P)
      <4> HIDE DEF Under, R, P
      <4> QED BY <1>4, <2>2, <3>2, LineSame, LinePatched
    <3> QED BY <1>6, <1>8, <2>2, <3>1, <3>3
  <2> QED BY <1>8, <2>3, <2>4 DEF Tracks
<1> QED BY <1>7, <1>8, CallerNames

LEMMA DatabaseTracks ==
  ASSUME TypeInv, NEW s \in Slots, Tracks(s), ~Doubtful(s)', NEW w \in Permits, Run(w) \/ Break(w)
  PROVE  Tracks(s)'
<1>0. /\ row \in [Slots -> Row] /\ worker \in [Permits -> Worker]
      /\ NoCaller \notin Callers
  BY TypeParts, CallerNames DEF TypeInv
<1> DEFINE c == worker[w].owner
<1>1. PICK out : Answered(w, out) /\ (Break(w) => out \in Failed)
                 /\ (Run(w) => out = Effect(worker[w].op, row[worker[w].slot], log[worker[w].slot]).out)
  <2>1. CASE Run(w)
    <3>1. ~Break(w) \/ faults' = faults + 1
      BY DEF Break
    <3>2. faults' = faults /\ faults \in Nat
      BY <2>1, TypeParts, ShadowAssumption DEF ShadowAssumption, TypeInv, Run
    <3> QED BY <2>1, <3>1, <3>2 DEF Run
  <2>2. CASE Break(w)
    <3>1. ~Run(w) \/ faults' = faults
      BY DEF Run
    <3>2. faults' = faults + 1 /\ faults \in Nat
      BY <2>2, TypeParts, ShadowAssumption DEF ShadowAssumption, TypeInv, Break
    <3>3. \E out \in {"error", "lock"} : Answered(w, out)
      BY <2>2 DEF Break
    <3> QED BY <3>1, <3>2, <3>3 DEF Failed
  <2> QED BY <2>1, <2>2
<1>2. /\ position' = position
      /\ Break(w) => row' = row
      /\ Run(w) => row' = [row EXCEPT ![worker[w].slot] =
                             Effect(worker[w].op, row[worker[w].slot], log[worker[w].slot]).row]
  BY DEF Run, Break
<1>3. \A v \in Permits : worker'[v].slot = s => worker'[v].owner # NoCaller
  BY <1>0, <1>1, AnsweredMoves, UnusedSlot DEF Tracks
<1>4. /\ c \in Callers \cup {NoCaller}
      /\ c = NoCaller => call' = call
      /\ c # NoCaller =>
           /\ call[c].pc = "waiting" /\ worker[w].slot = c[1] /\ worker[w].op = call[c].op
           /\ call'[c].pc = "answered" /\ call'[c].out = out
           /\ \A d \in Callers \ {c} : call'[d] = call[d]
  BY <1>1, AnsweredMoves
<1> HIDE DEF c
<1>5. CASE worker[w].slot # s
  <2>1. row'[s] = row[s]
    BY <1>0, <1>2, <1>5
  <2>2. \A d \in Callers : d[1] = s => call'[d] = call[d]
    BY <1>4, <1>5
  <2> QED BY <1>2, <1>3, <2>1, <2>2, TracksFrame DEF Pending
<1>6. CASE worker[w].slot = s
  <2>1. c \in Callers /\ c # NoCaller /\ c[1] = s
    BY <1>0, <1>4, <1>6 DEF Tracks, c
  <2>2. out \notin Failed
    BY <1>4, <2>1 DEF Doubtful
  <2>3. Run(w)
    BY <1>1, <2>2
  <2> DEFINE e == Effect(call[c].op, row[s], log[s])
  <2>4. out = e.out /\ row'[s] = e.row
    BY <1>0, <1>1, <1>2, <1>4, <1>6, <2>1, <2>3
  <2>5. e.out \in Landed
    <3>1. out \in Landed \cup Failed
      <4>1. worker[w] # Unused
        BY <2>3 DEF Run
      <4>2. Effect(worker[w].op, row[worker[w].slot], log[worker[w].slot]).out \in Landed \cup Failed
        BY <4>1, RunTyped
      <4> QED BY <1>1, <2>3, <4>2
    <3> QED BY <2>2, <2>4, <3>1
  <2>6. c \in Routing => \A d \in Under(s) : call[c].op.id <= call[d].op.id
    <3>1. s \notin crossed'
      BY DEF Doubtful
    <3>2. ~Overtakes(w)
      BY <1>6, <2>3, <3>1 DEF Run
    <3>3. SUFFICES ASSUME c \in Routing, NEW d \in Under(s) PROVE call[c].op.id <= call[d].op.id
      OBVIOUS
    <3>4. ~(call[d].op.id < worker[w].op.id)
      BY <1>6, <3>2, <3>3 DEF Overtakes, Under, Pending, c
    <3>5. worker[w].op = call[c].op /\ Pending(c)
      BY <1>4, <2>1 DEF Pending
    <3>6. call[c].op.id \in Nat /\ call[d].op.id \in Nat
      BY <2>1, <3>5, UnderTyped
    <3> QED BY <3>4, <3>5, <3>6
  <2>7. Pending(c) /\ call'[c].pc = "answered" /\ \A d \in Callers \ {c} : call'[d] = call[d]
    BY <1>4, <2>1 DEF Pending
  <2> QED BY <1>2, <1>3, <2>1, <2>4, <2>5, <2>6, <2>7, LandedTracks
<1> QED BY <1>5, <1>6

LEMMA RestartTracks ==
  ASSUME TypeInv, NEW s \in Slots, Tracks(s), ~Doubtful(s)', Restart
  PROVE  Tracks(s)'
<1>1. /\ UNCHANGED <<position, row>> /\ worker' = [w \in Permits |-> Unused]
      /\ call' = [c \in Callers |-> Idle]
      /\ missed' = missed \cup {c[1] : c \in {d \in Callers : call[d].pc \notin Decisions}}
  BY DEF Restart
<1>2. \A d \in Callers : d[1] = s => ~Pending(d) /\ ~Pending(d)'
  <2> SUFFICES ASSUME NEW d \in Callers, d[1] = s PROVE ~Pending(d) /\ ~Pending(d)'
    OBVIOUS
  <2>1. call[d].pc \in Decisions
    BY <1>1 DEF Doubtful
  <2> QED BY <1>1, <2>1, IdleTyped DEF Pending, Decisions
<1>3. \A w \in Permits : worker'[w].slot = s => worker'[w].owner # NoCaller
  BY <1>1, UnusedSlot
<1> QED BY <1>1, <1>2, <1>3, TracksFrame

LEMMA ImportTracks ==
  ASSUME TypeInv, NEW s \in Slots, Tracks(s), NEW t \in Slots, Import(t)
  PROVE  Tracks(s)'
<1>0. row \in [Slots -> Row] /\ position[s] \in Position
  BY TypeParts DEF TypeInv
<1> DEFINE r == row[t]
           base == IF Active(r) THEN r ELSE [NoRow EXCEPT !.born = calls + 1]
           next == [Applied(base, position[t]) EXCEPT !.imported = TRUE]
<1>1. /\ UNCHANGED <<position, call, worker>> /\ Quiet(t) /\ Open(t)
      /\ row' = [row EXCEPT ![t] = next] /\ calls < Calls
  BY DEF Import
<1>2. \A w \in Permits : worker'[w].slot = s => worker'[w].owner # NoCaller
  BY <1>1 DEF Tracks
<1>3. CASE t # s
  <2>1. row'[s] = row[s]
    BY <1>0, <1>1, <1>3
  <2> QED BY <1>1, <1>2, <2>1, TracksFrame DEF Pending
<1>4. CASE t = s
  <2>1. base \in Row
    <3>1. calls + 1 \in 0..Calls
      BY <1>1, TypeParts, ShadowAssumption DEF ShadowAssumption, TypeInv
    <3> QED BY <1>0, <3>1, NoRowTyped DEF Row
  <2> HIDE DEF base
  <2>2. next.snap = position[s] /\ next.state = DerivedState(position[s])
    <3>1. Applied(base, position[s]) \in Row
      BY <1>0, <2>1, AppliedTyped
    <3> QED BY <1>0, <1>4, <2>1, <3>1, AppliedTyped DEF Row
  <2>3. Active(next)
    BY <1>0, <1>1, <1>4, <2>2, DerivedTyped DEF Active, Open, Position
  <2> HIDE DEF next
  <2>4. row'[s] = next
    BY <1>0, <1>1, <1>4
  <2>5. RowOrder(row[s])' = position'[s].order
    BY <1>1, <2>2, <2>3, <2>4 DEF RowOrder, Active
  <2>6. \A c \in Callers : c[1] = s => ~Pending(c)'
    BY <1>1, <1>4 DEF Quiet, Pending, Decisions
  <2>7. Under(s)' = {} /\ ~Pending(Monitor(s))'
    BY <2>6, CallerNames DEF Under
  <2>8. Line(Under(s), call, RowOrder(row[s]), position[s].order)'
    BY <2>5, <2>7 DEF Line
  <2> QED BY <1>2, <2>7, <2>8 DEF Tracks
<1> QED BY <1>3, <1>4

LEMMA TrackedNext == TypeInv /\ Tracked /\ [Next]_vars => Tracked'
<1> SUFFICES ASSUME TypeInv, Tracked, [Next]_vars, NEW s \in Slots, ~Doubtful(s)'
             PROVE  Tracks(s)'
  BY DEF Tracked
<1>1. Tracks(s)
  BY DoubtStays DEF Tracked
<1>2. CASE UNCHANGED vars
  <2>1. UNCHANGED <<position, row, call, worker>>
    BY <1>2 DEF vars
  <2>2. \A w \in Permits : worker'[w].slot = s => worker'[w].owner # NoCaller
    BY <1>1, <2>1 DEF Tracks
  <2> QED BY <1>1, <2>1, <2>2, TracksFrame DEF Pending
<1>3. CASE \E c \in Callers : Acts(c) \/ Thinks(c) \/ Envelope(c)
  BY <1>1, <1>3, ActsTracks, ThinksTracks, EnvelopeTracks
<1>4. CASE \E w \in Permits : Run(w) \/ Break(w)
  BY <1>1, <1>4, DatabaseTracks
<1>5. CASE Restart
  BY <1>1, <1>5, RestartTracks
<1>6. CASE \E t \in Slots : Import(t)
  BY <1>1, <1>6, ImportTracks
<1> QED BY <1>2, <1>3, <1>4, <1>5, <1>6, Steps

LEMMA InitTracked == Init => Tracked
<1> SUFFICES ASSUME Init, NEW s \in Slots PROVE Tracks(s)
  BY DEF Tracked
<1>1. /\ position[s] = Flat /\ row[s] = NoRow /\ \A w \in Permits : worker[w] = Unused
      /\ \A c \in Callers : call[c] = Idle
  BY DEF Init
<1>2. Under(s) = {} /\ ~Pending(Monitor(s))
  BY <1>1, IdleTyped, CallerNames DEF Under, Pending
<1>3. RowOrder(row[s]) = position[s].order
  BY <1>1, FlatFacts, NoRowTyped DEF RowOrder
<1> QED BY <1>1, <1>2, <1>3, UnusedSlot DEF Tracks, Line

(* No silent divergence: when nothing is under way for a slot, no write of it was
   reported as skipped, failed or lost and none of a router overtook another's,
   its row is the JSON position's own lifetime, or both are closed. *)
THEOREM NoSilentDivergence == Spec => []RowOfPosition
<1>1. TypeInv /\ Tracked => RowOfPosition
  <2> SUFFICES ASSUME TypeInv, Tracked, NEW s \in Slots, Quiet(s), s \notin missed \cup crossed
               PROVE  IF Open(s) THEN Active(row[s]) /\ row[s].snap.order = position[s].order
                      ELSE ~Active(row[s])
    BY DEF RowOfPosition
  <2>1. \A c \in Callers : c[1] = s => ~Pending(c) /\ call[c].pc # "answered"
    BY DEF Quiet, Pending, Decisions
  <2>2. ~Doubtful(s)
    BY <2>1 DEF Doubtful
  <2>3. Under(s) = {}
    BY <2>1, CallerNames DEF Under
  <2>4. RowOrder(row[s]) = position[s].order
    BY <2>2, <2>3 DEF Tracked, Tracks, Line
  <2>5. /\ position[s].order \in Nat /\ position[s].qty \in Nat /\ GoodPosition(position[s], calls)
        /\ row[s] \in Row /\ GoodRow(row[s], calls) /\ calls \in Nat
    BY TypeParts, ShadowAssumption DEF ShadowAssumption, TypeInv, Shape, Position
  <2>6. Active(row[s]) => row[s].snap.order > 0
    BY <2>5, ActiveRow
  <2> QED BY <2>4, <2>5, <2>6 DEF RowOrder, Open, GoodPosition
<1> QED BY InitTyped, NextTyped, InitTracked, TrackedNext, <1>1, PTL DEF Spec

----------------------------------------------------------------------------
(* The event log of one slot: es is the log, r the row, p the JSON position,
   n the number of calls so far. *)

\* q is a snapshot of p, of p's past or of an earlier position: no later call
\* is named in it.
Past(p, q, n) ==
  /\ q.order <= n /\ q.partial <= n /\ q.reversal <= n
  /\ p.qty > 0 /\ q.order = p.order => (q.priced => p.priced)

\* A JSON write replaces a by p: nothing, a new entry, or the same entry with
\* a change that has not been before.
Advances(a, p, n) ==
  \/ p.qty = 0
  \/ p.order > n
  \/ /\ a.qty > 0 /\ p.order = a.order /\ (a.priced => p.priced)
     /\ p = a \/ p.partial > n \/ p.reversal > n \/ (~a.priced /\ p.priced)

Chain(es, r) ==
  /\ r # NoRow => es # <<>> /\ Last(es).row = r.born /\ Reaches(es, Len(es), r.state)
  /\ \A i \in 1..(Len(es) - 1) :
       IF es[i + 1].row = es[i].row THEN Reaches(es, i, es[i + 1].from)
       ELSE es[i + 1].from = "none" /\ Reaches(es, i, "closed")

EventOk(e, n) ==
  /\ e.row <= n
  /\ e.key[1] \in Kinds => e.key[2] <= n
  /\ e.key[1] = "unverified" => e.key[2] = e.row /\ e.to = "error"
  /\ e.key[1] = "mirror" => e.key[2] = e.from /\ e.key[3] = e.to
  /\ e.key[1] = "import" => e.key[2].qty > 0

EventPast(e, p, n) ==
  /\ e.key[1] = "mirror" /\ e.to # "closed" => Past(p, e.key[4], n)
  /\ e.key[1] = "import" => Past(p, e.key[2], n)

LogHist(es, r, p, n) ==
  /\ Chain(es, r)
  /\ r = NoRow => es = <<>>
  /\ \A i \in DOMAIN es : EventOk(es[i], n) /\ EventPast(es[i], p, n)
  /\ \A i \in DOMAIN es : Active(r) /\ es[i].row = r.born => es[i].to # "closed"
  /\ p.qty > 0 /\ ~p.priced => ~Known(es, <<"fill", p.order>>)
  /\ Known(es, <<"import", p>>) => Active(r) /\ r.snap = p

ById == Kinds \ {"fill", "unverified"}
Still == {"verified", "unverified", "reversal"}

\* An operation o under way has left no trace yet.
OpOk(o, es, r, p, n) ==
  /\ o.id # r.born
  /\ \A i \in DOMAIN es : es[i].row # o.id /\ \A k \in ById : es[i].key # <<k, o.id>>
  /\ o.kind = "fill" =>
       /\ ~Known(es, <<"fill", o.snap.order>>)
       /\ p.qty > 0 /\ ~p.priced => o.snap.order # p.order
  /\ IsMirror(o) =>
       /\ Past(p, o.snap, n)
       /\ \A i \in DOMAIN es : es[i].key[1] = "mirror" /\ es[i].to # "closed" => es[i].key[4] # o.snap
  /\ Known(es, <<"import", p>>) => o.kind \in Still /\ o.snap = p

OpPair(o, m) ==
  /\ o.kind = "fill" /\ m.kind = "fill" /\ o.snap.order = m.snap.order => o.id = m.id
  /\ IsMirror(o) /\ IsMirror(m) /\ o.snap = m.snap => o.id = m.id

LEMMA PositionNumbers ==
  /\ Calls \in Nat /\ Lots \in Nat
  /\ \A p \in Position : p.order \in Nat /\ p.qty \in Nat /\ p.partial \in Nat /\ p.reversal \in Nat
BY ShadowAssumption DEF ShadowAssumption, Position

\* No later call is named in p.
Bounded(p, n) == p.order <= n /\ p.partial <= n /\ p.reversal <= n

LEMMA PastSelf ==
  ASSUME NEW p \in Position, NEW n, Bounded(p, n)
  PROVE  Past(p, p, n)
BY DEF Past, Bounded

LEMMA PastKept ==
  ASSUME NEW a \in Position, NEW p \in Position, NEW q \in Position, NEW n \in Nat, NEW m \in Nat,
         n <= m, Past(a, q, n), Advances(a, p, n)
  PROVE  Past(p, q, m)
<1>1. /\ a.order \in Nat /\ a.qty \in Nat /\ p.order \in Nat /\ p.qty \in Nat
      /\ q.order \in Nat /\ q.partial \in Nat /\ q.reversal \in Nat
  BY PositionNumbers
<1>2. q.order <= m /\ q.partial <= m /\ q.reversal <= m
  BY <1>1 DEF Past
<1>3. ASSUME p.qty > 0, q.order = p.order, q.priced PROVE p.priced
  <2>1. ~(p.order > n)
    BY <1>1, <1>3 DEF Past
  <2>2. a.qty > 0 /\ p.order = a.order /\ (a.priced => p.priced)
    BY <1>1, <1>3, <2>1 DEF Advances
  <2> QED BY <1>3, <2>2 DEF Past
<1> QED BY <1>2, <1>3 DEF Past

\* Nothing of the past is written again.
LEMMA PastNew ==
  ASSUME NEW a \in Position, NEW p \in Position, NEW n \in Nat,
         Past(a, p, n), Advances(a, p, n), p.qty > 0
  PROVE  p = a
<1>1. p.order \in Nat /\ p.qty \in Nat /\ p.partial \in Nat /\ p.reversal \in Nat
  BY PositionNumbers
<1>2. ~(p.qty = 0) /\ ~(p.order > n) /\ ~(p.partial > n) /\ ~(p.reversal > n)
  BY <1>1 DEF Past
<1>3. a.qty > 0 /\ p.order = a.order /\ (p = a \/ (~a.priced /\ p.priced))
  BY <1>2 DEF Advances
<1> QED BY <1>3 DEF Past

\* A longer log tells the same of its earlier events.
LEMMA ReachesAppend ==
  ASSUME NEW es \in Seq(Events), NEW ev \in Events, NEW i \in 1..Len(es), NEW state
  PROVE  Reaches(Append(es, ev), i, state) <=> Reaches(es, i, state)
<1>1. \A k \in 1..i : Append(es, ev)[k] = es[k]
  BY AppendProperties
<1>2. \A from, to : Skipped(Append(es, ev), i, from, to) <=> Skipped(es, i, from, to)
  BY <1>1 DEF Skipped
<1>3. Append(es, ev)[i] = es[i]
  BY <1>1
<1> QED BY <1>2, <1>3 DEF Reaches

LEMMA ChainAppend ==
  ASSUME NEW n, NEW es \in Seq(Events), NEW r \in Row, GoodRow(r, n), Chain(es, r),
         r = NoRow => es = <<>>,
         NEW x \in Row, NEW ev \in Events, ev.row = x.born, ev.from = From(r), ev.to = x.state,
         IF Active(r) THEN x.born = r.born ELSE x.born # r.born
  PROVE  Chain(Append(es, ev), x)
<1> DEFINE fs == Append(es, ev)
<1>1. /\ fs \in Seq(Events) /\ Len(fs) = Len(es) + 1 /\ Len(es) \in Nat /\ fs[Len(es) + 1] = ev
      /\ \A k \in 1..Len(es) : fs[k] = es[k]
  BY AppendProperties, LenProperties
<1>2. \A i \in 1..Len(es) : \A state : Reaches(fs, i, state) <=> Reaches(es, i, state)
  BY ReachesAppend
<1> HIDE DEF fs
<1>3. fs # <<>> /\ Last(fs) = ev /\ Reaches(fs, Len(fs), x.state)
  BY <1>1 DEF Last, Reaches
<1>4. ASSUME NEW i \in 1..(Len(fs) - 1)
      PROVE  IF fs[i + 1].row = fs[i].row THEN Reaches(fs, i, fs[i + 1].from)
             ELSE fs[i + 1].from = "none" /\ Reaches(fs, i, "closed")
  <2>1. i \in 1..Len(es) /\ fs[i] = es[i]
    BY <1>1
  <2>2. CASE i < Len(es)
    <3>1. i \in 1..(Len(es) - 1) /\ fs[i + 1] = es[i + 1]
      BY <1>1, <2>1, <2>2
    <3> QED BY <1>2, <2>1, <3>1 DEF Chain
  <2>3. CASE i = Len(es)
    <3>1. r # NoRow /\ Last(es) = es[i] /\ fs[i + 1] = ev
      BY <1>1, <2>1, <2>3 DEF Last
    <3>2. es[i].row = r.born /\ Reaches(fs, i, r.state)
      BY <1>2, <2>1, <2>3, <3>1 DEF Chain
    <3>3. CASE Active(r)
      BY <2>1, <3>1, <3>2, <3>3 DEF From
    <3>4. CASE ~Active(r)
      <4>1. r.state = "closed"
        BY <3>1, <3>4 DEF GoodRow, Active
      <4> QED BY <2>1, <3>1, <3>2, <3>4, <4>1 DEF From
    <3> QED BY <3>3, <3>4
  <2> QED BY <1>1, <2>1, <2>2, <2>3
<1> QED BY <1>1, <1>3, <1>4 DEF fs, Chain

LEMMA SkippedTo ==
  ASSUME NEW n, NEW es, NEW i, \A k \in 1..i : EventOk(es[k], n),
         NEW from, NEW to, Skipped(es, i, from, to), to # "closed"
  PROVE  to = "error"
BY DEF Skipped, EventOk

\* Operation op turned row r into x and is told by event ev.
Wrote(op, r, x, ev) ==
  /\ x \in Row /\ x # NoRow /\ ev \in Events
  /\ x.born = (IF Active(r) THEN r.born ELSE op.id)
  /\ ev.row = x.born /\ ev.from = From(r) /\ ev.to = x.state
  /\ op.kind \notin Mirrors =>
       /\ Accepted(op, r) /\ ev.key = Key(op, r) /\ x.state = Target(op, r)
       /\ x.snap = (IF op.kind \in {"entry", "fill", "pending", "partial", "verified"}
                    THEN op.snap ELSE r.snap)
  /\ op.kind \in Mirrors =>
       /\ x.state = DerivedState(op.snap)
       /\ IF op.snap.qty = 0
          THEN Active(r) /\ ev.key = <<"mirror", From(r), "closed", r.snap>>
          ELSE x.snap = op.snap /\ ev.key = <<"mirror", From(r), x.state, op.snap>>

Repeated(es, ev) == \E i \in DOMAIN es : es[i].key = ev.key /\ es[i].from = ev.from /\ es[i].to = ev.to

LEMMA MirrorWrote ==
  ASSUME NEW n \in 0..Calls, NEW op \in Op, NEW r \in Row, GoodOp(op, n), GoodRow(r, n),
         op.kind \in Mirrors, op.snap.qty = 0 => Active(r),
         NEW x, x = (IF op.snap.qty = 0 THEN ClosedRow(r) ELSE Followed(op, r)),
         NEW ev, ev = Event(x, <<"mirror", From(r), x.state, x.snap>>, From(r), x.state)
  PROVE  Wrote(op, r, x, ev)
<1>0. op.snap \in Position /\ 1..n \subseteq 1..Calls /\ From(r) \in States /\ op.id \in 1..n
      /\ (DerivedState(op.snap) = "closed" <=> op.snap.qty = 0)
  BY DerivedTyped, ShadowAssumption DEF ShadowAssumption, Op, GoodOp, From, Row, States
<1>1. x \in Row /\ x.snap = (IF op.snap.qty = 0 THEN r.snap ELSE op.snap)
      /\ x.state = DerivedState(op.snap)
  BY <1>0, FollowedTyped
<1>2. x.born = (IF Active(r) THEN r.born ELSE op.id)
  BY FollowedTyped
<1>3. x.born \in 1..n
  BY <1>0, <1>2, ActiveRow
<1>4. x # NoRow
  BY <1>3 DEF NoRow
<1>5. ev.row = x.born /\ ev.from = From(r) /\ ev.to = x.state
      /\ ev.key = <<"mirror", From(r), x.state, x.snap>>
  BY DEF Event
<1>6. ev \in Events
  <2>1. x.state \in States /\ x.snap \in Position
    BY <1>1 DEF Row
  <2>2. <<"mirror", From(r), x.state, x.snap>> \in Keys
    BY <1>0, <2>1 DEF Keys
  <2> QED BY <1>0, <1>3, <2>1, <2>2 DEF Event, Events
<1>7. IF op.snap.qty = 0
      THEN Active(r) /\ ev.key = <<"mirror", From(r), "closed", r.snap>>
      ELSE x.snap = op.snap /\ ev.key = <<"mirror", From(r), x.state, op.snap>>
  BY <1>0, <1>1, <1>5
<1> QED BY <1>1, <1>2, <1>4, <1>5, <1>6, <1>7 DEF Wrote

LEMMA TypedWrote ==
  ASSUME NEW n \in 0..Calls, NEW op \in Op, NEW r \in Row, GoodOp(op, n), GoodRow(r, n),
         op.kind \notin Mirrors, Accepted(op, r), NEW x, x = Changed(op, r),
         NEW ev, ev = Event(x, Key(op, r), From(r), x.state)
  PROVE  Wrote(op, r, x, ev)
<1>1. /\ x \in Row /\ GoodRow(x, n) /\ x # NoRow
      /\ x.born = (IF op.kind = "entry" THEN op.id ELSE r.born)
      /\ x.snap = (IF op.kind \in {"entry", "fill", "pending", "partial", "verified"}
                   THEN op.snap ELSE r.snap)
      /\ x.state = Target(op, r)
  BY AcceptedRow
<1>2. Key(op, r) \in Kinds \X (1..n) /\ 1..n \subseteq 1..Calls /\ From(r) \in States
  BY TypedKey, ShadowAssumption DEF ShadowAssumption, From, Row, States
<1>3. x.born = (IF Active(r) THEN r.born ELSE op.id)
  BY <1>1 DEF Accepted
<1>4. ev.row = x.born /\ ev.from = From(r) /\ ev.to = x.state /\ ev.key = Key(op, r)
  BY DEF Event
<1>5. ev \in Events
  <2>1. x.born \in 1..Calls /\ x.state \in States
    BY <1>1, <1>2 DEF GoodRow, Row
  <2>2. Key(op, r) \in Keys
    BY <1>2 DEF Keys
  <2> QED BY <1>2, <2>1, <2>2 DEF Event, Events
<1> QED BY <1>1, <1>3, <1>4, <1>5 DEF Wrote

LEMMA EffectWrites ==
  ASSUME NEW n \in 0..Calls, NEW op \in Op, NEW r \in Row, NEW es \in Seq(Events),
         GoodOp(op, n), GoodRow(r, n)
  PROVE  LET e == Effect(op, r, es) IN
         \/ e.row = r /\ e.log = es
         \/ \E ev : /\ Wrote(op, r, e.row, ev)
                    /\ \/ ~Known(es, ev.key) /\ e.log = Append(es, ev)
                       \/ /\ Known(es, ev.key) /\ e.log = es
                          /\ op.kind \notin Mirrors => Repeated(es, ev)
<1> DEFINE e == Effect(op, r, es)
<1>0. op.kind # "none"
  BY DEF GoodOp
<1>1. CASE op.kind \notin Mirrors
  <2> DEFINE x == Changed(op, r)
             ev == Event(x, Key(op, r), From(r), x.state)
  <2>1. e = TypedWrite(op, r, es)
    BY <1>1 DEF Effect
  <2>2. \/ e.row = r /\ e.log = es
        \/ /\ Accepted(op, r) /\ e.row = x
           /\ \/ ~Known(es, Key(op, r)) /\ e.log = Append(es, ev)
              \/ /\ \E i \in DOMAIN es : /\ es[i].key = Key(op, r)
                                         /\ es[i].from = From(r) /\ es[i].to = x.state
                 /\ e.log = es
    BY <1>0, <1>1, <2>1, TypedCases
  <2>3. ev.key = Key(op, r) /\ ev.from = From(r) /\ ev.to = x.state
    BY DEF Event
  <2>4. Accepted(op, r) => Wrote(op, r, x, ev)
    BY <1>1, TypedWrote
  <2> HIDE DEF e, x, ev
  <2> QED BY <1>1, <2>2, <2>3, <2>4 DEF e, Known, Repeated
<1>2. CASE op.kind \in Mirrors
  <2> DEFINE x == IF op.snap.qty = 0 THEN ClosedRow(r) ELSE Followed(op, r)
             ev == Event(x, <<"mirror", From(r), x.state, x.snap>>, From(r), x.state)
  <2>1. e = MirrorWrite(op, r, es)
    BY <1>2 DEF Effect
  <2>2. \/ e.row = r /\ e.log = es
        \/ /\ op.snap.qty = 0 /\ Active(r) /\ e.row = ClosedRow(r)
           /\ e.log = Appended(es, Event(ClosedRow(r), <<"mirror", r.state, "closed", r.snap>>,
                                         r.state, "closed"))
        \/ /\ op.snap.qty # 0 /\ e.row = Followed(op, r)
           /\ e.log = Appended(es, Event(Followed(op, r),
                                         <<"mirror", From(r), DerivedState(op.snap), op.snap>>,
                                         From(r), DerivedState(op.snap)))
    BY <2>1, MirrorCases
  <2>3. (op.snap.qty = 0 => Active(r)) =>
          /\ x.state = (IF op.snap.qty = 0 THEN "closed" ELSE DerivedState(op.snap))
          /\ x.snap = (IF op.snap.qty = 0 THEN r.snap ELSE op.snap)
          /\ op.snap.qty = 0 => From(r) = r.state
    BY FollowedTyped DEF From
  <2>4. \/ e.row = r /\ e.log = es
        \/ (op.snap.qty = 0 => Active(r)) /\ e.row = x /\ e.log = Appended(es, ev)
    <3> HIDE DEF e
    <3>1. CASE e.row = r /\ e.log = es
      BY <3>1
    <3>2. CASE op.snap.qty = 0 /\ Active(r) /\ ~(e.row = r /\ e.log = es)
      BY <2>2, <2>3, <3>2
    <3>3. CASE op.snap.qty # 0 /\ ~(e.row = r /\ e.log = es)
      BY <2>2, <2>3, <3>3
    <3> QED BY <2>2, <3>1, <3>2, <3>3
  <2>5. (op.snap.qty = 0 => Active(r)) => Wrote(op, r, x, ev)
    BY <1>2, MirrorWrote
  <2> HIDE DEF e, x, ev
  <2>6. CASE e.row = r /\ e.log = es
    BY <2>6 DEF e
  <2>7. CASE ~(e.row = r /\ e.log = es)
    <3>1. Wrote(op, r, e.row, ev) /\ e.log = Appended(es, ev)
      BY <2>5, <2>7, <2>4
    <3>2. \/ ~Known(es, ev.key) /\ e.log = Append(es, ev)
          \/ Known(es, ev.key) /\ e.log = es
      BY <3>1 DEF Appended
    <3> QED BY <1>2, <3>1, <3>2 DEF e
  <2> QED BY <2>6, <2>7
<1> QED BY <1>1, <1>2

\* What the key of an event can be.
LEMMA WroteKey ==
  ASSUME NEW n \in 0..Calls, NEW op \in Op, NEW r \in Row, GoodOp(op, n), GoodRow(r, n),
         NEW x, NEW ev, Wrote(op, r, x, ev)
  PROVE  /\ ev.key[1] = (IF op.kind \in Mirrors THEN "mirror" ELSE op.kind)
         /\ op.kind \notin Mirrors \cup {"fill", "unverified"} => ev.key[2] = op.id
         /\ op.kind = "fill" => ev.key[2] = op.snap.order
         /\ op.kind = "unverified" => ev.key[2] = r.born /\ ev.row = r.born /\ ev.to = "error"
         /\ op.kind \in Mirrors /\ ev.to # "closed" => ev.key[4] = op.snap /\ IsMirror(op)
         /\ op.kind \in Mirrors => ev.key[2] = ev.from /\ ev.key[3] = ev.to
         /\ ev.row \in 1..n
         /\ op.kind \notin Mirrors => ev.key[2] \in 1..n
<1>1. CASE op.kind \notin Mirrors
  <2>1. ev.key = Key(op, r) /\ Accepted(op, r) /\ ev.to = Target(op, r) /\ ev.row = x.born
    BY <1>1 DEF Wrote
  <2>2. Key(op, r) \in Kinds \X (1..n)
    BY <1>1, <2>1, TypedKey
  <2>3. x.born = (IF Active(r) THEN r.born ELSE op.id) /\ op.id \in 1..n
    BY DEF Wrote, GoodOp
  <2>4. x.born \in 1..n
    BY <2>3, ActiveRow
  <2>5. op.kind = "unverified" => Active(r) /\ Target(op, r) = "error"
    BY <2>1 DEF Accepted, Target
  <2>6. op.kind = "entry" => op.snap.order = op.id
    BY DEF GoodOp
  <2>7. Key(op, r)[1] = op.kind /\ (op.kind \notin {"fill", "unverified"} => Key(op, r)[2] = op.id)
        /\ (op.kind = "fill" => Key(op, r)[2] = op.snap.order)
        /\ (op.kind = "unverified" => Key(op, r)[2] = r.born)
    BY <2>6 DEF Key
  <2> QED BY <1>1, <2>1, <2>2, <2>3, <2>4, <2>5, <2>7
<1>2. CASE op.kind \in Mirrors
  <2>1. /\ x.state = DerivedState(op.snap) /\ ev.to = x.state /\ ev.from = From(r)
        /\ IF op.snap.qty = 0
           THEN Active(r) /\ ev.key = <<"mirror", From(r), "closed", r.snap>>
           ELSE x.snap = op.snap /\ ev.key = <<"mirror", From(r), x.state, op.snap>>
    BY <1>2 DEF Wrote
  <2>2. op.snap \in Position /\ (DerivedState(op.snap) = "closed" <=> op.snap.qty = 0)
    BY DerivedTyped DEF Op
  <2>3. op.snap.qty # 0 => op.snap.qty > 0
    BY <2>2, PositionNumbers
  <2>4. ev.row \in 1..n
    <3>1. ev.row = (IF Active(r) THEN r.born ELSE op.id) /\ op.id \in 1..n
      BY DEF Wrote, GoodOp
    <3> QED BY <3>1, ActiveRow
  <2>5. op.kind \notin {"fill", "unverified"}
    BY <1>2 DEF Mirrors
  <2> QED BY <1>2, <2>1, <2>2, <2>3, <2>4, <2>5 DEF IsMirror
<1> QED BY <1>1, <1>2

\* An event that was there already: the row moves on, and the log has a gap
\* of Skipped.
LEMMA RepeatedReaches ==
  ASSUME NEW n \in 0..Calls, NEW op \in Op, NEW r \in Row, NEW es \in Seq(Events), NEW p,
         GoodOp(op, n), GoodRow(r, n), LogHist(es, r, p, n), OpOk(op, es, r, p, n),
         NEW x, NEW ev, Wrote(op, r, x, ev), Known(es, ev.key),
         op.kind \notin Mirrors => Repeated(es, ev)
  PROVE  Active(r) /\ Reaches(es, Len(es), x.state)
<1> DEFINE i == Len(es)
<1>0. /\ \A k \in DOMAIN es : EventOk(es[k], n)
      /\ \A k \in DOMAIN es : Active(r) /\ es[k].row = r.born => es[k].to # "closed"
      /\ DOMAIN es = 1..i /\ i \in Nat
      /\ r # NoRow => es # <<>> /\ Last(es).row = r.born /\ Reaches(es, i, r.state)
      /\ x.state = ev.to /\ ev.from = From(r)
  BY LenProperties DEF LogHist, Chain, Wrote
<1>1. PICK k \in 1..i : es[k].key = ev.key /\ (op.kind \notin Mirrors => es[k].from = ev.from /\ es[k].to = ev.to)
  BY <1>0 DEF Known, Repeated
<1>2. es[k] \in Events /\ EventOk(es[k], n)
  BY <1>0, <1>1
<1>3. CASE op.kind \notin Mirrors
  <2>1. op.kind = "unverified"
    <3>1. op.kind \in ById => FALSE
      <4> SUFFICES ASSUME op.kind \in ById PROVE FALSE
        OBVIOUS
      <4>1. ev.key = <<op.kind, op.id>>
        <5>1. ev.key = Key(op, r) /\ op.kind \notin {"fill", "unverified"}
          BY <1>3 DEF Wrote, ById
        <5>2. op.kind = "entry" => op.snap.order = op.id
          BY DEF GoodOp
        <5> QED BY <5>1, <5>2 DEF Key
      <4> QED BY <1>0, <1>1, <4>1 DEF OpOk
    <3>2. op.kind = "fill" => FALSE
      <4> SUFFICES ASSUME op.kind = "fill" PROVE FALSE
        OBVIOUS
      <4>1. ev.key = <<"fill", op.snap.order>>
        BY <1>3 DEF Wrote, Key
      <4> QED BY <4>1 DEF OpOk
    <3> QED BY <1>3, <3>1, <3>2 DEF GoodOp, Op, ById
  <2>2. es[k].key[1] = "unverified" /\ es[k].row = r.born /\ ev.to = "error"
    <3>1. ev.key[1] = "unverified" /\ ev.key[2] = r.born /\ ev.to = "error"
      BY <1>3, <2>1, WroteKey
    <3> QED BY <1>1, <1>2, <3>1 DEF EventOk
  <2>3. Active(r) /\ Target(op, r) \in Allowed[r.state] /\ Target(op, r) = "error"
    BY <1>3, <2>1 DEF Wrote, Accepted, From, Target
  <2>4. r.state # "error"
    BY <2>3 DEF Allowed, Row, States
  <2>5. r # NoRow /\ r.state # "closed" /\ From(r) = r.state
    BY <2>3, NoRowTyped DEF Active, From
  <2>6. Reaches(es, i, r.state) /\ es[i].row = r.born
    BY <1>0, <2>5 DEF Last
  <2>7. es[i].to = r.state
    <3>1. \A from : ~Skipped(es, i, from, r.state)
      BY <1>0, <2>4, <2>5, SkippedTo
    <3> QED BY <2>6, <3>1 DEF Reaches
  <2>8. Skipped(es, i, es[i].to, "error")
    BY <1>0, <1>1, <1>3, <2>2, <2>5, <2>6, <2>7 DEF Skipped
  <2> QED BY <1>0, <2>2, <2>3, <2>8 DEF Reaches
<1>4. CASE op.kind \in Mirrors
  <2>1. ev.to = "closed"
    <3> SUFFICES ASSUME ev.to # "closed" PROVE FALSE
      OBVIOUS
    <3>1. ev.key[1] = "mirror" /\ ev.key[3] = ev.to /\ ev.key[4] = op.snap /\ IsMirror(op)
      BY <1>4, WroteKey
    <3>2. es[k].key[1] = "mirror" /\ es[k].to # "closed" /\ es[k].key[4] = op.snap
      BY <1>1, <1>2, <3>1 DEF EventOk
    <3> QED BY <1>0, <1>1, <3>1, <3>2 DEF OpOk
  <2>2. Active(r) /\ ev.key[1] = "mirror" /\ ev.key[2] = From(r) /\ ev.key[3] = "closed"
    <3>1. x.state = DerivedState(op.snap) /\ op.snap \in Position
      BY <1>4 DEF Wrote, Op
    <3>2. op.snap.qty = 0
      BY <1>0, <2>1, <3>1, DerivedTyped
    <3> QED BY <1>4, <2>1, <3>2, WroteKey DEF Wrote
  <2>3. r # NoRow /\ r.state # "closed" /\ From(r) = r.state
    BY <2>2, NoRowTyped DEF Active, From
  <2>4. Reaches(es, i, r.state) /\ es[i].row = r.born
    BY <1>0, <2>3 DEF Last
  <2>5. es[k].from = r.state /\ es[k].to = "closed" /\ es[k].key[1] = "mirror"
    BY <1>1, <1>2, <2>2, <2>3 DEF EventOk
  <2>6. es[k].row # es[i].row
    BY <1>0, <1>1, <2>2, <2>4, <2>5
  <2>7. Skipped(es, i, r.state, "closed")
    BY <1>1, <2>5, <2>6 DEF Skipped
  <2>8. \A from : Skipped(es, i, from, r.state) => r.state = "error"
    BY <1>0, <2>3, SkippedTo
  <2>9. Reaches(es, i, "closed")
    BY <2>4, <2>7, <2>8 DEF Reaches
  <2> QED BY <1>0, <2>1, <2>2, <2>9
<1> QED BY <1>3, <1>4

LEMMA InAppend ==
  ASSUME NEW es \in Seq(Events), NEW ev \in Events
  PROVE  /\ \A i \in DOMAIN Append(es, ev) :
              Append(es, ev)[i] = ev \/ \E k \in DOMAIN es : Append(es, ev)[i] = es[k]
         /\ \A key : Known(Append(es, ev), key) <=> Known(es, key) \/ ev.key = key
<1> DEFINE fs == Append(es, ev)
<1>1. /\ DOMAIN fs = 1..(Len(es) + 1) /\ DOMAIN es = 1..Len(es) /\ Len(es) \in Nat
      /\ fs[Len(es) + 1] = ev /\ \A k \in 1..Len(es) : fs[k] = es[k]
  BY AppendProperties, LenProperties
<1> HIDE DEF fs
<1>2. \A i \in DOMAIN fs : fs[i] = ev \/ \E k \in DOMAIN es : fs[i] = es[k]
  <2>1. \A i \in 1..(Len(es) + 1) : i = Len(es) + 1 \/ i \in 1..Len(es)
    BY <1>1
  <2> QED BY <1>1, <2>1
<1>3. \A key : Known(fs, key) => Known(es, key) \/ ev.key = key
  BY <1>2 DEF Known
<1>4. ASSUME NEW key, Known(es, key) \/ ev.key = key PROVE Known(fs, key)
  <2>1. CASE ev.key = key
    <3>1. Len(es) + 1 \in DOMAIN fs
      BY <1>1
    <3> QED BY <1>1, <2>1, <3>1 DEF Known
  <2>2. CASE Known(es, key)
    <3>1. PICK k \in 1..Len(es) : es[k].key = key
      BY <1>1, <2>2 DEF Known
    <3>2. k \in DOMAIN fs /\ fs[k].key = key
      BY <1>1, <3>1
    <3> QED BY <3>2 DEF Known
  <2> QED BY <1>4, <2>1, <2>2
<1> QED BY <1>2, <1>3, <1>4 DEF fs

LEMMA InLog ==
  ASSUME NEW es \in Seq(Events), NEW ev \in Events, NEW fs, fs = es \/ fs = Append(es, ev)
  PROVE  /\ \A i \in DOMAIN fs : fs[i] = ev \/ \E k \in DOMAIN es : fs[i] = es[k]
         /\ \A key : Known(fs, key) => Known(es, key) \/ ev.key = key
<1>1. CASE fs = es
  BY <1>1
<1>2. CASE fs = Append(es, ev)
  BY <1>2, InAppend
<1> QED BY <1>1, <1>2

\* The row an operation leaves still agrees with the log, whether or not its
\* event was appended.
LEMMA EffectHist ==
  ASSUME NEW n \in 0..Calls, NEW op \in Op, NEW r \in Row, NEW es \in Seq(Events), NEW p \in Position,
         GoodOp(op, n), GoodRow(r, n), LogHist(es, r, p, n), OpOk(op, es, r, p, n)
  PROVE  LogHist(Effect(op, r, es).log, Effect(op, r, es).row, p, n)
<1> DEFINE e == Effect(op, r, es)
<1>1. CASE e.row = r /\ e.log = es
  BY <1>1
<1>2. ASSUME NEW ev, Wrote(op, r, e.row, ev),
             \/ ~Known(es, ev.key) /\ e.log = Append(es, ev)
             \/ Known(es, ev.key) /\ e.log = es /\ (op.kind \notin Mirrors => Repeated(es, ev))
      PROVE  LogHist(e.log, e.row, p, n)
  <2> DEFINE x == e.row
             fs == e.log
  <2> HIDE DEF e
  <2>0. /\ x \in Row /\ x # NoRow /\ ev \in Events /\ ev.row = x.born /\ ev.from = From(r) /\ ev.to = x.state
        /\ x.born = (IF Active(r) THEN r.born ELSE op.id)
    BY <1>2 DEF Wrote
  <2>1. /\ ev.key[1] = (IF op.kind \in Mirrors THEN "mirror" ELSE op.kind)
        /\ op.kind = "fill" => ev.key[2] = op.snap.order
        /\ op.kind = "unverified" => ev.key[2] = r.born /\ ev.row = r.born /\ ev.to = "error"
        /\ op.kind \in Mirrors /\ ev.to # "closed" => ev.key[4] = op.snap /\ IsMirror(op)
        /\ op.kind \in Mirrors => ev.key[2] = ev.from /\ ev.key[3] = ev.to
        /\ ev.row \in 1..n
        /\ op.kind \notin Mirrors => ev.key[2] \in 1..n
    BY <1>2, WroteKey
  <2>2. op.kind \in Kinds \cup Mirrors
    BY DEF Op, GoodOp
  <2>3. ev.key[1] # "import"
    BY <2>1, <2>2 DEF Kinds, Mirrors
  <2>4. EventOk(ev, n) /\ EventPast(ev, p, n)
    <3>1. EventOk(ev, n)
      BY <2>1, <2>2, <2>3 DEF EventOk, Kinds, Mirrors
    <3>2. op.kind \notin Mirrors => ev.key[1] # "mirror"
      BY <2>1, <2>2 DEF Mirrors, Kinds
    <3>3. op.kind \in Mirrors /\ ev.to # "closed" => Past(p, ev.key[4], n)
      BY <2>1 DEF OpOk
    <3> QED BY <2>3, <3>1, <3>2, <3>3 DEF EventPast
  <2>5. /\ \A i \in DOMAIN fs : fs[i] = ev \/ \E k \in DOMAIN es : fs[i] = es[k]
        /\ \A key : Known(fs, key) => Known(es, key) \/ ev.key = key
    BY <1>2, <2>0, InLog
  <2>6. \A i \in DOMAIN fs : EventOk(fs[i], n) /\ EventPast(fs[i], p, n)
    BY <2>4, <2>5 DEF LogHist
  <2>7. Chain(fs, x)
    <3>1. CASE fs = Append(es, ev)
      <4>1. IF Active(r) THEN x.born = r.born ELSE x.born # r.born
        BY <2>0 DEF OpOk
      <4> QED BY <2>0, <3>1, <4>1, ChainAppend DEF LogHist
    <3>2. CASE Known(es, ev.key) /\ fs = es /\ (op.kind \notin Mirrors => Repeated(es, ev))
      <4>1. Active(r) /\ Reaches(es, Len(es), x.state)
        BY <1>2, <3>2, RepeatedReaches
      <4>2. r # NoRow
        BY <4>1, NoRowTyped
      <4> QED BY <2>0, <3>2, <4>1, <4>2 DEF LogHist, Chain
    <3> QED BY <1>2, <3>1, <3>2
  <2>8. \A i \in DOMAIN fs : Active(x) /\ fs[i].row = x.born => fs[i].to # "closed"
    <3> SUFFICES ASSUME NEW i \in DOMAIN fs, Active(x), fs[i].row = x.born, fs[i].to = "closed"
                 PROVE  FALSE
      OBVIOUS
    <3>1. fs[i] # ev
      BY <2>0 DEF Active
    <3>2. PICK k \in DOMAIN es : fs[i] = es[k]
      BY <2>5, <3>1
    <3>3. ~Active(r)
      BY <2>0, <3>2 DEF LogHist
    <3> QED BY <2>0, <3>2, <3>3 DEF OpOk
  <2>9. p.qty > 0 /\ ~p.priced => ~Known(fs, <<"fill", p.order>>)
    <3> SUFFICES ASSUME p.qty > 0, ~p.priced, ev.key = <<"fill", p.order>> PROVE FALSE
      BY <2>5 DEF LogHist
    <3>1. op.kind = "fill"
      BY <2>1
    <3> QED BY <2>1, <3>1 DEF OpOk
  <2>10. Known(fs, <<"import", p>>) => Active(x) /\ x.snap = p
    <3> SUFFICES ASSUME Known(es, <<"import", p>>) PROVE Active(x) /\ x.snap = p
      BY <2>3, <2>5
    <3>1. op.kind \in Still /\ op.snap = p /\ Active(r) /\ r.snap = p
      BY DEF OpOk, LogHist
    <3>2. op.kind \notin Mirrors
      BY <3>1 DEF Still, Mirrors
    <3>3. x.snap = p /\ x.state = Target(op, r)
      BY <1>2, <3>1, <3>2 DEF Wrote
    <3>4. Target(op, r) \notin {"none", "closed"}
      BY <3>1 DEF Target, Still, Active
    <3> QED BY <3>3, <3>4 DEF Active
  <2> QED BY <2>0, <2>6, <2>7, <2>8, <2>9, <2>10 DEF LogHist
<1> QED BY <1>1, <1>2, EffectWrites

\* The other operations under way stay fresh.
LEMMA EffectOthers ==
  ASSUME NEW n \in 0..Calls, NEW op \in Op, NEW r \in Row, NEW es \in Seq(Events), NEW p \in Position,
         GoodOp(op, n), GoodRow(r, n), LogHist(es, r, p, n), OpOk(op, es, r, p, n),
         NEW o \in Op, o.id # op.id, OpOk(o, es, r, p, n), OpPair(op, o)
  PROVE  OpOk(o, Effect(op, r, es).log, Effect(op, r, es).row, p, n)
<1> DEFINE e == Effect(op, r, es)
<1>1. CASE e.row = r /\ e.log = es
  BY <1>1
<1>2. ASSUME NEW ev, Wrote(op, r, e.row, ev),
             \/ ~Known(es, ev.key) /\ e.log = Append(es, ev)
             \/ Known(es, ev.key) /\ e.log = es /\ (op.kind \notin Mirrors => Repeated(es, ev))
      PROVE  OpOk(o, e.log, e.row, p, n)
  <2> DEFINE x == e.row
             fs == e.log
  <2> HIDE DEF e
  <2>0. /\ ev \in Events /\ ev.row = x.born
        /\ x.born = (IF Active(r) THEN r.born ELSE op.id)
    BY <1>2 DEF Wrote
  <2>1. /\ ev.key[1] = (IF op.kind \in Mirrors THEN "mirror" ELSE op.kind)
        /\ op.kind \notin Mirrors \cup {"fill", "unverified"} => ev.key[2] = op.id
        /\ op.kind = "fill" => ev.key[2] = op.snap.order
        /\ op.kind \in Mirrors /\ ev.to # "closed" => ev.key[4] = op.snap /\ IsMirror(op)
    BY <1>2, WroteKey
  <2>2. op.kind \in Kinds \cup Mirrors /\ ev.key[1] # "import"
    BY <2>1 DEF Op, GoodOp, Kinds, Mirrors
  <2>3. /\ \A i \in DOMAIN fs : fs[i] = ev \/ \E k \in DOMAIN es : fs[i] = es[k]
        /\ \A key : Known(fs, key) => Known(es, key) \/ ev.key = key
    BY <1>2, <2>0, InLog
  <2>4. x.born # o.id
    BY <2>0 DEF OpOk
  <2>5. \A k \in ById : ev.key # <<k, o.id>>
    <3> SUFFICES ASSUME NEW k \in ById, ev.key = <<k, o.id>> PROVE FALSE
      OBVIOUS
    <3>1. ev.key[1] = k /\ ev.key[2] = o.id /\ k \notin Mirrors \cup {"fill", "unverified"}
      BY DEF ById, Kinds, Mirrors
    <3>2. op.kind \notin Mirrors
      BY <2>1, <3>1 DEF Mirrors
    <3> QED BY <2>1, <3>1, <3>2
  <2>6. \A i \in DOMAIN fs : fs[i].row # o.id /\ \A k \in ById : fs[i].key # <<k, o.id>>
    BY <2>0, <2>3, <2>4, <2>5 DEF OpOk
  <2>7. o.kind = "fill" =>
          /\ ~Known(fs, <<"fill", o.snap.order>>)
          /\ p.qty > 0 /\ ~p.priced => o.snap.order # p.order
    <3> SUFFICES ASSUME o.kind = "fill", ev.key = <<"fill", o.snap.order>> PROVE FALSE
      BY <2>3 DEF OpOk
    <3>1. op.kind = "fill" /\ op.snap.order = o.snap.order
      BY <2>1
    <3> QED BY <3>1 DEF OpPair
  <2>8. IsMirror(o) =>
          \A i \in DOMAIN fs : fs[i].key[1] = "mirror" /\ fs[i].to # "closed" => fs[i].key[4] # o.snap
    <3> SUFFICES ASSUME IsMirror(o), ev.key[1] = "mirror", ev.to # "closed", ev.key[4] = o.snap PROVE FALSE
      BY <2>3 DEF OpOk
    <3>1. op.kind \in Mirrors
      BY <2>1, <2>2 DEF Kinds
    <3> QED BY <2>1, <3>1 DEF OpPair
  <2>9. Known(fs, <<"import", p>>) => Known(es, <<"import", p>>)
    BY <2>2, <2>3
  <2> QED BY <2>4, <2>6, <2>7, <2>8, <2>9 DEF OpOk
<1> QED BY <1>1, <1>2, EffectWrites

----------------------------------------------------------------------------
(* The JSON position goes on from a to p, and the calls from n to m. *)

LEMMA EventKept ==
  ASSUME NEW e \in Events, NEW n \in Nat, NEW m \in Nat, n <= m, EventOk(e, n)
  PROVE  EventOk(e, m)
<1>1. e.row \in Nat /\ (e.key[1] \in Kinds => e.key[2] \in Nat)
  BY PositionNumbers DEF Events, Keys, Kinds
<1> QED BY <1>1 DEF EventOk

LEMMA ImportPast ==
  ASSUME NEW es \in Seq(Events), NEW r, NEW a \in Position, NEW p \in Position, NEW n \in Nat,
         LogHist(es, r, a, n), Advances(a, p, n), Known(es, <<"import", p>>)
  PROVE  p = a /\ p.qty > 0
<1>1. PICK i \in DOMAIN es : es[i].key = <<"import", p>>
  BY DEF Known
<1>2. p.qty > 0 /\ Past(a, p, n)
  BY <1>1 DEF LogHist, EventOk, EventPast
<1> QED BY <1>2, PastNew

LEMMA HistAdvances ==
  ASSUME NEW es \in Seq(Events), NEW r, NEW a \in Position, NEW p \in Position,
         NEW n \in Nat, NEW m \in Nat, n <= m, LogHist(es, r, a, n), Advances(a, p, n)
  PROVE  LogHist(es, r, p, m)
<1>1. ASSUME NEW i \in DOMAIN es
      PROVE  EventOk(es[i], m) /\ EventPast(es[i], p, m)
  <2>1. es[i] \in Events /\ EventOk(es[i], n) /\ EventPast(es[i], a, n)
    BY DEF LogHist
  <2>2. es[i].key[1] = "import" => es[i].key[2] \in Position
    BY <2>1 DEF Events, Keys, Kinds
  <2>3. es[i].key[1] = "mirror" => es[i].key[4] \in Position
    BY <2>1 DEF Events, Keys, Kinds
  <2>4. EventPast(es[i], p, m)
    BY <2>1, <2>2, <2>3, PastKept DEF EventPast
  <2> QED BY <2>1, <2>4, EventKept
<1>2. ASSUME p.qty > 0, ~p.priced, Known(es, <<"fill", p.order>>)
      PROVE  FALSE
  <2>1. PICK i \in DOMAIN es : es[i].key = <<"fill", p.order>>
    BY <1>2 DEF Known
  <2>2. es[i].key[1] \in Kinds /\ es[i].key[2] = p.order
    BY <2>1 DEF Kinds
  <2>3. p.order <= n
    BY <2>2 DEF LogHist, EventOk
  <2>4. p.order \in Nat /\ p.qty \in Nat /\ a.qty \in Nat
    BY PositionNumbers
  <2>5. a.qty > 0 /\ p.order = a.order /\ ~a.priced
    <3>1. ~(p.qty = 0) /\ ~(p.order > n)
      BY <1>2, <2>3, <2>4
    <3> QED BY <1>2, <3>1 DEF Advances
  <2> QED BY <1>2, <2>5 DEF LogHist
<1>3. Known(es, <<"import", p>>) => Active(r) /\ r.snap = p
  BY ImportPast DEF LogHist
<1> QED BY <1>1, <1>2, <1>3 DEF LogHist

LEMMA OpAdvances ==
  ASSUME NEW es \in Seq(Events), NEW r, NEW a \in Position, NEW p \in Position,
         NEW n \in Nat, NEW m \in Nat, n <= m, LogHist(es, r, a, n), Advances(a, p, n),
         NEW o \in Op, GoodOp(o, n), OpOk(o, es, r, a, n)
  PROVE  OpOk(o, es, r, p, m)
<1>0. o.snap \in Position /\ o.snap.order \in Nat /\ p.order \in Nat /\ p.qty \in Nat /\ a.qty \in Nat
  BY PositionNumbers DEF Op
<1>1. ASSUME o.kind = "fill", p.qty > 0, ~p.priced PROVE o.snap.order # p.order
  <2>1. CASE p.order > n
    BY <1>0, <2>1 DEF GoodOp
  <2>2. CASE a.qty > 0 /\ p.order = a.order /\ ~a.priced
    BY <1>1, <2>2 DEF OpOk
  <2> QED BY <1>0, <1>1, <2>1, <2>2 DEF Advances
<1>2. IsMirror(o) => Past(p, o.snap, m)
  BY <1>0, PastKept DEF OpOk
<1>3. Known(es, <<"import", p>>) => o.kind \in Still /\ o.snap = p
  BY ImportPast DEF OpOk
<1> QED BY <1>1, <1>2, <1>3 DEF OpOk

\* An operation that follows the write of p in place of a.
Follows(op, a, p, n) ==
  /\ op.id = n + 1 /\ op.snap = p
  /\ IsMirror(op) => p # a
  /\ op.kind = "fill" => a.qty > 0 /\ ~a.priced /\ p.priced /\ p.order = a.order
  /\ op.kind \in Still \/ p # a \/ p.qty = 0

LEMMA OpStarts ==
  ASSUME NEW es \in Seq(Events), NEW r \in Row, NEW a \in Position, NEW p \in Position,
         NEW n \in Nat, GoodRow(r, n), LogHist(es, r, a, n), Advances(a, p, n),
         NEW op, Follows(op, a, p, n), Bounded(p, n + 1)
  PROVE  OpOk(op, es, r, p, n + 1)
<1>0. r.born \in Nat /\ p.qty \in Nat /\ \A i \in DOMAIN es : es[i] \in Events /\ EventOk(es[i], n)
  BY PositionNumbers DEF Row, LogHist
<1>1. op.id # r.born
  BY <1>0 DEF Follows, GoodRow, NoRow
<1>2. ASSUME NEW i \in DOMAIN es
      PROVE  es[i].row # op.id /\ \A k \in ById : es[i].key # <<k, op.id>>
  <2>1. es[i].row \in Nat /\ es[i].row <= n /\ es[i] \in Events
    BY <1>0, PositionNumbers DEF EventOk, Events
  <2>2. \A k \in ById : es[i].key = <<k, op.id>> => op.id <= n
    BY <1>0 DEF EventOk, ById, Kinds
  <2> QED BY <2>1, <2>2 DEF Follows
<1>3. op.kind = "fill" =>
        /\ ~Known(es, <<"fill", op.snap.order>>)
        /\ p.qty > 0 /\ ~p.priced => op.snap.order # p.order
  BY DEF Follows, LogHist
<1>4. ASSUME IsMirror(op)
      PROVE  /\ Past(p, op.snap, n + 1)
             /\ \A i \in DOMAIN es : es[i].key[1] = "mirror" /\ es[i].to # "closed" => es[i].key[4] # op.snap
  <2>1. Past(p, p, n + 1)
    BY PastSelf
  <2>2. ASSUME NEW i \in DOMAIN es, es[i].key[1] = "mirror", es[i].to # "closed", es[i].key[4] = p
        PROVE  FALSE
    <3>1. Past(a, p, n)
      BY <2>2 DEF LogHist, EventPast
    <3>2. p = a
      BY <1>4, <3>1, PastNew DEF IsMirror, Follows
    <3> QED BY <1>4, <3>2 DEF Follows
  <2> QED BY <2>1, <2>2 DEF Follows
<1>5. Known(es, <<"import", p>>) => op.kind \in Still /\ op.snap = p
  BY <1>0, ImportPast DEF Follows
<1> QED BY <1>1, <1>2, <1>3, <1>4, <1>5 DEF OpOk

LEMMA PairStarts ==
  ASSUME NEW es, NEW r, NEW a \in Position, NEW p \in Position, NEW n \in Nat,
         Advances(a, p, n), NEW op, Follows(op, a, p, n), NEW o, OpOk(o, es, r, a, n)
  PROVE  OpPair(op, o) /\ OpPair(o, op)
<1>1. ASSUME op.kind = "fill", o.kind = "fill", o.snap.order = op.snap.order PROVE FALSE
  BY <1>1 DEF Follows, OpOk
<1>2. ASSUME IsMirror(op), IsMirror(o), o.snap = op.snap PROVE FALSE
  <2>1. Past(a, p, n) /\ p.qty > 0
    BY <1>2 DEF OpOk, Follows, IsMirror
  <2> QED BY <1>2, <2>1, PastNew DEF Follows
<1> QED BY <1>1, <1>2 DEF OpPair

\* An operator imports the JSON position: its event is never a repetition.
LEMMA ImportHist ==
  ASSUME NEW es \in Seq(Events), NEW r \in Row, NEW p \in Position, NEW n \in Nat,
         n + 1 <= Calls, GoodRow(r, n), LogHist(es, r, p, n), p.qty > 0, Bounded(p, n),
         Active(r) => r.snap # p,
         NEW x \in Row, x.born = (IF Active(r) THEN r.born ELSE n + 1), x.snap = p,
         x.state = DerivedState(p)
  PROVE  LogHist(Appended(es, Event(x, <<"import", p>>, From(r), x.state)), x, p, n + 1)
<1> DEFINE ev == Event(x, <<"import", p>>, From(r), x.state)
           fs == Append(es, ev)
<1>0. Bounded(p, n + 1) /\ p.qty \in Nat /\ Calls \in Nat /\ \A i \in DOMAIN es : es[i] \in Events
  BY PositionNumbers DEF Bounded
<1>1. ev.row = x.born /\ ev.key = <<"import", p>> /\ ev.from = From(r) /\ ev.to = x.state
  BY DEF Event
<1>2. Appended(es, ev) = fs
  BY <1>1 DEF LogHist, Appended
<1>3. x.born \in 1..(n + 1) /\ x.state \notin {"none", "closed"} /\ x # NoRow
  <2>1. x.born \in 1..(n + 1)
    BY ActiveRow
  <2> QED BY <2>1, <1>0, DerivedTyped DEF NoRow
<1>4. ev \in Events
  <2>1. x.born \in 1..Calls /\ From(r) \in States /\ x.state \in States
    BY <1>0, <1>3 DEF From, Row, States
  <2> QED BY <2>1 DEF Event, Events, Keys
<1>5. Advances(p, p, n)
  BY DEF Advances
<1>6. LogHist(es, r, p, n + 1)
  BY <1>5, HistAdvances
<1>7. EventOk(ev, n + 1) /\ EventPast(ev, p, n + 1)
  <2>1. Past(p, p, n + 1)
    BY <1>0, PastSelf
  <2> QED BY <1>1, <1>3, <2>1 DEF EventOk, EventPast, Kinds
<1> HIDE DEF ev, fs
<1>8. /\ \A i \in DOMAIN fs : fs[i] = ev \/ \E k \in DOMAIN es : fs[i] = es[k]
      /\ \A key : Known(fs, key) => Known(es, key) \/ ev.key = key
  BY <1>4, InAppend DEF fs
<1>9. Chain(fs, x) /\ x # NoRow
  <2>1. GoodRow(r, n) /\ (IF Active(r) THEN x.born = r.born ELSE x.born # r.born)
    BY DEF GoodRow, NoRow, Row
  <2> QED BY <1>1, <1>3, <1>4, <1>6, <2>1, ChainAppend DEF fs, LogHist
<1>10. \A i \in DOMAIN fs : EventOk(fs[i], n + 1) /\ EventPast(fs[i], p, n + 1)
  BY <1>6, <1>7, <1>8 DEF LogHist
<1>11. \A i \in DOMAIN fs : Active(x) /\ fs[i].row = x.born => fs[i].to # "closed"
  <2> SUFFICES ASSUME NEW k \in DOMAIN es, es[k].row = x.born, es[k].to = "closed" PROVE FALSE
    BY <1>1, <1>3, <1>8
  <2>1. ~Active(r)
    BY DEF LogHist
  <2>2. es[k].row <= n /\ es[k].row \in Nat
    BY <1>0 DEF LogHist, EventOk, Events
  <2> QED BY <2>1, <2>2
<1>12. p.qty > 0 /\ ~p.priced => ~Known(fs, <<"fill", p.order>>)
  BY <1>1, <1>6, <1>8 DEF LogHist
<1>13. Active(x)
  BY <1>3 DEF Active
<1> QED BY <1>2, <1>9, <1>10, <1>11, <1>12, <1>13 DEF ev, LogHist

----------------------------------------------------------------------------
(* What is under way for a slot, and each step of the specification. *)

UnderWay(s, o) ==
  \/ \E w \in Permits : worker[w].slot = s /\ worker[w].op = o
  \/ \E c \in Callers : c[1] = s /\ call[c].pc = "called" /\ call[c].op = o

Distinct(s) ==
  /\ \A v, w \in Permits : v # w /\ worker[v].slot = s /\ worker[w].slot = s =>
       worker[v].op.id # worker[w].op.id
  /\ \A c \in Callers, w \in Permits : c[1] = s /\ call[c].pc = "called" /\ worker[w].slot = s =>
       call[c].op.id # worker[w].op.id
  /\ \A c, d \in Callers : c # d /\ c[1] = s /\ d[1] = s /\ call[c].pc = "called" /\ call[d].pc = "called" =>
       call[c].op.id # call[d].op.id

History(s) ==
  /\ LogHist(log[s], row[s], position[s], calls)
  /\ \A o : UnderWay(s, o) => OpOk(o, log[s], row[s], position[s], calls)
  /\ \A o, m : UnderWay(s, o) /\ UnderWay(s, m) => OpPair(o, m)

HistoryInv == \A s \in Slots : Distinct(s) /\ History(s)

\* A step after which no more is under way for s than before.
Shrinks(s) ==
  /\ \A w \in Permits : worker'[w].slot = s => worker[w].slot = s /\ worker'[w].op = worker[w].op
  /\ \A c \in Callers : c[1] = s /\ call'[c].pc = "called" =>
                          call[c].pc = "called" /\ call'[c].op = call[c].op

LEMMA ShrinksDistinct ==
  ASSUME NEW s, Distinct(s), Shrinks(s)
  PROVE  Distinct(s)' /\ \A o : UnderWay(s, o)' => UnderWay(s, o)
<1>1. \A o : UnderWay(s, o)' => UnderWay(s, o)
  BY DEF UnderWay, Shrinks
<1>2. Distinct(s)'
  BY DEF Distinct, Shrinks
<1> QED BY <1>1, <1>2

LEMMA SlotParts ==
  ASSUME TypeInv, NEW s \in Slots
  PROVE  /\ position[s] \in Position /\ row[s] \in Row /\ log[s] \in Seq(Events)
         /\ calls \in Nat /\ calls \in 0..Calls
         /\ GoodRow(row[s], calls) /\ GoodPosition(position[s], calls)
         /\ \A o : UnderWay(s, o) => o \in Op /\ GoodOp(o, calls)
<1>1. /\ position[s] \in Position /\ row[s] \in Row /\ log[s] \in Seq(Events)
      /\ calls \in Nat /\ calls \in 0..Calls
      /\ GoodRow(row[s], calls) /\ GoodPosition(position[s], calls)
  BY TypeParts, PositionNumbers DEF TypeInv, Shape
<1>2. \A w \in Permits : worker[w].slot = s => worker[w].op \in Op /\ GoodOp(worker[w].op, calls)
  BY TypeParts, UnusedSlot DEF TypeInv, Shape, GoodWorker, Worker
<1>3. \A c \in Callers : call[c].pc = "called" => call[c].op \in Op /\ GoodOp(call[c].op, calls)
  BY TypeParts DEF TypeInv, Shape, GoodCall, Call
<1> QED BY <1>1, <1>2, <1>3 DEF UnderWay

LEMMA AdvancesSelf ==
  ASSUME NEW p \in Position, NEW n
  PROVE  Advances(p, p, n)
BY PositionNumbers DEF Advances

\* The row and its log stand still; the position may go on, and at most one
\* operation that follows it starts.
LEMMA HistoryMoves ==
  ASSUME TypeInv, NEW s \in Slots, History(s), row'[s] = row[s], log'[s] = log[s],
         calls' \in Nat, calls <= calls',
         NEW p \in Position, position'[s] = p, Advances(position[s], p, calls),
         NEW op, \A o : UnderWay(s, o)' =>
                   \/ UnderWay(s, o)
                   \/ /\ o = op /\ Follows(op, position[s], p, calls)
                      /\ calls' = calls + 1 /\ Bounded(p, calls + 1)
  PROVE  History(s)'
<1> DEFINE es == log[s]
           r == row[s]
           a == position[s]
           n == calls
           m == calls'
<1>0. /\ es \in Seq(Events) /\ r \in Row /\ a \in Position /\ n \in Nat /\ GoodRow(r, n)
      /\ \A o : UnderWay(s, o) => o \in Op /\ GoodOp(o, n)
  BY SlotParts
<1>1. LogHist(es, r, a, n) /\ (\A o : UnderWay(s, o) => OpOk(o, es, r, a, n))
      /\ \A o, q : UnderWay(s, o) /\ UnderWay(s, q) => OpPair(o, q)
  BY DEF History
<1>2. m \in Nat /\ n <= m /\ Advances(a, p, n)
  OBVIOUS
<1>3. \A o : UnderWay(s, o)' => UnderWay(s, o) \/ (o = op /\ Follows(op, a, p, n) /\ m = n + 1 /\ Bounded(p, n + 1))
  OBVIOUS
<1>4. log'[s] = es /\ row'[s] = r /\ position'[s] = p
  OBVIOUS
<1> HIDE DEF es, r, a, n, m
<1>5. LogHist(es, r, p, m)
  BY <1>0, <1>1, <1>2, HistAdvances
<1>6. \A o : UnderWay(s, o) => OpOk(o, es, r, p, m)
  BY <1>0, <1>1, <1>2, OpAdvances
<1>7. Follows(op, a, p, n) /\ m = n + 1 /\ Bounded(p, n + 1) => OpOk(op, es, r, p, m)
  BY <1>0, <1>1, <1>2, OpStarts
<1>8. Follows(op, a, p, n) => \A o : UnderWay(s, o) => OpPair(op, o) /\ OpPair(o, op)
  BY <1>0, <1>1, <1>2, PairStarts
<1>9. OpPair(op, op)
  BY DEF OpPair
<1>10. \A o : UnderWay(s, o)' => OpOk(o, es, r, p, m)
  BY <1>3, <1>6, <1>7
<1>11. \A o, q : UnderWay(s, o)' /\ UnderWay(s, q)' => OpPair(o, q)
  BY <1>1, <1>3, <1>8, <1>9
<1>12. LogHist(log[s], row[s], position[s], calls)'
  BY <1>4, <1>5 DEF m
<1>13. \A o : OpOk(o, log[s], row[s], position[s], calls)' <=> OpOk(o, es, r, p, m)
  BY <1>4 DEF m
<1>14. \A o : UnderWay(s, o)' => OpOk(o, log[s], row[s], position[s], calls)'
  BY <1>10, <1>13
<1> QED BY <1>11, <1>12, <1>14 DEF History

\* Every step that calls the database goes on from the position it finds.
LEMMA CallerFollows ==
  ASSUME TypeInv, NEW c \in Callers, NEW kind \in Kinds \cup Mirrors, NEW p \in Position,
         Intends(c, kind, p), calls + 1 \in 0..Calls,
         NEW op, op = [kind |-> kind, id |-> calls + 1, snap |-> p]
  PROVE  Advances(Found(c), p, calls) /\ Bounded(p, calls + 1) /\ Follows(op, Found(c), p, calls)
<1> DEFINE a == Found(c)
           n == calls
<1>0. a \in Position /\ n \in Nat /\ GoodPosition(a, n) /\ c[1] \in Slots
  BY CallerNames, SlotParts DEF Found
<1>1. op.kind = kind /\ op.id = n + 1 /\ op.snap = p
  OBVIOUS
<1>2. Open(c[1]) <=> a.qty > 0
  BY DEF Open, Found
<1> HIDE DEF n
<1>3. /\ a.order \in Nat /\ a.qty \in Nat /\ p.order \in Nat /\ p.qty \in Nat
      /\ p.partial \in Nat /\ p.reversal \in Nat /\ Bounded(a, n)
  BY <1>0, PositionNumbers DEF GoodPosition, Bounded
<1>4. CASE p.order = n + 1 /\ p.qty > 0 /\ p.partial = 0 /\ p.reversal = 0 /\ kind \in {"entry", "mirror"}
  <2>1. p # a /\ Bounded(p, n + 1)
    BY <1>0, <1>3, <1>4 DEF Bounded
  <2>2. Advances(a, p, n)
    BY <1>0, <1>3, <1>4 DEF Advances
  <2>3. Follows(op, a, p, n)
    BY <1>1, <1>4, <2>1 DEF Follows
  <2> QED BY <2>1, <2>2, <2>3 DEF n
<1>5. CASE Fills(c, kind, p)
  <2>1. /\ a.qty > 0 /\ ~a.priced /\ p.order = a.order /\ p.qty = a.qty /\ p.priced
        /\ p.reversal = a.reversal /\ p.partial = a.partial
    BY <1>2, <1>5 DEF Fills
  <2>2. p # a /\ Bounded(p, n + 1)
    BY <1>0, <1>3, <2>1 DEF Bounded
  <2>3. Advances(a, p, n)
    BY <2>1 DEF Advances
  <2>4. Follows(op, a, p, n)
    BY <1>1, <2>1, <2>2 DEF Follows
  <2> QED BY <2>2, <2>3, <2>4 DEF n
<1>6. CASE Trims(kind, c, p)
  <2>1. /\ a.qty > 0 /\ p.order = a.order /\ p.qty > 0 /\ p.priced = a.priced
        /\ \/ p.partial = n + 1 /\ p.reversal = a.reversal
           \/ p.reversal = n + 1 /\ p.partial = a.partial
        /\ kind \in {"partial", "pending"} \cup Mirrors
    BY <1>2, <1>6 DEF Trims, n
  <2>2. p # a /\ Bounded(p, n + 1)
    BY <1>0, <1>3, <2>1 DEF Bounded
  <2>3. Advances(a, p, n)
    <3>1. p.partial > n \/ p.reversal > n
      BY <1>0, <2>1
    <3> QED BY <2>1, <3>1 DEF Advances
  <2>4. Follows(op, a, p, n)
    BY <1>1, <2>1, <2>2 DEF Follows, Mirrors
  <2> QED BY <2>2, <2>3, <2>4 DEF n
<1>7. CASE Clears(kind, p)
  <2>1. p.qty = 0 /\ p.order = 0 /\ p.partial = 0 /\ p.reversal = 0 /\ kind # "fill"
    BY <1>7, FlatFacts DEF Clears, Mirrors, Flat
  <2>2. Bounded(p, n + 1)
    BY <1>0, <2>1 DEF Bounded
  <2>3. Advances(a, p, n)
    BY <2>1 DEF Advances
  <2>4. Follows(op, a, p, n)
    BY <1>1, <2>1 DEF Follows, IsMirror
  <2> QED BY <2>2, <2>3, <2>4 DEF n
<1>8. CASE Marks(kind, c, p)
  <2>1. p = a /\ kind \in Still
    BY <1>8 DEF Marks, Still
  <2>2. Bounded(p, n + 1)
    BY <1>0, <1>3, <2>1 DEF Bounded
  <2>3. Advances(a, p, n)
    BY <1>0, <2>1, PositionNumbers DEF Advances
  <2>4. Follows(op, a, p, n)
    BY <1>1, <2>1 DEF Follows, IsMirror, Mirrors, Still
  <2> QED BY <2>2, <2>3, <2>4 DEF n
<1> QED BY <1>4, <1>5, <1>6, <1>7, <1>8 DEF Intends, Enters, n

LEMMA CallerHistory ==
  ASSUME TypeInv, NEW s \in Slots, Distinct(s), History(s), NEW c \in Callers, Acts(c)
  PROVE  Distinct(s)' /\ History(s)'
<1> DEFINE t == c[1]
<1>1. PICK kind \in Kinds \cup Mirrors, p \in Position, next \in Decisions :
        Sets(c, kind, p, next) /\ Intends(c, kind, p)
  BY CallerSets
<1> DEFINE op == [kind |-> kind, id |-> calls + 1, snap |-> p]
           x == [pc |-> "called", out |-> "none", next |-> next, op |-> op]
<1>2. /\ calls < Calls /\ calls' = calls + 1 /\ call' = [call EXCEPT ![c] = x]
      /\ position' = [position EXCEPT ![t] = p] /\ UNCHANGED <<row, log, worker>>
  BY <1>1 DEF Sets, Calling
<1>3. x.pc = "called" /\ x.op = op /\ op.id = calls + 1
  OBVIOUS
<1>4. t \in Slots /\ call \in [Callers -> Call] /\ position \in [Slots -> Position]
      /\ position[s] \in Position /\ calls \in Nat /\ calls + 1 \in 0..Calls
      /\ \A o : UnderWay(s, o) => o \in Op /\ GoodOp(o, calls)
  <2>1. calls \in Nat /\ Calls \in Nat
    BY SlotParts, PositionNumbers
  <2> QED BY <1>2, <2>1, CallerNames, TypeParts, SlotParts DEF TypeInv
<1>5. Advances(position[t], p, calls) /\ Bounded(p, calls + 1) /\ Follows(op, position[t], p, calls)
  BY <1>1, <1>4, CallerFollows DEF Found
<1> HIDE DEF op, x
<1>6. call'[c] = x /\ \A d \in Callers \ {c} : call'[d] = call[d]
  BY <1>2, <1>4
<1>7. Advances(position[s], position[s], calls)
  BY <1>4, AdvancesSelf
<1>8. CASE s # t
  <2>1. Shrinks(s)
    BY <1>2, <1>6, <1>8 DEF Shrinks
  <2>2. Distinct(s)' /\ \A o : UnderWay(s, o)' => UnderWay(s, o)
    BY <2>1, ShrinksDistinct
  <2>3. position'[s] = position[s] /\ row'[s] = row[s] /\ log'[s] = log[s]
    BY <1>2, <1>4, <1>8
  <2>4. History(s)'
    BY <1>2, <1>4, <1>7, <2>2, <2>3, HistoryMoves
  <2> QED BY <2>2, <2>4
<1>9. CASE s = t
  <2>1. position'[s] = p /\ row'[s] = row[s] /\ log'[s] = log[s]
    BY <1>2, <1>4, <1>9
  <2>2. \A o : UnderWay(s, o)' => UnderWay(s, o) \/ o = op
    BY <1>2, <1>3, <1>6 DEF UnderWay
  <2>3. History(s)'
    BY <1>2, <1>4, <1>5, <1>9, <2>1, <2>2, HistoryMoves
  <2>4. \A o : UnderWay(s, o) => o.id # calls + 1
    BY <1>4 DEF GoodOp
  <2>5. /\ \A w \in Permits : worker[w].slot = s => worker[w].op.id # calls + 1
        /\ \A d \in Callers : d[1] = s /\ call[d].pc = "called" => call[d].op.id # calls + 1
    BY <2>4 DEF UnderWay
  <2>6. Distinct(s)'
    BY <1>2, <1>3, <1>6, <2>5 DEF Distinct
  <2> QED BY <2>3, <2>6
<1> QED BY <1>8, <1>9

\* A step that leaves row, log and position alone and starts nothing.
LEMMA ShrinksHistory ==
  ASSUME TypeInv, NEW s \in Slots, Distinct(s), History(s), Shrinks(s),
         UNCHANGED <<position, row, log, calls>>
  PROVE  Distinct(s)' /\ History(s)'
<1>1. Distinct(s)' /\ \A o : UnderWay(s, o)' => UnderWay(s, o)
  BY ShrinksDistinct
<1>2. position[s] \in Position /\ calls \in Nat /\ Advances(position[s], position[s], calls)
  BY SlotParts, AdvancesSelf
<1>3. History(s)'
  BY <1>1, <1>2, HistoryMoves
<1> QED BY <1>1, <1>3

LEMMA ThinksHistory ==
  ASSUME TypeInv, NEW s \in Slots, Distinct(s), History(s), NEW c \in Callers, Thinks(c)
  PROVE  Distinct(s)' /\ History(s)'
<1>1. PICK pc \in Decisions, p \in Position : Turns(c, pc, p)
  BY ThinksTurns
<1> DEFINE x == [Idle EXCEPT !.pc = pc, !.op = [NoOp EXCEPT !.snap = p]]
<1>2. call' = [call EXCEPT ![c] = x] /\ UNCHANGED <<position, row, log, worker, calls>>
  BY <1>1 DEF Turns
<1>3. x.pc # "called"
  BY DEF Idle, Decisions
<1> HIDE DEF x
<1>4. \A d \in Callers : call'[d].pc = "called" => call'[d] = call[d]
  BY <1>2, <1>3, TypeParts DEF TypeInv
<1>5. Shrinks(s)
  BY <1>2, <1>4 DEF Shrinks
<1> QED BY <1>2, <1>5, ShrinksHistory

LEMMA SubmitHistory ==
  ASSUME TypeInv, NEW s \in Slots, Distinct(s), History(s), NEW c \in Callers, Submit(c)
  PROVE  Distinct(s)' /\ History(s)'
<1>1. PICK w \in Permits : /\ worker[w] = Unused
                           /\ worker' = [worker EXCEPT ![w] = [slot |-> c[1], op |-> call[c].op, owner |-> c]]
  BY DEF Submit
<1>2. /\ call[c].pc = "called" /\ call' = [call EXCEPT ![c].pc = "waiting"]
      /\ UNCHANGED <<position, row, log, calls>>
  BY DEF Submit
<1>3. /\ call \in [Callers -> Call] /\ worker \in [Permits -> Worker]
      /\ position[s] \in Position /\ calls \in Nat /\ worker[w].slot \notin Slots
  BY <1>1, TypeParts, SlotParts, UnusedSlot DEF TypeInv
<1> DEFINE op == call[c].op
<1>4. /\ worker'[w].slot = c[1] /\ worker'[w].op = op
      /\ \A v \in Permits \ {w} : worker'[v] = worker[v]
  BY <1>1, <1>3
<1>5. call'[c].pc = "waiting" /\ \A d \in Callers \ {c} : call'[d] = call[d]
  BY <1>2, <1>3 DEF Call
<1>6. \A o : UnderWay(s, o)' => UnderWay(s, o)
  BY <1>2, <1>4, <1>5 DEF UnderWay
<1>7. Distinct(s)'
  <2>1. /\ \A v \in Permits : worker'[v].slot = s =>
             (v = w /\ c[1] = s /\ worker'[v].op = op) \/ (v # w /\ worker[v].slot = s /\ worker'[v].op = worker[v].op)
        /\ \A d \in Callers : call'[d].pc = "called" => d # c /\ call[d].pc = "called" /\ call'[d].op = call[d].op
    BY <1>4, <1>5
  <2> QED BY <1>2, <2>1 DEF Distinct
<1>8. Advances(position[s], position[s], calls)
  BY <1>3, AdvancesSelf
<1>9. History(s)'
  BY <1>2, <1>3, <1>6, <1>8, HistoryMoves
<1> QED BY <1>7, <1>9

LEMMA EnvelopeHistory ==
  ASSUME TypeInv, NEW s \in Slots, Distinct(s), History(s), NEW c \in Callers, Envelope(c)
  PROVE  Distinct(s)' /\ History(s)'
<1>0. call \in [Callers -> Call] /\ worker \in [Permits -> Worker]
  BY TypeParts DEF TypeInv
<1>1. CASE Submit(c)
  BY <1>1, SubmitHistory
<1>2. CASE Skip(c) \/ Saturated(c) \/ Record(c)
  <2>1. call' = [call EXCEPT ![c] = Returned(c)] /\ worker' = worker
        /\ UNCHANGED <<position, row, log, calls>>
    BY <1>2 DEF Skip, Saturated, Record
  <2>2. Returned(c).pc # "called"
    BY ReturnedTyped DEF Decisions
  <2>3. \A d \in Callers : call'[d] = IF d = c THEN Returned(c) ELSE call[d]
    BY <1>0, <2>1
  <2>4. Shrinks(s)
    BY <2>1, <2>2, <2>3 DEF Shrinks
  <2> QED BY <2>1, <2>4, ShrinksHistory
<1>3. CASE Abandon(c)
  <2> DEFINE x == [call[c] EXCEPT !.pc = "answered", !.out = "budget"]
  <2>1. call' = [call EXCEPT ![c] = x] /\ UNCHANGED <<position, row, log, calls>>
        /\ worker' = [w \in Permits |-> IF worker[w].owner = c THEN [worker[w] EXCEPT !.owner = NoCaller]
                                        ELSE worker[w]]
    BY <1>3 DEF Abandon
  <2>2. x.pc = "answered"
    BY <1>0 DEF Call
  <2> HIDE DEF x
  <2>3. \A d \in Callers : call'[d] = IF d = c THEN x ELSE call[d]
    BY <1>0, <2>1
  <2>4. \A w \in Permits : worker'[w].slot = worker[w].slot /\ worker'[w].op = worker[w].op
    BY <1>0, <2>1 DEF Worker
  <2>5. Shrinks(s)
    BY <2>2, <2>3, <2>4 DEF Shrinks
  <2> QED BY <2>1, <2>5, ShrinksHistory
<1> QED BY <1>1, <1>2, <1>3 DEF Envelope

\* The permit is free again, and the caller is told.
LEMMA AnsweredShrinks ==
  ASSUME TypeInv, NEW w \in Permits, NEW out, Answered(w, out), NEW s \in Slots
  PROVE  Shrinks(s) /\ worker'[w].slot # s /\ \A v \in Permits \ {w} : worker'[v] = worker[v]
<1> DEFINE c == worker[w].owner
           x == [call[c] EXCEPT !.pc = "answered", !.out = out]
<1>0. call \in [Callers -> Call] /\ worker \in [Permits -> Worker] /\ c \in Callers \cup {NoCaller}
  BY TypeParts DEF TypeInv, Worker
<1>1. /\ worker' = [worker EXCEPT ![w] = Unused]
      /\ call' = IF c = NoCaller THEN call ELSE [call EXCEPT ![c] = x]
  BY DEF Answered
<1>2. c \in Callers => x.pc = "answered"
  BY <1>0 DEF Call
<1>3. worker'[w].slot # s /\ \A v \in Permits \ {w} : worker'[v] = worker[v]
  BY <1>0, <1>1, UnusedSlot
<1> HIDE DEF c, x
<1>4. \A d \in Callers : call'[d].pc = "called" => call'[d] = call[d]
  BY <1>0, <1>1, <1>2
<1> QED BY <1>3, <1>4 DEF Shrinks

LEMMA RunHistory ==
  ASSUME TypeInv, NEW s \in Slots, Distinct(s), History(s), NEW w \in Permits, Run(w), worker[w].slot = s
  PROVE  Distinct(s)' /\ History(s)'
<1> DEFINE op == worker[w].op
           e == Effect(op, row[s], log[s])
<1>0. /\ log[s] \in Seq(Events) /\ row[s] \in Row /\ position[s] \in Position /\ calls \in 0..Calls
      /\ GoodRow(row[s], calls) /\ \A o : UnderWay(s, o) => o \in Op /\ GoodOp(o, calls)
  BY SlotParts
<1>1. /\ row' = [row EXCEPT ![s] = e.row] /\ log' = [log EXCEPT ![s] = e.log] /\ Answered(w, e.out)
      /\ UNCHANGED <<position, calls>>
  BY DEF Run
<1>2. UnderWay(s, op)
  BY DEF UnderWay
<1>3. Shrinks(s) /\ worker'[w].slot # s /\ \A v \in Permits \ {w} : worker'[v] = worker[v]
  BY <1>1, AnsweredShrinks
<1>4. Distinct(s)' /\ \A o : UnderWay(s, o)' => UnderWay(s, o)
  BY <1>3, ShrinksDistinct
<1>5. \A o : UnderWay(s, o)' => o.id # op.id
  <2>1. \A v \in Permits : worker'[v].slot = s => worker'[v].op.id # op.id
    BY <1>3 DEF Distinct
  <2>2. \A c \in Callers : c[1] = s /\ call'[c].pc = "called" => call'[c].op.id # op.id
    BY <1>3 DEF Distinct, Shrinks
  <2> QED BY <2>1, <2>2 DEF UnderWay
<1>6. row'[s] = e.row /\ log'[s] = e.log /\ position'[s] = position[s] /\ calls' = calls
  BY <1>1, TypeParts DEF TypeInv
<1> HIDE DEF op
<1>7. /\ op \in Op /\ GoodOp(op, calls) /\ LogHist(log[s], row[s], position[s], calls)
      /\ OpOk(op, log[s], row[s], position[s], calls)
  BY <1>0, <1>2 DEF History
<1>8. LogHist(e.log, e.row, position[s], calls)
  BY <1>0, <1>7, EffectHist
<1>9. ASSUME NEW o, UnderWay(s, o)' PROVE OpOk(o, e.log, e.row, position[s], calls)
  <2>1. o \in Op /\ OpOk(o, log[s], row[s], position[s], calls) /\ OpPair(op, o) /\ o.id # op.id
    BY <1>0, <1>2, <1>4, <1>5, <1>9 DEF History
  <2> QED BY <1>0, <1>7, <2>1, EffectOthers
<1> HIDE DEF e
<1>10. LogHist(log[s], row[s], position[s], calls)'
  BY <1>6, <1>8
<1>11. \A o : OpOk(o, e.log, e.row, position[s], calls) <=> OpOk(o, log[s], row[s], position[s], calls)'
  BY <1>6
<1>12. \A o : UnderWay(s, o)' => OpOk(o, log[s], row[s], position[s], calls)'
  BY <1>9, <1>11
<1>13. \A o, m : UnderWay(s, o)' /\ UnderWay(s, m)' => OpPair(o, m)
  BY <1>4 DEF History
<1>14. History(s)'
  BY <1>10, <1>12, <1>13 DEF History
<1> QED BY <1>4, <1>14

LEMMA DatabaseHistory ==
  ASSUME TypeInv, NEW s \in Slots, Distinct(s), History(s), NEW w \in Permits, Run(w) \/ Break(w)
  PROVE  Distinct(s)' /\ History(s)'
<1>1. CASE Run(w) /\ worker[w].slot = s
  BY <1>1, RunHistory
<1>2. CASE Run(w) /\ worker[w].slot # s
  <2>1. PICK t, r, es, out : /\ t # s /\ row' = [row EXCEPT ![t] = r] /\ log' = [log EXCEPT ![t] = es]
                             /\ Answered(w, out) /\ UNCHANGED <<position, calls>>
    BY <1>2 DEF Run
  <2>2. Distinct(s)' /\ \A o : UnderWay(s, o)' => UnderWay(s, o)
    BY <2>1, AnsweredShrinks, ShrinksDistinct
  <2>3. row'[s] = row[s] /\ log'[s] = log[s] /\ position'[s] = position[s] /\ calls' = calls
    BY <2>1, TypeParts DEF TypeInv
  <2>4. position[s] \in Position /\ calls \in Nat /\ Advances(position[s], position[s], calls)
    BY SlotParts, AdvancesSelf
  <2>5. History(s)'
    BY <2>2, <2>3, <2>4, HistoryMoves
  <2> QED BY <2>2, <2>5
<1>3. CASE Break(w)
  <2>1. UNCHANGED <<position, row, log, calls>> /\ \E out : Answered(w, out)
    BY <1>3 DEF Break
  <2> QED BY <2>1, AnsweredShrinks, ShrinksHistory
<1> QED BY <1>1, <1>2, <1>3

LEMMA RestartHistory ==
  ASSUME TypeInv, NEW s \in Slots, Distinct(s), History(s), Restart
  PROVE  Distinct(s)' /\ History(s)'
<1>1. call' = [c \in Callers |-> Idle] /\ worker' = [w \in Permits |-> Unused]
      /\ UNCHANGED <<position, row, log, calls>>
  BY DEF Restart
<1>2. Shrinks(s)
  BY <1>1, UnusedSlot, IdleTyped DEF Shrinks
<1> QED BY <1>1, <1>2, ShrinksHistory

LEMMA ImportHistory ==
  ASSUME TypeInv, NEW s \in Slots, Distinct(s), History(s), NEW t \in Slots, Import(t)
  PROVE  Distinct(s)' /\ History(s)'
<1> DEFINE r == row[t]
           base == IF Active(r) THEN r ELSE [NoRow EXCEPT !.born = calls + 1]
           next == [Applied(base, position[t]) EXCEPT !.imported = TRUE]
           ev == Event(next, <<"import", position[t]>>, From(r), next.state)
<1>1. /\ Quiet(t) /\ position[t].qty > 0 /\ calls < Calls /\ calls' = calls + 1
      /\ Active(r) => r.snap # position[t]
      /\ row' = [row EXCEPT ![t] = next] /\ log' = [log EXCEPT ![t] = Appended(log[t], ev)]
      /\ UNCHANGED <<position, call, worker>>
  BY DEF Import, From, Open
<1>2. /\ r \in Row /\ position[t] \in Position /\ calls \in Nat /\ calls + 1 <= Calls /\ calls + 1 \in 0..Calls
      /\ GoodRow(r, calls) /\ Bounded(position[t], calls) /\ log[t] \in Seq(Events)
  <2>1. GoodPosition(position[t], calls) /\ position[t] \in Position /\ calls \in Nat /\ r \in Row
        /\ GoodRow(r, calls) /\ log[t] \in Seq(Events)
    BY SlotParts
  <2> QED BY <1>1, <2>1, PositionNumbers DEF GoodPosition, Bounded
<1>3. /\ next \in Row /\ next.born = (IF Active(r) THEN r.born ELSE calls + 1)
      /\ next.snap = position[t] /\ next.state = DerivedState(position[t])
  <2>1. base \in Row /\ base.born = (IF Active(r) THEN r.born ELSE calls + 1)
    BY <1>2, NoRowTyped DEF Row
  <2> HIDE DEF base, r
  <2>2. /\ Applied(base, position[t]) \in Row /\ Applied(base, position[t]).born = base.born
        /\ Applied(base, position[t]).snap = position[t]
        /\ Applied(base, position[t]).state = DerivedState(position[t])
    BY <1>2, <2>1, AppliedTyped
  <2> QED BY <2>1, <2>2 DEF Row
<1>4. Shrinks(s)
  BY <1>1 DEF Shrinks
<1>5. Distinct(s)' /\ \A o : UnderWay(s, o)' => UnderWay(s, o)
  BY <1>4, ShrinksDistinct
<1>6. CASE s # t
  <2> HIDE DEF next, ev
  <2>1. position'[s] = position[s] /\ row'[s] = row[s] /\ log'[s] = log[s]
    BY <1>1, <1>6, TypeParts DEF TypeInv
  <2>2. position[s] \in Position /\ calls \in Nat /\ Advances(position[s], position[s], calls)
    BY SlotParts, AdvancesSelf
  <2>3. History(s)'
    <3>1. calls' \in Nat /\ calls <= calls'
      BY <1>1, <1>2
    <3> QED BY <1>5, <2>1, <2>2, <3>1, HistoryMoves
  <2> QED BY <1>5, <2>3
<1>7. CASE s = t
  <2>1. row'[t] = next /\ log'[t] = Appended(log[t], ev) /\ position'[t] = position[t]
    BY <1>1, TypeParts DEF TypeInv
  <2>2. LogHist(log[t], r, position[t], calls)
    BY <1>7 DEF History
  <2> HIDE DEF next, r
  <2>3. LogHist(Appended(log[t], ev), next, position[t], calls + 1)
    BY <1>1, <1>2, <1>3, <2>2, ImportHist
  <2>4. LogHist(log[t], row[t], position[t], calls)'
    BY <1>1, <2>1, <2>3
  <2>5. \A o : ~UnderWay(t, o)
    <3>1. \A c \in Callers : c[1] = t => call[c].pc # "called"
      BY <1>1 DEF Quiet, Decisions
    <3> QED BY <1>1, <3>1 DEF Quiet, UnderWay
  <2>6. History(t)'
    BY <1>5, <1>7, <2>4, <2>5 DEF History
  <2> QED BY <1>5, <1>7, <2>6
<1> QED BY <1>6, <1>7

LEMMA HistoryNext == TypeInv /\ HistoryInv /\ [Next]_vars => HistoryInv'
<1> SUFFICES ASSUME TypeInv, HistoryInv, [Next]_vars, NEW s \in Slots
             PROVE  Distinct(s)' /\ History(s)'
  BY DEF HistoryInv
<1>1. Distinct(s) /\ History(s)
  BY DEF HistoryInv
<1>2. CASE UNCHANGED vars
  <2>1. Shrinks(s) /\ UNCHANGED <<position, row, log, calls>>
    BY <1>2 DEF vars, Shrinks
  <2> QED BY <1>1, <2>1, ShrinksHistory
<1>3. CASE \E c \in Callers : Acts(c) \/ Thinks(c)
  BY <1>1, <1>3, CallerHistory, ThinksHistory
<1>4. CASE \E c \in Callers : Envelope(c)
  BY <1>1, <1>4, EnvelopeHistory
<1>5. CASE \E w \in Permits : Run(w) \/ Break(w)
  BY <1>1, <1>5, DatabaseHistory
<1>6. CASE Restart
  BY <1>1, <1>6, RestartHistory
<1>7. CASE \E t \in Slots : Import(t)
  BY <1>1, <1>7, ImportHistory
<1> QED BY <1>2, <1>3, <1>4, <1>5, <1>6, <1>7, Steps

LEMMA InitHistory == Init => HistoryInv
<1> SUFFICES ASSUME Init, NEW s \in Slots PROVE Distinct(s) /\ History(s)
  BY DEF HistoryInv
<1>1. /\ position[s] = Flat /\ row[s] = NoRow /\ log[s] = <<>> /\ calls = 0
      /\ \A w \in Permits : worker[w] = Unused
      /\ \A c \in Callers : call[c] = Idle
  BY DEF Init
<1>2. Distinct(s) /\ \A o : ~UnderWay(s, o)
  BY <1>1, UnusedSlot, IdleTyped DEF Distinct, UnderWay
<1>3. LogHist(<<>>, NoRow, Flat, 0)
  <2>1. DOMAIN <<>> = {} /\ Len(<<>>) = 0 /\ 1..(0 - 1) = {}
    OBVIOUS
  <2> QED BY <2>1, FlatFacts DEF LogHist, Chain, Known
<1> QED BY <1>1, <1>2, <1>3 DEF History

(* The event log tells the history of the rows, whatever was repeated,
   refused, abandoned or committed late: the events of one row follow each
   other and end in the row's state, and a row starts when the one before it
   is closed.  The only gaps are those of Skipped. *)
THEOREM LogTellsHistory == Spec => []EventsFollowRows
<1>1. HistoryInv => EventsFollowRows
  <2> SUFFICES ASSUME NEW s \in Slots, LogHist(log[s], row[s], position[s], calls)
               PROVE  Chain(log[s], row[s])
    BY DEF HistoryInv, History, EventsFollowRows, Chain
  <2> QED BY DEF LogHist
<1> QED BY InitTyped, NextTyped, InitHistory, HistoryNext, <1>1, PTL DEF Spec

=============================================================================
