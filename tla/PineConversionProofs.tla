------------------------ MODULE PineConversionProofs ------------------------
(* Proofs about PineConversion, for every number of requests, users,        *)
(* versions and workers.                                                   *)
EXTENDS PineConversion, FiniteSetTheorems, TLAPS

\* What a thread holds fits where it is.
HasReason(w, r) ==
    /\ at[w][r] = "read failed" => verdict[w][r] \in Reasons
    /\ at[w][r] = "write failed" => verdict[w][r] \in Failures \cup {"queued"}
HasCandidate(w, r) ==
    at[w][r] \in {"validate", "report", "finish"} => candidate[r] \in Versions
WellPlaced == \A w \in Workers, r \in Requests : HasReason(w, r) /\ HasCandidate(w, r)

LEMMA InitTyped == Init => TypeOK /\ WellPlaced
<1> SUFFICES ASSUME Init PROVE TypeOK /\ WellPlaced
  OBVIOUS
<1>1. TypeOK
  BY DEF Init, NothingFound, TypeOK, Statuses, VersionStatuses, Places, Reasons, Active
<1>2. WellPlaced
  BY DEF Init, WellPlaced, HasReason, HasCandidate
<1>3. QED
  BY <1>1, <1>2

LEMMA TypeStep ==
    ASSUME TypeOK, WellPlaced, [Next]_vars
    PROVE  TypeOK'
<1>status. status \in [Requests -> Statuses]
  BY DEF TypeOK
<1>tries. tries \in [Requests -> Nat]
  BY DEF TypeOK
<1>candidate. candidate \in [Requests -> Versions \cup {None}]
  BY DEF TypeOK
<1>expired. expired \in [Requests -> BOOLEAN]
  BY DEF TypeOK
<1>vstatus. vstatus \in [Versions -> VersionStatuses]
  BY DEF TypeOK
<1>method. method \in [Versions -> {"none", "manual", "pending", "accepted"}]
  BY DEF TypeOK
<1>reported. reported \subseteq Versions
  BY DEF TypeOK
<1>checking. checking \subseteq Versions
  BY DEF TypeOK
<1>rejecting. rejecting \subseteq Requests
  BY DEF TypeOK
<1>loop. loop \in [Workers -> {"down", "start", "recover", "run"}]
  BY DEF TypeOK
<1>found. found \in [Workers -> [Requests -> {"kept", "queued", "provider_failed"}]]
  BY DEF TypeOK
<1>at. at \in [Workers -> [Requests -> Places]]
  BY DEF TypeOK
<1>verdict. verdict \in [Workers -> [Requests -> Reasons \cup Active]]
  BY DEF TypeOK
<1>failures. failures \in Nat
  BY DEF TypeOK
<1>cancels. cancels \in Nat
  BY DEF TypeOK
<1>crashes. crashes \in Nat
  BY DEF TypeOK
<1>1. CASE UNCHANGED vars
  BY <1>1 DEF vars, requests, versions, workers, counters, TypeOK
<1>2. ASSUME NEW r \in Requests, Create(r) PROVE TypeOK'
  <2>1. status' \in [Requests -> Statuses]
    BY <1>2, <1>status DEF Create, Enqueue, Statuses, Active, Ended
  <2>2. UNCHANGED <<rejecting, tries, candidate, expired, vstatus, method, reported, checking, loop,
     found, at, verdict, failures, cancels, crashes>>
    BY <1>2 DEF Create, Enqueue, vars, requests, versions, workers, counters
  <2>3. QED
    BY <2>1, <2>2, TypeOK DEF TypeOK
<1>3. ASSUME NEW r \in Requests, Cancel(r) PROVE TypeOK'
  <2>1. status' \in [Requests -> Statuses]
    BY <1>3, <1>status DEF Cancel, Statuses, Active, Ended
  <2>2. cancels' \in Nat
    BY <1>3, <1>cancels DEF Cancel
  <2>3. UNCHANGED <<rejecting, tries, candidate, expired, vstatus, method, reported, checking, loop,
     found, at, verdict, failures, crashes>>
    BY <1>3 DEF Cancel, vars, requests, versions, workers, counters
  <2>4. QED
    BY <2>1, <2>2, <2>3, TypeOK DEF TypeOK
<1>4. ASSUME NEW r \in Requests, Accept(r) PROVE TypeOK'
  <2>1. status' \in [Requests -> Statuses]
    BY <1>4, <1>status DEF Accept, Statuses, Active, Ended
  <2>2. method' \in [Versions -> {"none", "manual", "pending", "accepted"}]
    BY <1>4, <1>method DEF Accept
  <2>3. UNCHANGED <<rejecting, tries, candidate, expired, vstatus, reported, checking, loop,
     found, at,
     verdict, failures, cancels, crashes>>
    BY <1>4 DEF Accept, vars, requests, versions, workers, counters
  <2>4. QED
    BY <2>1, <2>2, <2>3, TypeOK DEF TypeOK
<1>5. ASSUME NEW r \in Requests, Reject(r) PROVE TypeOK'
  <2>1. status' \in [Requests -> Statuses]
    BY <1>5, <1>status DEF Reject, ReadCandidate, WriteRejected, requests, Statuses, Ended
  <2>2. vstatus' \in [Versions -> VersionStatuses]
    BY <1>5, <1>vstatus DEF Reject, ReadCandidate, WriteRejected, VersionStatuses, Open, InReview
  <2>3. UNCHANGED <<tries, candidate, expired, method, reported, checking, loop, found, at,
     verdict, failures, cancels, crashes>>
    BY <1>5 DEF Reject, ReadCandidate, WriteRejected, vars, requests, versions, workers, counters
  <2>4. rejecting' \subseteq Requests
    BY <1>5, TypeOK DEF Reject, ReadCandidate, WriteRejected, TypeOK
  <2>5. QED
    BY <2>1, <2>2, <2>3, <2>4, TypeOK DEF TypeOK
<1>6. ASSUME NEW r \in Requests, Expire(r) PROVE TypeOK'
  <2>1. expired' \in [Requests -> BOOLEAN]
    BY <1>6, <1>expired DEF Expire
  <2>2. UNCHANGED <<rejecting, status, tries, candidate, vstatus, method, reported, checking, loop,
     found, at, verdict, failures, cancels, crashes>>
    BY <1>6 DEF Expire, vars, requests, versions, workers, counters
  <2>3. QED
    BY <2>1, <2>2, TypeOK DEF TypeOK
<1>7. ASSUME NEW p \in Requests, NEW r \in Requests, Retry(p, r) PROVE TypeOK'
  <2>1. status' \in [Requests -> Statuses]
    BY <1>7, <1>status DEF Retry, Enqueue, Statuses, Active, Ended
  <2>2. UNCHANGED <<rejecting, tries, candidate, expired, vstatus, method, reported, checking, loop,
     found, at, verdict, failures, cancels, crashes>>
    BY <1>7 DEF Retry, Enqueue, vars, requests, versions, workers, counters
  <2>3. QED
    BY <2>1, <2>2, TypeOK DEF TypeOK
<1>8. ASSUME NEW v \in Versions, Upload(v) PROVE TypeOK'
  <2>1. vstatus' \in [Versions -> VersionStatuses]
    BY <1>8, <1>vstatus DEF Upload, VersionStatuses, Open, InReview
  <2>2. method' \in [Versions -> {"none", "manual", "pending", "accepted"}]
    BY <1>8, <1>method DEF Upload
  <2>3. UNCHANGED <<rejecting, status, tries, candidate, expired, reported, checking, loop,
     found, at,
     verdict, failures, cancels, crashes>>
    BY <1>8 DEF Upload, vars, requests, versions, workers, counters
  <2>4. QED
    BY <2>1, <2>2, <2>3, TypeOK DEF TypeOK
<1>9. ASSUME NEW v \in Versions, Check(v) PROVE TypeOK'
  <2>1. checking' \subseteq Versions
    BY <1>9, <1>checking DEF Check
  <2>2. UNCHANGED <<rejecting, status, tries, candidate, expired, vstatus, method, reported,
     loop, found,
     at, verdict, failures, cancels, crashes>>
    BY <1>9 DEF Check, vars, requests, versions, workers, counters
  <2>3. QED
    BY <2>1, <2>2, TypeOK DEF TypeOK
<1>10. ASSUME NEW v \in Versions, Checked(v) PROVE TypeOK'
  <2>1. vstatus' \in [Versions -> VersionStatuses]
    BY <1>10, <1>vstatus DEF Checked, Report, ReportAgain, VersionStatuses, Open, InReview
  <2>2. reported' \subseteq Versions
    BY <1>10, <1>reported DEF Checked, Report, ReportAgain
  <2>3. checking' \subseteq Versions
    BY <1>10, <1>checking DEF Checked, Report, ReportAgain
  <2>4. UNCHANGED <<rejecting, status, tries, candidate, expired, method, loop, found, at, verdict,
     failures, cancels, crashes>>
    BY <1>10 DEF Checked, Report, ReportAgain, vars, requests, versions, workers, counters
  <2>5. QED
    BY <2>1, <2>2, <2>3, <2>4, TypeOK DEF TypeOK
<1>11. ASSUME NEW v \in Versions, Submit(v) PROVE TypeOK'
  <2>1. vstatus' \in [Versions -> VersionStatuses]
    BY <1>11, <1>vstatus DEF Submit, MaySubmit, VersionStatuses, Open, InReview
  <2>2. UNCHANGED <<rejecting, status, tries, candidate, expired, method, reported, checking, loop,
     found, at, verdict, failures, cancels, crashes>>
    BY <1>11 DEF Submit, MaySubmit, vars, requests, versions, workers, counters
  <2>3. QED
    BY <2>1, <2>2, TypeOK DEF TypeOK
<1>12. ASSUME NEW v \in Versions, Review(v) PROVE TypeOK'
  <2>1. vstatus' \in [Versions -> VersionStatuses]
    <3>1. PICK step \in Decisions : vstatus' = [vstatus EXCEPT ![v] = step[2]]
      BY <1>12 DEF Review
    <3>2. step[2] \in VersionStatuses
      BY DEF Decisions, VersionStatuses, InReview
    <3>3. QED
      BY <3>1, <3>2, <1>vstatus
  <2>2. UNCHANGED <<rejecting, status, tries, candidate, expired, method, reported, checking, loop,
     found, at, verdict, failures, cancels, crashes>>
    BY <1>12 DEF Review, Decisions, vars, requests, versions, workers, counters
  <2>3. QED
    BY <2>1, <2>2, TypeOK DEF TypeOK
<1>13. ASSUME NEW w \in Workers, FindStale(w) PROVE TypeOK'
  <2>1. loop' \in [Workers -> {"down", "start", "recover", "run"}]
    BY <1>13, <1>loop DEF FindStale, Recovered, Stale, Processing
  <2>2. found' \in [Workers -> [Requests -> {"kept", "queued", "provider_failed"}]]
    BY <1>13, <1>found DEF FindStale, Recovered, Stale, Processing
  <2>3. UNCHANGED <<rejecting, status, tries, candidate, expired, vstatus, method, reported,
     checking,
     at, verdict, failures, cancels, crashes>>
    BY <1>13 DEF FindStale, Recovered, Stale, Processing, vars, requests, versions, workers,
       counters
  <2>4. QED
    BY <2>1, <2>2, <2>3, TypeOK DEF TypeOK
<1>14. ASSUME NEW w \in Workers, RecoverStale(w) PROVE TypeOK'
  <2>1. status' \in [Requests -> Statuses]
    BY <1>14, <1>status, <1>found DEF RecoverStale, NothingFound, Statuses, Active, Ended
  <2>2. expired' \in [Requests -> BOOLEAN]
    BY <1>14, <1>expired DEF RecoverStale, NothingFound
  <2>3. loop' \in [Workers -> {"down", "start", "recover", "run"}]
    BY <1>14, <1>loop DEF RecoverStale, NothingFound
  <2>4. found' \in [Workers -> [Requests -> {"kept", "queued", "provider_failed"}]]
    BY <1>14, <1>found DEF RecoverStale, NothingFound
  <2>5. UNCHANGED <<rejecting, tries, candidate, vstatus, method, reported, checking, at, verdict,
     failures, cancels, crashes>>
    BY <1>14 DEF RecoverStale, NothingFound, vars, requests, versions, workers, counters
  <2>6. QED
    BY <2>1, <2>2, <2>3, <2>4, <2>5, TypeOK DEF TypeOK
<1>15. ASSUME NEW w \in Workers, Claim(w) PROVE TypeOK'
  <2>1. status' \in [Requests -> Statuses]
    BY <1>15, <1>status DEF Claim, Statuses, Active, Ended
  <2>2. tries' \in [Requests -> Nat]
    BY <1>15, <1>tries DEF Claim
  <2>3. expired' \in [Requests -> BOOLEAN]
    BY <1>15, <1>expired DEF Claim
  <2>4. at' \in [Workers -> [Requests -> Places]]
    <3>1. PICK taken : at' = [at EXCEPT ![w] = [p \in Requests |-> IF p \in taken THEN "load"
       ELSE "idle"]]
      BY <1>15 DEF Claim
    <3>2. [p \in Requests |-> IF p \in taken THEN "load" ELSE "idle"] \in [Requests -> Places]
      BY DEF Places
    <3>3. QED
      BY <3>1, <3>2, <1>at
  <2>5. UNCHANGED <<rejecting, candidate, vstatus, method, reported, checking, loop, found, verdict,
     failures, cancels, crashes>>
    BY <1>15 DEF Claim, vars, requests, versions, workers, counters
  <2>6. QED
    BY <2>1, <2>2, <2>3, <2>4, <2>5, TypeOK DEF TypeOK
<1>16. ASSUME NEW w \in Workers, Crash(w) PROVE TypeOK'
  <2>1. loop' \in [Workers -> {"down", "start", "recover", "run"}]
    BY <1>16, <1>loop DEF Crash, NothingFound
  <2>2. found' \in [Workers -> [Requests -> {"kept", "queued", "provider_failed"}]]
    BY <1>16, <1>found DEF Crash, NothingFound
  <2>3. at' \in [Workers -> [Requests -> Places]]
    BY <1>16, <1>at DEF Crash, NothingFound, Places
  <2>4. crashes' \in Nat
    BY <1>16, <1>crashes DEF Crash, NothingFound
  <2>5. UNCHANGED <<rejecting, status, tries, candidate, expired, vstatus, method, reported,
     checking,
     verdict, failures, cancels>>
    BY <1>16 DEF Crash, NothingFound, vars, requests, versions, workers, counters
  <2>6. QED
    BY <2>1, <2>2, <2>3, <2>4, <2>5, TypeOK DEF TypeOK
<1>17. ASSUME NEW w \in Workers, Restart(w) PROVE TypeOK'
  <2>1. loop' \in [Workers -> {"down", "start", "recover", "run"}]
    BY <1>17, <1>loop DEF Restart
  <2>2. UNCHANGED <<rejecting, status, tries, candidate, expired, vstatus, method, reported,
     checking,
     found, at, verdict, failures, cancels, crashes>>
    BY <1>17 DEF Restart, vars, requests, versions, workers, counters
  <2>3. QED
    BY <2>1, <2>2, TypeOK DEF TypeOK
<1>18. ASSUME NEW w \in Workers, NEW r \in Requests, Return(w, r) PROVE TypeOK'
  <2>1. at' \in [Workers -> [Requests -> Places]]
    BY <1>18, <1>at DEF Return, Goto, Places
  <2>2. UNCHANGED <<rejecting, status, tries, candidate, expired, vstatus, method, reported,
     checking,
     loop, found, verdict, failures, cancels, crashes>>
    BY <1>18 DEF Return, Goto, vars, requests, versions, workers, counters
  <2>3. QED
    BY <2>1, <2>2, TypeOK DEF TypeOK
<1>19. ASSUME NEW w \in Workers, NEW r \in Requests, Convert(w, r) PROVE TypeOK'
  <2>1. at' \in [Workers -> [Requests -> Places]]
    <3>1. CASE Goto(w, r, "store") /\ UNCHANGED <<verdict, failures>>
      BY <3>1, <1>at DEF Goto, Places
    <3>2. CASE failures' = failures + 1 /\ \E reason \in Reasons : FailFor(w, r, reason)
      <4>1. PICK reason \in Reasons : FailFor(w, r, reason)
        BY <3>2
      <4>2. QED
        BY <4>1, <3>2, <1>at DEF FailFor, Goto, Places
    <3>3. QED
      BY <3>1, <3>2, <1>19 DEF Convert
  <2>2. verdict' \in [Workers -> [Requests -> Reasons \cup Active]]
    <3>1. CASE Goto(w, r, "store") /\ UNCHANGED <<verdict, failures>>
      BY <3>1, <1>verdict DEF Goto, Reasons, Failures, Active
    <3>2. CASE failures' = failures + 1 /\ \E reason \in Reasons : FailFor(w, r, reason)
      <4>1. PICK reason \in Reasons : FailFor(w, r, reason)
        BY <3>2
      <4>2. QED
        BY <4>1, <3>2, <1>verdict DEF FailFor, Goto, Reasons, Failures, Active
    <3>3. QED
      BY <3>1, <3>2, <1>19 DEF Convert
  <2>3. failures' \in Nat
    <3>1. failures' = failures \/ failures' = failures + 1
      BY <1>19 DEF Convert
    <3>2. QED
      BY <3>1, <1>failures
  <2>4. UNCHANGED <<rejecting, status, tries, candidate, expired, vstatus, method, reported,
     checking,
     loop, found, cancels, crashes>>
    BY <1>19 DEF Convert, Goto, FailFor, vars, requests, versions, workers, counters
  <2>5. QED
    BY <2>1, <2>2, <2>3, <2>4, TypeOK DEF TypeOK
<1>20. ASSUME NEW w \in Workers, NEW r \in Requests, Store(w, r) PROVE TypeOK'
  <2>1. candidate' \in [Requests -> Versions \cup {None}]
    BY <1>20, <1>candidate, PineAssumption DEF Store
  <2>2. vstatus' \in [Versions -> VersionStatuses]
    BY <1>20, <1>vstatus DEF Store, Goto, VersionStatuses, Open, InReview
  <2>3. method' \in [Versions -> {"none", "manual", "pending", "accepted"}]
    BY <1>20, <1>method DEF Store, Goto
  <2>4. at' \in [Workers -> [Requests -> Places]]
    BY <1>20, <1>at DEF Store, Goto, Places
  <2>5. UNCHANGED <<rejecting, status, tries, expired, reported, checking, loop, found, verdict,
     failures, cancels, crashes>>
    BY <1>20 DEF Store, Goto, vars, requests, versions, workers, counters
  <2>6. QED
    BY <2>1, <2>2, <2>3, <2>4, <2>5, TypeOK DEF TypeOK
<1>21. ASSUME NEW w \in Workers, NEW r \in Requests, Validate(w, r) PROVE TypeOK'
  <2>1. at' \in [Workers -> [Requests -> Places]]
    <3>1. CASE Goto(w, r, "report") /\ UNCHANGED verdict
      BY <3>1, <1>at DEF Goto, Places
    <3>2. CASE FailFor(w, r, "provider_failed")
      BY <3>2, <1>at DEF FailFor, Goto, Places
    <3>3. QED
      BY <3>1, <3>2, <1>21 DEF Validate
  <2>2. verdict' \in [Workers -> [Requests -> Reasons \cup Active]]
    <3>1. CASE Goto(w, r, "report") /\ UNCHANGED verdict
      BY <3>1, <1>verdict DEF Goto, Reasons, Failures, Active
    <3>2. CASE FailFor(w, r, "provider_failed")
      BY <3>2, <1>verdict DEF FailFor, Goto, Reasons, Failures, Active
    <3>3. QED
      BY <3>1, <3>2, <1>21 DEF Validate
  <2>3. UNCHANGED <<rejecting, status, tries, candidate, expired, vstatus, method, reported,
     checking,
     loop, found, failures, cancels, crashes>>
    BY <1>21 DEF Validate, Goto, FailFor, vars, requests, versions, workers, counters
  <2>4. QED
    BY <2>1, <2>2, <2>3, TypeOK DEF TypeOK
<1>22. ASSUME NEW w \in Workers, NEW r \in Requests, ReportCandidate(w, r) PROVE TypeOK'
  <2>1. vstatus' \in [Versions -> VersionStatuses]
    BY <1>22, <1>vstatus DEF ReportCandidate, Report, ReportAgain, Goto, VersionStatuses,
       Open, InReview
  <2>2. reported' \subseteq Versions
    BY <1>22, <1>reported, WellPlaced DEF ReportCandidate, Report, ReportAgain, WellPlaced,
       HasCandidate
  <2>3. at' \in [Workers -> [Requests -> Places]]
    BY <1>22, <1>at DEF ReportCandidate, Report, ReportAgain, Goto, Places
  <2>4. UNCHANGED <<rejecting, status, tries, candidate, expired, method, checking, loop, found,
     verdict,
     failures, cancels, crashes>>
    BY <1>22 DEF ReportCandidate, Report, ReportAgain, Goto, vars, requests, versions,
       workers, counters
  <2>5. QED
    BY <2>1, <2>2, <2>3, <2>4, TypeOK DEF TypeOK
<1>23. ASSUME NEW w \in Workers, NEW r \in Requests, Finish(w, r) PROVE TypeOK'
  <2>1. status' \in [Requests -> Statuses]
    BY <1>23, <1>status DEF Finish, MayFinish, Goto, Statuses, Active, Ended
  <2>2. at' \in [Workers -> [Requests -> Places]]
    BY <1>23, <1>at DEF Finish, MayFinish, Goto, Places
  <2>3. UNCHANGED <<rejecting, tries, candidate, expired, vstatus, method, reported, checking, loop,
     found, verdict, failures, cancels, crashes>>
    BY <1>23 DEF Finish, MayFinish, Goto, vars, requests, versions, workers, counters
  <2>4. QED
    BY <2>1, <2>2, <2>3, TypeOK DEF TypeOK
<1>24. ASSUME NEW w \in Workers, NEW r \in Requests, ReadFailed(w, r) PROVE TypeOK'
  <2>1. at' \in [Workers -> [Requests -> Places]]
    BY <1>24, <1>at DEF ReadFailed, Goto, Places
  <2>2. verdict' \in [Workers -> [Requests -> Reasons \cup Active]]
    BY <1>24, <1>verdict, WellPlaced DEF ReadFailed, WellPlaced, HasReason, Reasons, Failures,
       Active
  <2>3. UNCHANGED <<rejecting, status, tries, candidate, expired, vstatus, method, reported,
     checking,
     loop, found, failures, cancels, crashes>>
    BY <1>24 DEF ReadFailed, Goto, vars, requests, versions, workers, counters
  <2>4. QED
    BY <2>1, <2>2, <2>3, TypeOK DEF TypeOK
<1>25. ASSUME NEW w \in Workers, NEW r \in Requests, WriteFailed(w, r) PROVE TypeOK'
  <2>1. status' \in [Requests -> Statuses]
    BY <1>25, <1>status, WellPlaced DEF WriteFailed, WellPlaced, HasReason, Statuses, Active,
       Ended, Failures
  <2>2. at' \in [Workers -> [Requests -> Places]]
    BY <1>25, <1>at DEF WriteFailed, Goto, Places
  <2>3. UNCHANGED <<rejecting, tries, candidate, expired, vstatus, method, reported, checking, loop,
     found, verdict, failures, cancels, crashes>>
    BY <1>25 DEF WriteFailed, Goto, vars, requests, versions, workers, counters
  <2>4. QED
    BY <2>1, <2>2, <2>3, TypeOK DEF TypeOK
<1>26. QED
  BY <1>1, <1>2, <1>3, <1>4, <1>5, <1>6, <1>7, <1>8, <1>9, <1>10, <1>11, <1>12, <1>13, <1>14,
     <1>15, <1>16, <1>17, <1>18, <1>19, <1>20, <1>21, <1>22, <1>23, <1>24, <1>25 DEF Next,
     Loop, Work

LEMMA ReasonStep ==
    ASSUME TypeOK, WellPlaced, [Next]_vars, NEW x \in Workers, NEW q \in Requests
    PROVE  HasReason(x, q)'
<1>at. at \in [Workers -> [Requests -> Places]]
  BY DEF TypeOK
<1>verdict. verdict \in [Workers -> [Requests -> Reasons \cup Active]]
  BY DEF TypeOK
<1>x. HasReason(x, q)
  BY DEF WellPlaced
<1>1. CASE UNCHANGED vars
  BY <1>at, <1>verdict, <1>x, <1>1 DEF vars, requests, versions, workers, counters, HasReason
<1>2. ASSUME NEW r \in Requests, Create(r) PROVE HasReason(x, q)'
  BY <1>at, <1>verdict, <1>x, <1>2 DEF Create, Enqueue, HasReason, vars, requests, versions,
     workers, counters
<1>3. ASSUME NEW r \in Requests, Cancel(r) PROVE HasReason(x, q)'
  BY <1>at, <1>verdict, <1>x, <1>3 DEF Cancel, HasReason, vars, requests, versions, workers,
     counters
<1>4. ASSUME NEW r \in Requests, Accept(r) PROVE HasReason(x, q)'
  BY <1>at, <1>verdict, <1>x, <1>4 DEF Accept, HasReason, vars, requests, versions, workers,
     counters
<1>5. ASSUME NEW r \in Requests, Reject(r) PROVE HasReason(x, q)'
  BY <1>at, <1>verdict, <1>x, <1>5 DEF Reject, ReadCandidate, WriteRejected, HasReason, vars,
     requests, versions, workers,
     counters
<1>6. ASSUME NEW r \in Requests, Expire(r) PROVE HasReason(x, q)'
  BY <1>at, <1>verdict, <1>x, <1>6 DEF Expire, HasReason, vars, requests, versions, workers,
     counters
<1>7. ASSUME NEW p \in Requests, NEW r \in Requests, Retry(p, r) PROVE HasReason(x, q)'
  BY <1>at, <1>verdict, <1>x, <1>7 DEF Retry, Enqueue, HasReason, vars, requests, versions,
     workers, counters
<1>8. ASSUME NEW v \in Versions, Upload(v) PROVE HasReason(x, q)'
  BY <1>at, <1>verdict, <1>x, <1>8 DEF Upload, HasReason, vars, requests, versions, workers,
     counters
<1>9. ASSUME NEW v \in Versions, Check(v) PROVE HasReason(x, q)'
  BY <1>at, <1>verdict, <1>x, <1>9 DEF Check, HasReason, vars, requests, versions, workers,
     counters
<1>10. ASSUME NEW v \in Versions, Checked(v) PROVE HasReason(x, q)'
  BY <1>at, <1>verdict, <1>x, <1>10 DEF Checked, Report, ReportAgain, HasReason, vars,
     requests, versions, workers, counters
<1>11. ASSUME NEW v \in Versions, Submit(v) PROVE HasReason(x, q)'
  BY <1>at, <1>verdict, <1>x, <1>11 DEF Submit, MaySubmit, HasReason, vars, requests,
     versions, workers, counters
<1>12. ASSUME NEW v \in Versions, Review(v) PROVE HasReason(x, q)'
  BY <1>at, <1>verdict, <1>x, <1>12 DEF Review, Decisions, HasReason, vars, requests,
     versions, workers, counters
<1>13. ASSUME NEW w \in Workers, FindStale(w) PROVE HasReason(x, q)'
  BY <1>at, <1>verdict, <1>x, <1>13 DEF FindStale, Recovered, Stale, Processing, HasReason,
     vars, requests, versions, workers, counters
<1>14. ASSUME NEW w \in Workers, RecoverStale(w) PROVE HasReason(x, q)'
  BY <1>at, <1>verdict, <1>x, <1>14 DEF RecoverStale, NothingFound, HasReason, vars, requests,
     versions, workers, counters
<1>15. ASSUME NEW w \in Workers, Claim(w) PROVE HasReason(x, q)'
  <2>1. x # w => at'[x] = at[x]
    BY <1>15, <1>at DEF Claim
  <2>2. at'[w][q] \in {"load", "idle"}
    BY <1>15, <1>at DEF Claim
  <2>3. UNCHANGED verdict
    BY <1>15 DEF Claim
  <2>4. QED
    BY <2>1, <2>2, <2>3, <1>x DEF HasReason
<1>16. ASSUME NEW w \in Workers, Crash(w) PROVE HasReason(x, q)'
  BY <1>at, <1>verdict, <1>x, <1>16 DEF Crash, NothingFound, HasReason, vars, requests,
     versions, workers, counters
<1>17. ASSUME NEW w \in Workers, Restart(w) PROVE HasReason(x, q)'
  BY <1>at, <1>verdict, <1>x, <1>17 DEF Restart, HasReason, vars, requests, versions, workers,
     counters
<1>18. ASSUME NEW w \in Workers, NEW r \in Requests, Return(w, r) PROVE HasReason(x, q)'
  BY <1>at, <1>verdict, <1>x, <1>18 DEF Return, Goto, HasReason, vars, requests, versions,
     workers, counters
<1>19. ASSUME NEW w \in Workers, NEW r \in Requests, Convert(w, r) PROVE HasReason(x, q)'
  <2>1. CASE Goto(w, r, "store") /\ UNCHANGED <<verdict, failures>>
    BY <2>1, <1>at, <1>verdict, <1>x DEF Goto, HasReason
  <2>2. CASE failures' = failures + 1 /\ \E reason \in Reasons : FailFor(w, r, reason)
    <3>1. PICK reason \in Reasons : FailFor(w, r, reason)
      BY <2>2
    <3>2. QED
      BY <3>1, <2>2, <1>at, <1>verdict, <1>x DEF FailFor, Goto, HasReason
  <2>3. QED
    BY <2>1, <2>2, <1>19 DEF Convert
<1>20. ASSUME NEW w \in Workers, NEW r \in Requests, Store(w, r) PROVE HasReason(x, q)'
  BY <1>at, <1>verdict, <1>x, <1>20 DEF Store, Goto, HasReason, vars, requests, versions,
     workers, counters
<1>21. ASSUME NEW w \in Workers, NEW r \in Requests, Validate(w, r) PROVE HasReason(x, q)'
  <2>1. CASE Goto(w, r, "report") /\ UNCHANGED verdict
    BY <2>1, <1>at, <1>verdict, <1>x DEF Goto, HasReason, Reasons, Failures
  <2>2. CASE FailFor(w, r, "provider_failed")
    BY <2>2, <1>at, <1>verdict, <1>x DEF FailFor, Goto, HasReason, Reasons, Failures
  <2>3. QED
    BY <2>1, <2>2, <1>21 DEF Validate
<1>22. ASSUME NEW w \in Workers, NEW r \in Requests, ReportCandidate(w, r) PROVE HasReason(x,
   q)'
  BY <1>at, <1>verdict, <1>x, <1>22 DEF ReportCandidate, Report, ReportAgain, Goto, HasReason,
     vars, requests, versions, workers, counters
<1>23. ASSUME NEW w \in Workers, NEW r \in Requests, Finish(w, r) PROVE HasReason(x, q)'
  BY <1>at, <1>verdict, <1>x, <1>23 DEF Finish, MayFinish, Goto, HasReason, vars, requests,
     versions,
     workers, counters
<1>24. ASSUME NEW w \in Workers, NEW r \in Requests, ReadFailed(w, r) PROVE HasReason(x, q)'
  <2>1. CASE x = w /\ q = r
    <3>1. at'[x][q] = "write failed"
      BY <2>1, <1>24, <1>at DEF ReadFailed, Goto
    <3>2. verdict'[x][q] \in Failures \cup {"queued"}
      BY <2>1, <1>24, <1>verdict, <1>x DEF ReadFailed, HasReason, Reasons, Failures
    <3>3. QED
      BY <3>1, <3>2 DEF HasReason
  <2>2. CASE ~(x = w /\ q = r)
    <3>1. at'[x][q] = at[x][q] /\ verdict'[x][q] = verdict[x][q]
      BY <2>2, <1>24, <1>at, <1>verdict DEF ReadFailed, Goto
    <3>2. QED
      BY <3>1, <1>x DEF HasReason
  <2>3. QED
    BY <2>1, <2>2
<1>25. ASSUME NEW w \in Workers, NEW r \in Requests, WriteFailed(w, r) PROVE HasReason(x, q)'
  BY <1>at, <1>verdict, <1>x, <1>25 DEF WriteFailed, Goto, HasReason, vars, requests,
     versions, workers, counters
<1>26. QED
  BY <1>1, <1>2, <1>3, <1>4, <1>5, <1>6, <1>7, <1>8, <1>9, <1>10, <1>11, <1>12, <1>13, <1>14,
     <1>15, <1>16, <1>17, <1>18, <1>19, <1>20, <1>21, <1>22, <1>23, <1>24, <1>25 DEF Next,
     Loop, Work

LEMMA CandidateStep ==
    ASSUME TypeOK, WellPlaced, [Next]_vars, NEW x \in Workers, NEW q \in Requests
    PROVE  HasCandidate(x, q)'
<1>at. at \in [Workers -> [Requests -> Places]]
  BY DEF TypeOK
<1>candidate. candidate \in [Requests -> Versions \cup {None}]
  BY DEF TypeOK
<1>x. HasCandidate(x, q)
  BY DEF WellPlaced
<1>1. CASE UNCHANGED vars
  BY <1>at, <1>candidate, <1>x, <1>1 DEF vars, requests, versions, workers, counters,
     HasCandidate
<1>2. ASSUME NEW r \in Requests, Create(r) PROVE HasCandidate(x, q)'
  BY <1>at, <1>candidate, <1>x, <1>2 DEF Create, Enqueue, HasCandidate, vars, requests,
     versions, workers, counters
<1>3. ASSUME NEW r \in Requests, Cancel(r) PROVE HasCandidate(x, q)'
  BY <1>at, <1>candidate, <1>x, <1>3 DEF Cancel, HasCandidate, vars, requests, versions,
     workers, counters
<1>4. ASSUME NEW r \in Requests, Accept(r) PROVE HasCandidate(x, q)'
  BY <1>at, <1>candidate, <1>x, <1>4 DEF Accept, HasCandidate, vars, requests, versions,
     workers, counters
<1>5. ASSUME NEW r \in Requests, Reject(r) PROVE HasCandidate(x, q)'
  BY <1>at, <1>candidate, <1>x, <1>5 DEF Reject, ReadCandidate, WriteRejected, HasCandidate,
     vars, requests, versions,
     workers, counters
<1>6. ASSUME NEW r \in Requests, Expire(r) PROVE HasCandidate(x, q)'
  BY <1>at, <1>candidate, <1>x, <1>6 DEF Expire, HasCandidate, vars, requests, versions,
     workers, counters
<1>7. ASSUME NEW p \in Requests, NEW r \in Requests, Retry(p, r) PROVE HasCandidate(x, q)'
  BY <1>at, <1>candidate, <1>x, <1>7 DEF Retry, Enqueue, HasCandidate, vars, requests,
     versions, workers, counters
<1>8. ASSUME NEW v \in Versions, Upload(v) PROVE HasCandidate(x, q)'
  BY <1>at, <1>candidate, <1>x, <1>8 DEF Upload, HasCandidate, vars, requests, versions,
     workers, counters
<1>9. ASSUME NEW v \in Versions, Check(v) PROVE HasCandidate(x, q)'
  BY <1>at, <1>candidate, <1>x, <1>9 DEF Check, HasCandidate, vars, requests, versions,
     workers, counters
<1>10. ASSUME NEW v \in Versions, Checked(v) PROVE HasCandidate(x, q)'
  BY <1>at, <1>candidate, <1>x, <1>10 DEF Checked, Report, ReportAgain, HasCandidate, vars,
     requests, versions, workers, counters
<1>11. ASSUME NEW v \in Versions, Submit(v) PROVE HasCandidate(x, q)'
  BY <1>at, <1>candidate, <1>x, <1>11 DEF Submit, MaySubmit, HasCandidate, vars, requests,
     versions, workers, counters
<1>12. ASSUME NEW v \in Versions, Review(v) PROVE HasCandidate(x, q)'
  BY <1>at, <1>candidate, <1>x, <1>12 DEF Review, Decisions, HasCandidate, vars, requests,
     versions, workers, counters
<1>13. ASSUME NEW w \in Workers, FindStale(w) PROVE HasCandidate(x, q)'
  BY <1>at, <1>candidate, <1>x, <1>13 DEF FindStale, Recovered, Stale, Processing,
     HasCandidate, vars, requests, versions, workers, counters
<1>14. ASSUME NEW w \in Workers, RecoverStale(w) PROVE HasCandidate(x, q)'
  BY <1>at, <1>candidate, <1>x, <1>14 DEF RecoverStale, NothingFound, HasCandidate, vars,
     requests, versions, workers, counters
<1>15. ASSUME NEW w \in Workers, Claim(w) PROVE HasCandidate(x, q)'
  BY <1>at, <1>candidate, <1>x, <1>15 DEF Claim, HasCandidate, vars, requests, versions,
     workers, counters
<1>16. ASSUME NEW w \in Workers, Crash(w) PROVE HasCandidate(x, q)'
  BY <1>at, <1>candidate, <1>x, <1>16 DEF Crash, NothingFound, HasCandidate, vars, requests,
     versions, workers, counters
<1>17. ASSUME NEW w \in Workers, Restart(w) PROVE HasCandidate(x, q)'
  BY <1>at, <1>candidate, <1>x, <1>17 DEF Restart, HasCandidate, vars, requests, versions,
     workers, counters
<1>18. ASSUME NEW w \in Workers, NEW r \in Requests, Return(w, r) PROVE HasCandidate(x, q)'
  BY <1>at, <1>candidate, <1>x, <1>18 DEF Return, Goto, HasCandidate, vars, requests,
     versions, workers, counters
<1>19. ASSUME NEW w \in Workers, NEW r \in Requests, Convert(w, r) PROVE HasCandidate(x, q)'
  <2>1. UNCHANGED candidate
    BY <1>19 DEF Convert, requests
  <2>2. CASE x = w /\ q = r
    <3>1. at'[x][q] \in {"store", "read failed"}
      BY <2>2, <1>19, <1>at DEF Convert, Goto, FailFor
    <3>2. QED
      BY <3>1 DEF HasCandidate
  <2>3. CASE ~(x = w /\ q = r)
    <3>1. PICK place \in {"store", "read failed"} : at' = [at EXCEPT ![w][r] = place]
      BY <1>19 DEF Convert, Goto, FailFor
    <3>2. at'[x][q] = at[x][q]
      BY <2>3, <3>1, <1>at
    <3>3. QED
      BY <2>1, <3>2, <1>x DEF HasCandidate
  <2>4. QED
    BY <2>2, <2>3
<1>20. ASSUME NEW w \in Workers, NEW r \in Requests, Store(w, r) PROVE HasCandidate(x, q)'
  <2>1. candidate'[q] = candidate[q] \/ candidate'[q] \in Versions
    BY <1>20, <1>candidate, PineAssumption DEF Store
  <2>2. CASE x = w /\ q = r
    <3>1. candidate'[q] \in Versions
      BY <2>2, <1>20, <1>candidate, PineAssumption DEF Store
    <3>2. QED
      BY <3>1 DEF HasCandidate
  <2>3. CASE ~(x = w /\ q = r)
    <3>1. at'[x][q] = at[x][q]
      BY <2>3, <1>20, <1>at DEF Store, Goto
    <3>2. QED
      BY <2>1, <3>1, <1>x DEF HasCandidate
  <2>4. QED
    BY <2>2, <2>3
<1>21. ASSUME NEW w \in Workers, NEW r \in Requests, Validate(w, r) PROVE HasCandidate(x, q)'
  <2>1. UNCHANGED candidate
    BY <1>21 DEF Validate, requests
  <2>2. CASE x = w /\ q = r
    <3>1. at[x][q] = "validate"
      BY <2>2, <1>21 DEF Validate
    <3>2. QED
      BY <2>1, <3>1, <1>x DEF HasCandidate
  <2>3. CASE ~(x = w /\ q = r)
    <3>1. PICK place \in {"report", "read failed"} : at' = [at EXCEPT ![w][r] = place]
      BY <1>21 DEF Validate, Goto, FailFor
    <3>2. at'[x][q] = at[x][q]
      BY <2>3, <3>1, <1>at
    <3>3. QED
      BY <2>1, <3>2, <1>x DEF HasCandidate
  <2>4. QED
    BY <2>2, <2>3
<1>22. ASSUME NEW w \in Workers, NEW r \in Requests, ReportCandidate(w, r) PROVE
   HasCandidate(x, q)'
  BY <1>at, <1>candidate, <1>x, <1>22 DEF ReportCandidate, Report, ReportAgain, Goto,
     HasCandidate, vars, requests, versions, workers, counters
<1>23. ASSUME NEW w \in Workers, NEW r \in Requests, Finish(w, r) PROVE HasCandidate(x, q)'
  BY <1>at, <1>candidate, <1>x, <1>23 DEF Finish, MayFinish, Goto, HasCandidate, vars, requests,
     versions, workers, counters
<1>24. ASSUME NEW w \in Workers, NEW r \in Requests, ReadFailed(w, r) PROVE HasCandidate(x, q)'
  BY <1>at, <1>candidate, <1>x, <1>24 DEF ReadFailed, Goto, HasCandidate, vars, requests,
     versions, workers, counters
<1>25. ASSUME NEW w \in Workers, NEW r \in Requests, WriteFailed(w, r) PROVE HasCandidate(x, q)'
  BY <1>at, <1>candidate, <1>x, <1>25 DEF WriteFailed, Goto, HasCandidate, vars, requests,
     versions, workers, counters
<1>26. QED
  BY <1>1, <1>2, <1>3, <1>4, <1>5, <1>6, <1>7, <1>8, <1>9, <1>10, <1>11, <1>12, <1>13, <1>14,
     <1>15, <1>16, <1>17, <1>18, <1>19, <1>20, <1>21, <1>22, <1>23, <1>24, <1>25 DEF Next,
     Loop, Work

LEMMA PlacedStep ==
    ASSUME TypeOK, WellPlaced, [Next]_vars
    PROVE  WellPlaced'
  BY ReasonStep, CandidateStep DEF WellPlaced

LEMMA Typed == Spec => [](TypeOK /\ WellPlaced)
<1>1. TypeOK /\ WellPlaced /\ [Next]_vars => (TypeOK /\ WellPlaced)'
  BY TypeStep, PlacedStep
<1>2. QED
  BY InitTyped, <1>1, PTL DEF Spec

\* The variables keep their types, whatever the workers and the users do.
THEOREM TypeCorrect == Spec => []TypeOK
  BY Typed, PTL


-----------------------------------------------------------------------------
(* The concurrency limit of all users together.                            *)

\* Only a claim makes a request processing.
LEMMA OnlyClaimsProcess ==
    ASSUME TypeOK, WellPlaced, [Next]_vars, ~ \E w \in Workers : Claim(w), NEW q \in Requests
    PROVE  status'[q] = "processing" => status[q] = "processing"
<1>status. status \in [Requests -> Statuses]
  BY DEF TypeOK
<1>found. found \in [Workers -> [Requests -> {"kept", "queued", "provider_failed"}]]
  BY DEF TypeOK
<1>1. CASE UNCHANGED vars
  BY <1>status, <1>1 DEF vars, requests, versions, workers, counters, requests
<1>2. ASSUME NEW r \in Requests, Create(r) PROVE status'[q] = "processing" => status[q] =
   "processing"
  BY <1>status, <1>2 DEF Create, Enqueue, vars, requests, versions, workers, counters
<1>3. ASSUME NEW r \in Requests, Cancel(r) PROVE status'[q] = "processing" => status[q] =
   "processing"
  BY <1>status, <1>3 DEF Cancel, vars, requests, versions, workers, counters
<1>4. ASSUME NEW r \in Requests, Accept(r) PROVE status'[q] = "processing" => status[q] =
   "processing"
  BY <1>status, <1>4 DEF Accept, vars, requests, versions, workers, counters
<1>5. ASSUME NEW r \in Requests, Reject(r) PROVE status'[q] = "processing" => status[q] =
   "processing"
  BY <1>status, <1>5 DEF Reject, ReadCandidate, WriteRejected, vars, requests, versions, workers,
     counters
<1>6. ASSUME NEW r \in Requests, Expire(r) PROVE status'[q] = "processing" => status[q] =
   "processing"
  BY <1>status, <1>6 DEF Expire, vars, requests, versions, workers, counters
<1>7. ASSUME NEW p \in Requests, NEW r \in Requests, Retry(p, r) PROVE status'[q] =
   "processing" => status[q] = "processing"
  BY <1>status, <1>7 DEF Retry, Enqueue, vars, requests, versions, workers, counters
<1>8. ASSUME NEW v \in Versions, Upload(v) PROVE status'[q] = "processing" => status[q] =
   "processing"
  BY <1>status, <1>8 DEF Upload, vars, requests, versions, workers, counters
<1>9. ASSUME NEW v \in Versions, Check(v) PROVE status'[q] = "processing" => status[q] =
   "processing"
  BY <1>status, <1>9 DEF Check, vars, requests, versions, workers, counters
<1>10. ASSUME NEW v \in Versions, Checked(v) PROVE status'[q] = "processing" => status[q] =
   "processing"
  BY <1>status, <1>10 DEF Checked, Report, ReportAgain, vars, requests, versions, workers,
     counters
<1>11. ASSUME NEW v \in Versions, Submit(v) PROVE status'[q] = "processing" => status[q] =
   "processing"
  BY <1>status, <1>11 DEF Submit, MaySubmit, vars, requests, versions, workers, counters
<1>12. ASSUME NEW v \in Versions, Review(v) PROVE status'[q] = "processing" => status[q] =
   "processing"
  BY <1>status, <1>12 DEF Review, Decisions, vars, requests, versions, workers, counters
<1>13. ASSUME NEW w \in Workers, FindStale(w) PROVE status'[q] = "processing" => status[q] =
   "processing"
  BY <1>status, <1>13 DEF FindStale, Recovered, Stale, Processing, vars, requests, versions,
     workers, counters
<1>14. ASSUME NEW w \in Workers, RecoverStale(w) PROVE status'[q] = "processing" => status[q]
   = "processing"
  BY <1>14, <1>status, <1>found DEF RecoverStale
<1>15. ASSUME NEW w \in Workers, Claim(w) PROVE status'[q] = "processing" => status[q] =
   "processing"
  BY <1>15
<1>16. ASSUME NEW w \in Workers, Crash(w) PROVE status'[q] = "processing" => status[q] =
   "processing"
  BY <1>status, <1>16 DEF Crash, NothingFound, vars, requests, versions, workers, counters
<1>17. ASSUME NEW w \in Workers, Restart(w) PROVE status'[q] = "processing" => status[q] =
   "processing"
  BY <1>status, <1>17 DEF Restart, vars, requests, versions, workers, counters
<1>18. ASSUME NEW w \in Workers, NEW r \in Requests, Return(w, r) PROVE status'[q] =
   "processing" => status[q] = "processing"
  BY <1>status, <1>18 DEF Return, Goto, vars, requests, versions, workers, counters
<1>19. ASSUME NEW w \in Workers, NEW r \in Requests, Convert(w, r) PROVE status'[q] =
   "processing" => status[q] = "processing"
  BY <1>status, <1>19 DEF Convert, Goto, FailFor, vars, requests, versions, workers, counters
<1>20. ASSUME NEW w \in Workers, NEW r \in Requests, Store(w, r) PROVE status'[q] =
   "processing" => status[q] = "processing"
  BY <1>status, <1>20 DEF Store, Goto, vars, requests, versions, workers, counters
<1>21. ASSUME NEW w \in Workers, NEW r \in Requests, Validate(w, r) PROVE status'[q] =
   "processing" => status[q] = "processing"
  BY <1>status, <1>21 DEF Validate, Goto, FailFor, vars, requests, versions, workers, counters
<1>22. ASSUME NEW w \in Workers, NEW r \in Requests, ReportCandidate(w, r) PROVE status'[q] =
   "processing" => status[q] = "processing"
  BY <1>status, <1>22 DEF ReportCandidate, Report, ReportAgain, Goto, vars, requests,
     versions, workers, counters
<1>23. ASSUME NEW w \in Workers, NEW r \in Requests, Finish(w, r) PROVE status'[q] =
   "processing" => status[q] = "processing"
  BY <1>status, <1>23 DEF Finish, MayFinish, Goto, vars, requests, versions, workers, counters
<1>24. ASSUME NEW w \in Workers, NEW r \in Requests, ReadFailed(w, r) PROVE status'[q] =
   "processing" => status[q] = "processing"
  BY <1>status, <1>24 DEF ReadFailed, Goto, vars, requests, versions, workers, counters
<1>25. ASSUME NEW w \in Workers, NEW r \in Requests, WriteFailed(w, r) PROVE status'[q] =
   "processing" => status[q] = "processing"
  BY <1>25, <1>status, WellPlaced DEF WriteFailed, WellPlaced, HasReason, Failures
<1>26. QED
  BY <1>1, <1>2, <1>3, <1>4, <1>5, <1>6, <1>7, <1>8, <1>9, <1>10, <1>11, <1>12, <1>13, <1>14,
     <1>15, <1>16, <1>17, <1>18, <1>19, <1>20, <1>21, <1>22, <1>23, <1>24, <1>25 DEF Next,
     Loop, Work

LEMMA LimitStep ==
    ASSUME TypeOK, WellPlaced, WithinGlobalLimit, [Next]_vars
    PROVE  WithinGlobalLimit'
<1>1. IsFiniteSet(Processing) /\ Cardinality(Processing) \in Nat /\ GlobalLimit \in Nat
  BY PineAssumption, FS_Subset, FS_CardinalityType DEF Processing
<1>2. CASE ~ \E w \in Workers : Claim(w)
  <2>1. Processing' \subseteq Processing
    BY <1>2, OnlyClaimsProcess DEF Processing
  <2>2. Cardinality(Processing') \in Nat /\ Cardinality(Processing') <= Cardinality(Processing)
    BY <2>1, <1>1, FS_Subset, FS_CardinalityType
  <2>3. QED
    BY <2>2, <1>1 DEF WithinGlobalLimit
<1>3. ASSUME NEW w \in Workers, Claim(w) PROVE WithinGlobalLimit'
  <2>1. PICK taken \in SUBSET {r \in Requests : status[r] = "queued"} :
           /\ Cardinality(taken) <= Slots
           /\ status' = [r \in Requests |-> IF r \in taken THEN "processing" ELSE status[r]]
    BY <1>3 DEF Claim
  <2>2. Processing' = Processing \cup taken
    BY <2>1 DEF Processing
  <2>3. IsFiniteSet(taken) /\ Cardinality(taken) \in Nat
    BY PineAssumption, FS_Subset, FS_CardinalityType
  <2>4. Cardinality(Processing') <= Cardinality(Processing) + Cardinality(taken)
    <3>1. IsFiniteSet(Processing \cap taken) /\ Cardinality(Processing \cap taken) \in Nat
      BY <2>3, FS_Intersection, FS_CardinalityType
    <3>2. Cardinality(Processing \cup taken)
            = Cardinality(Processing) + Cardinality(taken) - Cardinality(Processing \cap taken)
      BY <1>1, <2>3, FS_Union
    <3>3. QED
      BY <1>1, <2>2, <2>3, <3>1, <3>2
  <2>5. Cardinality(Processing') \in Nat
    BY <1>1, <2>2, <2>3, FS_Union, FS_CardinalityType
  <2>6. QED
    BY <1>1, <2>1, <2>3, <2>4, <2>5 DEF Slots, WithinGlobalLimit
<1>4. QED
  BY <1>2, <1>3

\* Any number of workers, crashing and restarting at any time, keep the
\* requests in the processing state within the limit.
THEOREM GlobalLimitKept == Spec => []WithinGlobalLimit
<1>1. Init => WithinGlobalLimit
  <2>1. Init => Processing = {}
    BY DEF Init, Processing
  <2>2. Cardinality({}) = 0 /\ GlobalLimit \in Nat
    BY FS_EmptySet, PineAssumption
  <2>3. QED
    BY <2>1, <2>2 DEF WithinGlobalLimit
<1>2. TypeOK /\ WellPlaced /\ WithinGlobalLimit /\ [Next]_vars => WithinGlobalLimit'
  BY LimitStep
<1>3. QED
  BY Typed, <1>1, <1>2, PTL DEF Spec

-----------------------------------------------------------------------------
(* With one worker, what _fail and recover_stale_requests read is still so *)
(* when they write: nobody but the user changes the request in between.    *)

OneWorker == \A w, x \in Workers : w = x

\* Threads work, and stale requests are held, in separate phases of the loop.
Phased(w, r) ==
    /\ at[w][r] # "idle" => loop[w] = "run"
    /\ found[w][r] # "kept" => loop[w] = "recover"

\* A request about to be written is still processing unless it was canceled.
Held(w, r) ==
    found[w][r] # "kept" \/ at[w][r] = "write failed" => status[r] \in {"processing",
       "canceled"}

\* No request is put back in the queue that has no attempt left.
Counted(w, r) ==
    \/ found[w][r] = "queued"
    \/ at[w][r] = "write failed" /\ verdict[w][r] = "queued"
    => tries[r] < MaxAttempts
Attempted(r) ==
    /\ tries[r] <= MaxAttempts
    /\ status[r] \in {"absent", "queued"} => tries[r] < MaxAttempts

Recovery ==
    /\ \A w \in Workers, r \in Requests : Phased(w, r) /\ Held(w, r) /\ Counted(w, r)
    /\ \A r \in Requests : Attempted(r)

\* The call of the provider and the check of the candidate leave the request
\* and move their own thread only.
LEMMA Answered ==
    ASSUME TypeOK, NEW w \in Workers, NEW r \in Requests, Convert(w, r) \/ Validate(w, r),
           NEW x \in Workers, NEW q \in Requests
    PROVE  /\ UNCHANGED <<status, tries, candidate, loop, found, method, vstatus, checking>>
           /\ \/ at'[x][q] = at[x][q] /\ verdict'[x][q] = verdict[x][q]
              \/ /\ x = w /\ q = r /\ at[x][q] \in {"load", "validate"}
                 /\ at'[x][q] \in {"store", "report", "read failed"}
<1>at. at \in [Workers -> [Requests -> Places]]
  BY DEF TypeOK
<1>verdict. verdict \in [Workers -> [Requests -> Reasons \cup Active]]
  BY DEF TypeOK
<1>1. UNCHANGED <<status, tries, candidate, loop, found, method, vstatus, checking>>
  BY DEF Convert, Validate, requests, versions
<1>2. at[w][r] \in {"load", "validate"}
  BY DEF Convert, Validate
<1>3. PICK place \in {"store", "report", "read failed"} : at' = [at EXCEPT ![w][r] = place]
  BY DEF Convert, Validate, Goto, FailFor
<1>4. verdict' = verdict \/ \E reason \in Reasons : verdict' = [verdict EXCEPT ![w][r] = reason]
  BY DEF Convert, Validate, FailFor, Reasons, Failures
<1>5. CASE x = w /\ q = r
  BY <1>1, <1>2, <1>3, <1>5, <1>at
<1>6. CASE ~(x = w /\ q = r)
  <2>1. at'[x][q] = at[x][q]
    BY <1>3, <1>6, <1>at
  <2>2. verdict'[x][q] = verdict[x][q]
    BY <1>4, <1>6, <1>verdict
  <2>3. QED
    BY <1>1, <2>1, <2>2
<1>7. QED
  BY <1>5, <1>6

LEMMA PhasedStep ==
    ASSUME OneWorker, TypeOK, WellPlaced, Recovery, [Next]_vars, NEW x \in Workers, NEW q \in
       Requests
    PROVE  Phased(x, q)'
<1>at. at \in [Workers -> [Requests -> Places]]
  BY DEF TypeOK
<1>loop. loop \in [Workers -> {"down", "start", "recover", "run"}]
  BY DEF TypeOK
<1>found. found \in [Workers -> [Requests -> {"kept", "queued", "provider_failed"}]]
  BY DEF TypeOK
<1>x. Phased(x, q)
  BY DEF Recovery
<1>1. CASE UNCHANGED vars
  BY <1>at, <1>loop, <1>found, <1>x, <1>1 DEF vars, requests, versions, workers, counters,
     Phased
<1>2. ASSUME NEW r \in Requests, Create(r) PROVE Phased(x, q)'
  BY <1>at, <1>loop, <1>found, <1>x, <1>2 DEF Create, Enqueue, Phased, vars, requests,
     versions, workers, counters
<1>3. ASSUME NEW r \in Requests, Cancel(r) PROVE Phased(x, q)'
  BY <1>at, <1>loop, <1>found, <1>x, <1>3 DEF Cancel, Phased, vars, requests, versions,
     workers, counters
<1>4. ASSUME NEW r \in Requests, Accept(r) PROVE Phased(x, q)'
  BY <1>at, <1>loop, <1>found, <1>x, <1>4 DEF Accept, Phased, vars, requests, versions,
     workers, counters
<1>5. ASSUME NEW r \in Requests, Reject(r) PROVE Phased(x, q)'
  BY <1>at, <1>loop, <1>found, <1>x, <1>5 DEF Reject, ReadCandidate, WriteRejected, Phased, vars,
     requests, versions,
     workers, counters
<1>6. ASSUME NEW r \in Requests, Expire(r) PROVE Phased(x, q)'
  BY <1>at, <1>loop, <1>found, <1>x, <1>6 DEF Expire, Phased, vars, requests, versions,
     workers, counters
<1>7. ASSUME NEW p \in Requests, NEW r \in Requests, Retry(p, r) PROVE Phased(x, q)'
  BY <1>at, <1>loop, <1>found, <1>x, <1>7 DEF Retry, Enqueue, Phased, vars, requests,
     versions, workers, counters
<1>8. ASSUME NEW v \in Versions, Upload(v) PROVE Phased(x, q)'
  BY <1>at, <1>loop, <1>found, <1>x, <1>8 DEF Upload, Phased, vars, requests, versions,
     workers, counters
<1>9. ASSUME NEW v \in Versions, Check(v) PROVE Phased(x, q)'
  BY <1>at, <1>loop, <1>found, <1>x, <1>9 DEF Check, Phased, vars, requests, versions,
     workers, counters
<1>10. ASSUME NEW v \in Versions, Checked(v) PROVE Phased(x, q)'
  BY <1>at, <1>loop, <1>found, <1>x, <1>10 DEF Checked, Report, ReportAgain, Phased, vars,
     requests, versions, workers, counters
<1>11. ASSUME NEW v \in Versions, Submit(v) PROVE Phased(x, q)'
  BY <1>at, <1>loop, <1>found, <1>x, <1>11 DEF Submit, MaySubmit, Phased, vars, requests,
     versions, workers, counters
<1>12. ASSUME NEW v \in Versions, Review(v) PROVE Phased(x, q)'
  BY <1>at, <1>loop, <1>found, <1>x, <1>12 DEF Review, Decisions, Phased, vars, requests,
     versions, workers, counters
<1>13. ASSUME NEW w \in Workers, FindStale(w) PROVE Phased(x, q)'
  BY <1>at, <1>loop, <1>found, <1>x, <1>13 DEF FindStale, Recovered, Stale, Processing,
     Phased, vars, requests, versions, workers, counters
<1>14. ASSUME NEW w \in Workers, RecoverStale(w) PROVE Phased(x, q)'
  BY <1>at, <1>loop, <1>found, <1>x, <1>14 DEF RecoverStale, NothingFound, Phased, vars,
     requests, versions, workers, counters
<1>15. ASSUME NEW w \in Workers, Claim(w) PROVE Phased(x, q)'
  BY <1>at, <1>loop, <1>found, <1>x, <1>15 DEF Claim, Phased, vars, requests, versions,
     workers, counters
<1>16. ASSUME NEW w \in Workers, Crash(w) PROVE Phased(x, q)'
  BY <1>at, <1>loop, <1>found, <1>x, <1>16 DEF Crash, NothingFound, Phased, vars, requests,
     versions, workers, counters
<1>17. ASSUME NEW w \in Workers, Restart(w) PROVE Phased(x, q)'
  BY <1>at, <1>loop, <1>found, <1>x, <1>17 DEF Restart, Phased, vars, requests, versions,
     workers, counters
<1>18. ASSUME NEW w \in Workers, NEW r \in Requests, Return(w, r) PROVE Phased(x, q)'
  BY <1>at, <1>loop, <1>found, <1>x, <1>18 DEF Return, Goto, Phased, vars, requests, versions,
     workers, counters
<1>19. ASSUME NEW w \in Workers, NEW r \in Requests, Convert(w, r) PROVE Phased(x, q)'
  BY <1>19, <1>x, Answered DEF Phased
<1>20. ASSUME NEW w \in Workers, NEW r \in Requests, Store(w, r) PROVE Phased(x, q)'
  BY <1>at, <1>loop, <1>found, <1>x, <1>20 DEF Store, Goto, Phased, vars, requests, versions,
     workers, counters
<1>21. ASSUME NEW w \in Workers, NEW r \in Requests, Validate(w, r) PROVE Phased(x, q)'
  BY <1>21, <1>x, Answered DEF Phased
<1>22. ASSUME NEW w \in Workers, NEW r \in Requests, ReportCandidate(w, r) PROVE Phased(x, q)'
  BY <1>at, <1>loop, <1>found, <1>x, <1>22 DEF ReportCandidate, Report, ReportAgain, Goto,
     Phased, vars, requests, versions, workers, counters
<1>23. ASSUME NEW w \in Workers, NEW r \in Requests, Finish(w, r) PROVE Phased(x, q)'
  BY <1>at, <1>loop, <1>found, <1>x, <1>23 DEF Finish, MayFinish, Goto, Phased, vars, requests,
     versions,
     workers, counters
<1>24. ASSUME NEW w \in Workers, NEW r \in Requests, ReadFailed(w, r) PROVE Phased(x, q)'
  BY <1>at, <1>loop, <1>found, <1>x, <1>24 DEF ReadFailed, Goto, Phased, vars, requests,
     versions, workers, counters
<1>25. ASSUME NEW w \in Workers, NEW r \in Requests, WriteFailed(w, r) PROVE Phased(x, q)'
  BY <1>at, <1>loop, <1>found, <1>x, <1>25 DEF WriteFailed, Goto, Phased, vars, requests,
     versions, workers, counters
<1>26. QED
  BY <1>1, <1>2, <1>3, <1>4, <1>5, <1>6, <1>7, <1>8, <1>9, <1>10, <1>11, <1>12, <1>13, <1>14,
     <1>15, <1>16, <1>17, <1>18, <1>19, <1>20, <1>21, <1>22, <1>23, <1>24, <1>25 DEF Next,
     Loop, Work

LEMMA HeldStep ==
    ASSUME OneWorker, TypeOK, WellPlaced, Recovery, [Next]_vars, NEW x \in Workers, NEW q \in
       Requests
    PROVE  Held(x, q)'
<1>at. at \in [Workers -> [Requests -> Places]]
  BY DEF TypeOK
<1>status. status \in [Requests -> Statuses]
  BY DEF TypeOK
<1>found. found \in [Workers -> [Requests -> {"kept", "queued", "provider_failed"}]]
  BY DEF TypeOK
<1>loop. loop \in [Workers -> {"down", "start", "recover", "run"}]
  BY DEF TypeOK
<1>x. Phased(x, q) /\ Held(x, q)
  BY DEF Recovery
<1>1. CASE UNCHANGED vars
  BY <1>at, <1>status, <1>found, <1>loop, <1>x, OneWorker, <1>1 DEF vars, requests, versions,
     workers, counters, Phased, Held
<1>2. ASSUME NEW r \in Requests, Create(r) PROVE Held(x, q)'
  BY <1>at, <1>status, <1>found, <1>loop, <1>x, OneWorker, <1>2 DEF Create, Enqueue, Phased,
     Held, vars, requests, versions, workers, counters
<1>3. ASSUME NEW r \in Requests, Cancel(r) PROVE Held(x, q)'
  BY <1>at, <1>status, <1>found, <1>loop, <1>x, OneWorker, <1>3 DEF Cancel, Phased, Held,
     vars, requests, versions, workers, counters
<1>4. ASSUME NEW r \in Requests, Accept(r) PROVE Held(x, q)'
  BY <1>at, <1>status, <1>found, <1>loop, <1>x, OneWorker, <1>4 DEF Accept, Phased, Held,
     vars, requests, versions, workers, counters
<1>5. ASSUME NEW r \in Requests, Reject(r) PROVE Held(x, q)'
  BY <1>at, <1>status, <1>found, <1>loop, <1>x, OneWorker, <1>5 DEF Reject, ReadCandidate,
     WriteRejected, Phased, Held,
     vars, requests, versions, workers, counters
<1>6. ASSUME NEW r \in Requests, Expire(r) PROVE Held(x, q)'
  BY <1>at, <1>status, <1>found, <1>loop, <1>x, OneWorker, <1>6 DEF Expire, Phased, Held,
     vars, requests, versions, workers, counters
<1>7. ASSUME NEW p \in Requests, NEW r \in Requests, Retry(p, r) PROVE Held(x, q)'
  BY <1>at, <1>status, <1>found, <1>loop, <1>x, OneWorker, <1>7 DEF Retry, Enqueue, Phased,
     Held, vars, requests, versions, workers, counters
<1>8. ASSUME NEW v \in Versions, Upload(v) PROVE Held(x, q)'
  BY <1>at, <1>status, <1>found, <1>loop, <1>x, OneWorker, <1>8 DEF Upload, Phased, Held,
     vars, requests, versions, workers, counters
<1>9. ASSUME NEW v \in Versions, Check(v) PROVE Held(x, q)'
  BY <1>at, <1>status, <1>found, <1>loop, <1>x, OneWorker, <1>9 DEF Check, Phased, Held, vars,
     requests, versions, workers, counters
<1>10. ASSUME NEW v \in Versions, Checked(v) PROVE Held(x, q)'
  BY <1>at, <1>status, <1>found, <1>loop, <1>x, OneWorker, <1>10 DEF Checked, Report,
     ReportAgain, Phased, Held, vars, requests, versions, workers, counters
<1>11. ASSUME NEW v \in Versions, Submit(v) PROVE Held(x, q)'
  BY <1>at, <1>status, <1>found, <1>loop, <1>x, OneWorker, <1>11 DEF Submit, MaySubmit,
     Phased, Held, vars, requests, versions, workers, counters
<1>12. ASSUME NEW v \in Versions, Review(v) PROVE Held(x, q)'
  BY <1>at, <1>status, <1>found, <1>loop, <1>x, OneWorker, <1>12 DEF Review, Decisions,
     Phased, Held, vars, requests, versions, workers, counters
<1>13. ASSUME NEW w \in Workers, FindStale(w) PROVE Held(x, q)'
  BY <1>at, <1>status, <1>found, <1>loop, <1>x, OneWorker, <1>13 DEF FindStale, Recovered,
     Stale, Processing, Phased, Held, vars, requests, versions, workers, counters
<1>14. ASSUME NEW w \in Workers, RecoverStale(w) PROVE Held(x, q)'
  <2>1. x = w
    BY OneWorker DEF OneWorker
  <2>2. found'[x][q] = "kept"
    BY <2>1, <1>14, <1>found DEF RecoverStale, NothingFound
  <2>3. at'[x][q] = "idle"
    BY <2>1, <1>14, <1>x DEF RecoverStale, Phased
  <2>4. QED
    BY <2>2, <2>3 DEF Held
<1>15. ASSUME NEW w \in Workers, Claim(w) PROVE Held(x, q)'
  <2>1. x = w
    BY OneWorker DEF OneWorker
  <2>2. found'[x][q] = "kept"
    BY <2>1, <1>15, <1>x DEF Claim, Phased
  <2>3. at'[x][q] \in {"load", "idle"}
    BY <2>1, <1>15, <1>at DEF Claim
  <2>4. QED
    BY <2>2, <2>3 DEF Held
<1>16. ASSUME NEW w \in Workers, Crash(w) PROVE Held(x, q)'
  BY <1>at, <1>status, <1>found, <1>loop, <1>x, OneWorker, <1>16 DEF Crash, NothingFound,
     Phased, Held, vars, requests, versions, workers, counters
<1>17. ASSUME NEW w \in Workers, Restart(w) PROVE Held(x, q)'
  BY <1>at, <1>status, <1>found, <1>loop, <1>x, OneWorker, <1>17 DEF Restart, Phased, Held,
     vars, requests, versions, workers, counters
<1>18. ASSUME NEW w \in Workers, NEW r \in Requests, Return(w, r) PROVE Held(x, q)'
  BY <1>at, <1>status, <1>found, <1>loop, <1>x, OneWorker, <1>18 DEF Return, Goto, Phased,
     Held, vars, requests, versions, workers, counters
<1>19. ASSUME NEW w \in Workers, NEW r \in Requests, Convert(w, r) PROVE Held(x, q)'
  BY <1>19, <1>x, Answered DEF Phased, Held
<1>20. ASSUME NEW w \in Workers, NEW r \in Requests, Store(w, r) PROVE Held(x, q)'
  BY <1>at, <1>status, <1>found, <1>loop, <1>x, OneWorker, <1>20 DEF Store, Goto, Phased,
     Held, vars, requests, versions, workers, counters
<1>21. ASSUME NEW w \in Workers, NEW r \in Requests, Validate(w, r) PROVE Held(x, q)'
  BY <1>21, <1>x, Answered DEF Phased, Held
<1>22. ASSUME NEW w \in Workers, NEW r \in Requests, ReportCandidate(w, r) PROVE Held(x, q)'
  BY <1>at, <1>status, <1>found, <1>loop, <1>x, OneWorker, <1>22 DEF ReportCandidate, Report,
     ReportAgain, Goto, Phased, Held, vars, requests, versions, workers, counters
<1>23. ASSUME NEW w \in Workers, NEW r \in Requests, Finish(w, r) PROVE Held(x, q)'
  <2>1. x = w
    BY OneWorker DEF OneWorker
  <2>2. CASE q = r
    <3>1. at[x][q] = "finish" /\ found'[x][q] = "kept"
      BY <2>1, <2>2, <1>23, <1>x DEF Finish, MayFinish, Phased
    <3>2. at'[x][q] = "idle"
      BY <2>1, <2>2, <1>23, <1>at DEF Finish, MayFinish, Goto
    <3>3. QED
      BY <3>1, <3>2 DEF Held
  <2>3. CASE q # r
    <3>1. UNCHANGED <<status[q], found>> /\ at'[x][q] = at[x][q]
      BY <2>1, <2>3, <1>23, <1>at, <1>status DEF Finish, MayFinish, Goto
    <3>2. QED
      BY <3>1, <1>x DEF Held
  <2>4. QED
    BY <2>2, <2>3
<1>24. ASSUME NEW w \in Workers, NEW r \in Requests, ReadFailed(w, r) PROVE Held(x, q)'
  BY <1>at, <1>status, <1>found, <1>loop, <1>x, OneWorker, <1>24 DEF ReadFailed, Goto, Phased,
     Held, vars, requests, versions, workers, counters
<1>25. ASSUME NEW w \in Workers, NEW r \in Requests, WriteFailed(w, r) PROVE Held(x, q)'
  <2>1. x = w
    BY OneWorker DEF OneWorker
  <2>2. CASE q = r
    <3>1. at[x][q] = "write failed" /\ found'[x][q] = "kept"
      BY <2>1, <2>2, <1>25, <1>x DEF WriteFailed, Phased
    <3>2. at'[x][q] = "idle"
      BY <2>1, <2>2, <1>25, <1>at DEF WriteFailed, Goto
    <3>3. QED
      BY <3>1, <3>2 DEF Held
  <2>3. CASE q # r
    <3>1. UNCHANGED <<status[q], found>> /\ at'[x][q] = at[x][q]
      BY <2>1, <2>3, <1>25, <1>at, <1>status DEF WriteFailed, Goto
    <3>2. QED
      BY <3>1, <1>x DEF Held
  <2>4. QED
    BY <2>2, <2>3
<1>26. QED
  BY <1>1, <1>2, <1>3, <1>4, <1>5, <1>6, <1>7, <1>8, <1>9, <1>10, <1>11, <1>12, <1>13, <1>14,
     <1>15, <1>16, <1>17, <1>18, <1>19, <1>20, <1>21, <1>22, <1>23, <1>24, <1>25 DEF Next,
     Loop, Work

LEMMA CountedStep ==
    ASSUME OneWorker, TypeOK, WellPlaced, Recovery, [Next]_vars, NEW x \in Workers, NEW q \in
       Requests
    PROVE  Counted(x, q)'
<1>at. at \in [Workers -> [Requests -> Places]]
  BY DEF TypeOK
<1>found. found \in [Workers -> [Requests -> {"kept", "queued", "provider_failed"}]]
  BY DEF TypeOK
<1>verdict. verdict \in [Workers -> [Requests -> Reasons \cup Active]]
  BY DEF TypeOK
<1>tries. tries \in [Requests -> Nat]
  BY DEF TypeOK
<1>status. status \in [Requests -> Statuses]
  BY DEF TypeOK
<1>x. Phased(x, q) /\ Held(x, q) /\ Counted(x, q)
  BY DEF Recovery
<1>1. CASE UNCHANGED vars
  BY <1>at, <1>found, <1>verdict, <1>tries, <1>status, <1>x, OneWorker, PineAssumption, <1>1
     DEF vars, requests, versions, workers, counters, Phased, Held, Counted
<1>2. ASSUME NEW r \in Requests, Create(r) PROVE Counted(x, q)'
  BY <1>at, <1>found, <1>verdict, <1>tries, <1>status, <1>x, OneWorker, PineAssumption, <1>2
     DEF Create, Enqueue, Phased, Held, Counted, vars, requests, versions, workers, counters
<1>3. ASSUME NEW r \in Requests, Cancel(r) PROVE Counted(x, q)'
  BY <1>at, <1>found, <1>verdict, <1>tries, <1>status, <1>x, OneWorker, PineAssumption, <1>3
     DEF Cancel, Phased, Held, Counted, vars, requests, versions, workers, counters
<1>4. ASSUME NEW r \in Requests, Accept(r) PROVE Counted(x, q)'
  BY <1>at, <1>found, <1>verdict, <1>tries, <1>status, <1>x, OneWorker, PineAssumption, <1>4
     DEF Accept, Phased, Held, Counted, vars, requests, versions, workers, counters
<1>5. ASSUME NEW r \in Requests, Reject(r) PROVE Counted(x, q)'
  BY <1>at, <1>found, <1>verdict, <1>tries, <1>status, <1>x, OneWorker, PineAssumption, <1>5
     DEF Reject, ReadCandidate, WriteRejected, Phased, Held, Counted, vars, requests, versions,
     workers, counters
<1>6. ASSUME NEW r \in Requests, Expire(r) PROVE Counted(x, q)'
  BY <1>at, <1>found, <1>verdict, <1>tries, <1>status, <1>x, OneWorker, PineAssumption, <1>6
     DEF Expire, Phased, Held, Counted, vars, requests, versions, workers, counters
<1>7. ASSUME NEW p \in Requests, NEW r \in Requests, Retry(p, r) PROVE Counted(x, q)'
  BY <1>at, <1>found, <1>verdict, <1>tries, <1>status, <1>x, OneWorker, PineAssumption, <1>7
     DEF Retry, Enqueue, Phased, Held, Counted, vars, requests, versions, workers, counters
<1>8. ASSUME NEW v \in Versions, Upload(v) PROVE Counted(x, q)'
  BY <1>at, <1>found, <1>verdict, <1>tries, <1>status, <1>x, OneWorker, PineAssumption, <1>8
     DEF Upload, Phased, Held, Counted, vars, requests, versions, workers, counters
<1>9. ASSUME NEW v \in Versions, Check(v) PROVE Counted(x, q)'
  BY <1>at, <1>found, <1>verdict, <1>tries, <1>status, <1>x, OneWorker, PineAssumption, <1>9
     DEF Check, Phased, Held, Counted, vars, requests, versions, workers, counters
<1>10. ASSUME NEW v \in Versions, Checked(v) PROVE Counted(x, q)'
  BY <1>at, <1>found, <1>verdict, <1>tries, <1>status, <1>x, OneWorker, PineAssumption, <1>10
     DEF Checked, Report, ReportAgain, Phased, Held, Counted, vars, requests, versions,
     workers, counters
<1>11. ASSUME NEW v \in Versions, Submit(v) PROVE Counted(x, q)'
  BY <1>at, <1>found, <1>verdict, <1>tries, <1>status, <1>x, OneWorker, PineAssumption, <1>11
     DEF Submit, MaySubmit, Phased, Held, Counted, vars, requests, versions, workers, counters
<1>12. ASSUME NEW v \in Versions, Review(v) PROVE Counted(x, q)'
  BY <1>at, <1>found, <1>verdict, <1>tries, <1>status, <1>x, OneWorker, PineAssumption, <1>12
     DEF Review, Decisions, Phased, Held, Counted, vars, requests, versions, workers, counters
<1>13. ASSUME NEW w \in Workers, FindStale(w) PROVE Counted(x, q)'
  <2>1. x = w
    BY OneWorker DEF OneWorker
  <2>2. at'[x][q] = "idle"
    BY <2>1, <1>13, <1>x DEF FindStale, Phased
  <2>3. found'[x][q] = "queued" => tries[q] < MaxAttempts
    BY <2>1, <1>13, <1>found, <1>tries, PineAssumption DEF FindStale, Recovered
  <2>4. UNCHANGED tries
    BY <1>13 DEF FindStale, requests
  <2>5. QED
    BY <2>2, <2>3, <2>4 DEF Counted
<1>14. ASSUME NEW w \in Workers, RecoverStale(w) PROVE Counted(x, q)'
  BY <1>at, <1>found, <1>verdict, <1>tries, <1>status, <1>x, OneWorker, PineAssumption, <1>14
     DEF RecoverStale, NothingFound, Phased, Held, Counted, vars, requests, versions, workers,
     counters
<1>15. ASSUME NEW w \in Workers, Claim(w) PROVE Counted(x, q)'
  <2>1. x = w
    BY OneWorker DEF OneWorker
  <2>2. found'[x][q] = "kept"
    BY <2>1, <1>15, <1>x DEF Claim, Phased
  <2>3. at'[x][q] \in {"load", "idle"}
    BY <2>1, <1>15, <1>at DEF Claim
  <2>4. QED
    BY <2>2, <2>3 DEF Counted
<1>16. ASSUME NEW w \in Workers, Crash(w) PROVE Counted(x, q)'
  BY <1>at, <1>found, <1>verdict, <1>tries, <1>status, <1>x, OneWorker, PineAssumption, <1>16
     DEF Crash, NothingFound, Phased, Held, Counted, vars, requests, versions, workers,
     counters
<1>17. ASSUME NEW w \in Workers, Restart(w) PROVE Counted(x, q)'
  BY <1>at, <1>found, <1>verdict, <1>tries, <1>status, <1>x, OneWorker, PineAssumption, <1>17
     DEF Restart, Phased, Held, Counted, vars, requests, versions, workers, counters
<1>18. ASSUME NEW w \in Workers, NEW r \in Requests, Return(w, r) PROVE Counted(x, q)'
  BY <1>at, <1>found, <1>verdict, <1>tries, <1>status, <1>x, OneWorker, PineAssumption, <1>18
     DEF Return, Goto, Phased, Held, Counted, vars, requests, versions, workers, counters
<1>19. ASSUME NEW w \in Workers, NEW r \in Requests, Convert(w, r) PROVE Counted(x, q)'
  BY <1>19, <1>x, Answered DEF Phased, Counted
<1>20. ASSUME NEW w \in Workers, NEW r \in Requests, Store(w, r) PROVE Counted(x, q)'
  BY <1>at, <1>found, <1>verdict, <1>tries, <1>status, <1>x, OneWorker, PineAssumption, <1>20
     DEF Store, Goto, Phased, Held, Counted, vars, requests, versions, workers, counters
<1>21. ASSUME NEW w \in Workers, NEW r \in Requests, Validate(w, r) PROVE Counted(x, q)'
  BY <1>21, <1>x, Answered DEF Phased, Counted
<1>22. ASSUME NEW w \in Workers, NEW r \in Requests, ReportCandidate(w, r) PROVE Counted(x, q)'
  BY <1>at, <1>found, <1>verdict, <1>tries, <1>status, <1>x, OneWorker, PineAssumption, <1>22
     DEF ReportCandidate, Report, ReportAgain, Goto, Phased, Held, Counted, vars, requests,
     versions, workers, counters
<1>23. ASSUME NEW w \in Workers, NEW r \in Requests, Finish(w, r) PROVE Counted(x, q)'
  BY <1>at, <1>found, <1>verdict, <1>tries, <1>status, <1>x, OneWorker, PineAssumption, <1>23
     DEF Finish, MayFinish, Goto, Phased, Held, Counted, vars, requests, versions, workers, counters
<1>24. ASSUME NEW w \in Workers, NEW r \in Requests, ReadFailed(w, r) PROVE Counted(x, q)'
  <2>1. UNCHANGED <<tries, found>>
    BY <1>24 DEF ReadFailed, requests
  <2>2. CASE x = w /\ q = r
    <3>1. found[x][q] = "kept"
      BY <2>2, <1>24, <1>x DEF ReadFailed, Phased
    <3>2. verdict[x][q] \in Reasons
      BY <2>2, <1>24, WellPlaced DEF ReadFailed, WellPlaced, HasReason
    <3>3. verdict'[x][q] = "queued" => tries[q] < MaxAttempts
      BY <2>2, <3>2, <1>24, <1>verdict DEF ReadFailed, Reasons, Failures
    <3>4. QED
      BY <2>1, <3>1, <3>3 DEF Counted
  <2>3. CASE ~(x = w /\ q = r)
    <3>1. at'[x][q] = at[x][q] /\ verdict'[x][q] = verdict[x][q]
      BY <2>3, <1>24, <1>at, <1>verdict DEF ReadFailed, Goto
    <3>2. QED
      BY <2>1, <3>1, <1>x DEF Counted
  <2>4. QED
    BY <2>2, <2>3
<1>25. ASSUME NEW w \in Workers, NEW r \in Requests, WriteFailed(w, r) PROVE Counted(x, q)'
  BY <1>at, <1>found, <1>verdict, <1>tries, <1>status, <1>x, OneWorker, PineAssumption, <1>25
     DEF WriteFailed, Goto, Phased, Held, Counted, vars, requests, versions, workers, counters
<1>26. QED
  BY <1>1, <1>2, <1>3, <1>4, <1>5, <1>6, <1>7, <1>8, <1>9, <1>10, <1>11, <1>12, <1>13, <1>14,
     <1>15, <1>16, <1>17, <1>18, <1>19, <1>20, <1>21, <1>22, <1>23, <1>24, <1>25 DEF Next,
     Loop, Work

LEMMA AttemptedStep ==
    ASSUME OneWorker, TypeOK, WellPlaced, Recovery, [Next]_vars, NEW q \in Requests
    PROVE  Attempted(q)'
<1>tries. tries \in [Requests -> Nat]
  BY DEF TypeOK
<1>status. status \in [Requests -> Statuses]
  BY DEF TypeOK
<1>x. Attempted(q)
  BY DEF Recovery
<1>1. CASE UNCHANGED vars
  BY <1>tries, <1>status, <1>x, PineAssumption, <1>1 DEF vars, requests, versions, workers,
     counters, Attempted
<1>2. ASSUME NEW r \in Requests, Create(r) PROVE Attempted(q)'
  BY <1>tries, <1>status, <1>x, PineAssumption, <1>2 DEF Create, Enqueue, Attempted, vars,
     requests, versions, workers, counters
<1>3. ASSUME NEW r \in Requests, Cancel(r) PROVE Attempted(q)'
  BY <1>tries, <1>status, <1>x, PineAssumption, <1>3 DEF Cancel, Attempted, vars, requests,
     versions, workers, counters
<1>4. ASSUME NEW r \in Requests, Accept(r) PROVE Attempted(q)'
  BY <1>tries, <1>status, <1>x, PineAssumption, <1>4 DEF Accept, Attempted, vars, requests,
     versions, workers, counters
<1>5. ASSUME NEW r \in Requests, Reject(r) PROVE Attempted(q)'
  BY <1>tries, <1>status, <1>x, PineAssumption, <1>5 DEF Reject, ReadCandidate, WriteRejected,
     Attempted, vars, requests,
     versions, workers, counters
<1>6. ASSUME NEW r \in Requests, Expire(r) PROVE Attempted(q)'
  BY <1>tries, <1>status, <1>x, PineAssumption, <1>6 DEF Expire, Attempted, vars, requests,
     versions, workers, counters
<1>7. ASSUME NEW p \in Requests, NEW r \in Requests, Retry(p, r) PROVE Attempted(q)'
  BY <1>tries, <1>status, <1>x, PineAssumption, <1>7 DEF Retry, Enqueue, Attempted, vars,
     requests, versions, workers, counters
<1>8. ASSUME NEW v \in Versions, Upload(v) PROVE Attempted(q)'
  BY <1>tries, <1>status, <1>x, PineAssumption, <1>8 DEF Upload, Attempted, vars, requests,
     versions, workers, counters
<1>9. ASSUME NEW v \in Versions, Check(v) PROVE Attempted(q)'
  BY <1>tries, <1>status, <1>x, PineAssumption, <1>9 DEF Check, Attempted, vars, requests,
     versions, workers, counters
<1>10. ASSUME NEW v \in Versions, Checked(v) PROVE Attempted(q)'
  BY <1>tries, <1>status, <1>x, PineAssumption, <1>10 DEF Checked, Report, ReportAgain,
     Attempted, vars, requests, versions, workers, counters
<1>11. ASSUME NEW v \in Versions, Submit(v) PROVE Attempted(q)'
  BY <1>tries, <1>status, <1>x, PineAssumption, <1>11 DEF Submit, MaySubmit, Attempted, vars,
     requests, versions, workers, counters
<1>12. ASSUME NEW v \in Versions, Review(v) PROVE Attempted(q)'
  BY <1>tries, <1>status, <1>x, PineAssumption, <1>12 DEF Review, Decisions, Attempted, vars,
     requests, versions, workers, counters
<1>13. ASSUME NEW w \in Workers, FindStale(w) PROVE Attempted(q)'
  BY <1>tries, <1>status, <1>x, PineAssumption, <1>13 DEF FindStale, Recovered, Stale,
     Processing, Attempted, vars, requests, versions, workers, counters
<1>14. ASSUME NEW w \in Workers, RecoverStale(w) PROVE Attempted(q)'
  <2>1. Counted(w, q)
    BY DEF Recovery
  <2>2. status'[q] = status[q] \/ status'[q] = found[w][q]
    BY <1>14, <1>status DEF RecoverStale
  <2>3. found[w][q] \in {"kept", "queued", "provider_failed"} /\ UNCHANGED tries
    BY <1>14, TypeOK DEF RecoverStale, TypeOK
  <2>4. QED
    BY <2>1, <2>2, <2>3, <1>x DEF Counted, Attempted
<1>15. ASSUME NEW w \in Workers, Claim(w) PROVE Attempted(q)'
  BY <1>tries, <1>status, <1>x, PineAssumption, <1>15 DEF Claim, Attempted, vars, requests,
     versions, workers, counters
<1>16. ASSUME NEW w \in Workers, Crash(w) PROVE Attempted(q)'
  BY <1>tries, <1>status, <1>x, PineAssumption, <1>16 DEF Crash, NothingFound, Attempted,
     vars, requests, versions, workers, counters
<1>17. ASSUME NEW w \in Workers, Restart(w) PROVE Attempted(q)'
  BY <1>tries, <1>status, <1>x, PineAssumption, <1>17 DEF Restart, Attempted, vars, requests,
     versions, workers, counters
<1>18. ASSUME NEW w \in Workers, NEW r \in Requests, Return(w, r) PROVE Attempted(q)'
  BY <1>tries, <1>status, <1>x, PineAssumption, <1>18 DEF Return, Goto, Attempted, vars,
     requests, versions, workers, counters
<1>19. ASSUME NEW w \in Workers, NEW r \in Requests, Convert(w, r) PROVE Attempted(q)'
  BY <1>tries, <1>status, <1>x, PineAssumption, <1>19 DEF Convert, Goto, FailFor, Attempted,
     vars, requests, versions, workers, counters
<1>20. ASSUME NEW w \in Workers, NEW r \in Requests, Store(w, r) PROVE Attempted(q)'
  BY <1>tries, <1>status, <1>x, PineAssumption, <1>20 DEF Store, Goto, Attempted, vars,
     requests, versions, workers, counters
<1>21. ASSUME NEW w \in Workers, NEW r \in Requests, Validate(w, r) PROVE Attempted(q)'
  BY <1>tries, <1>status, <1>x, PineAssumption, <1>21 DEF Validate, Goto, FailFor, Attempted,
     vars, requests, versions, workers, counters
<1>22. ASSUME NEW w \in Workers, NEW r \in Requests, ReportCandidate(w, r) PROVE Attempted(q)'
  BY <1>tries, <1>status, <1>x, PineAssumption, <1>22 DEF ReportCandidate, Report,
     ReportAgain, Goto, Attempted, vars, requests, versions, workers, counters
<1>23. ASSUME NEW w \in Workers, NEW r \in Requests, Finish(w, r) PROVE Attempted(q)'
  BY <1>tries, <1>status, <1>x, PineAssumption, <1>23 DEF Finish, MayFinish, Goto, Attempted, vars,
     requests, versions, workers, counters
<1>24. ASSUME NEW w \in Workers, NEW r \in Requests, ReadFailed(w, r) PROVE Attempted(q)'
  BY <1>tries, <1>status, <1>x, PineAssumption, <1>24 DEF ReadFailed, Goto, Attempted, vars,
     requests, versions, workers, counters
<1>25. ASSUME NEW w \in Workers, NEW r \in Requests, WriteFailed(w, r) PROVE Attempted(q)'
  <2>1. Counted(w, r) /\ verdict[w][r] \in Failures \cup {"queued"}
    BY <1>25, WellPlaced DEF Recovery, WriteFailed, WellPlaced, HasReason
  <2>2. UNCHANGED tries /\ status'[q] = IF q = r THEN verdict[w][r] ELSE status[q]
    BY <1>25, <1>status DEF WriteFailed
  <2>3. QED
    BY <2>1, <2>2, <1>25, <1>x DEF Counted, Attempted, Failures, WriteFailed
<1>26. QED
  BY <1>1, <1>2, <1>3, <1>4, <1>5, <1>6, <1>7, <1>8, <1>9, <1>10, <1>11, <1>12, <1>13, <1>14,
     <1>15, <1>16, <1>17, <1>18, <1>19, <1>20, <1>21, <1>22, <1>23, <1>24, <1>25 DEF Next,
     Loop, Work

LEMMA RecoveryStep ==
    ASSUME OneWorker, TypeOK, WellPlaced, Recovery, [Next]_vars
    PROVE  Recovery'
  BY PhasedStep, HeldStep, CountedStep, AttemptedStep DEF Recovery

LEMMA Recovers == OneWorker => (Spec => [](TypeOK /\ WellPlaced /\ Recovery))
<1> SUFFICES ASSUME OneWorker PROVE Spec => [](TypeOK /\ WellPlaced /\ Recovery)
  OBVIOUS
<1>1. Init => Recovery
  BY PineAssumption DEF Init, NothingFound, Recovery, Phased, Held, Counted, Attempted
<1>2. TypeOK /\ WellPlaced /\ Recovery /\ [Next]_vars => Recovery'
  BY RecoveryStep
<1>3. QED
  BY Typed, <1>1, <1>2, PTL DEF Spec

\* With one worker no request is claimed more often than max_attempts allows,
\* however often the worker is killed and whatever the provider answers.
THEOREM AttemptsKept == OneWorker => (Spec => []AttemptsBounded)
<1>1. Recovery => AttemptsBounded
  BY DEF Recovery, Attempted, AttemptsBounded
<1>2. QED
  BY Recovers, <1>1, PTL

-----------------------------------------------------------------------------
(* Consent: what reaches the reviewers was written or accepted by the user. *)

\* A version that was seen anywhere has a source.
Sourced(v) ==
    /\ vstatus[v] # "absent" \/ v \in checking => method[v] # "none"
    /\ \A r \in Requests : candidate[r] = v => method[v] # "none"

\* An accepted source belongs to an accepted request.
Accepted(v) ==
    method[v] = "accepted" => \E r \in Requests : status[r] = "accepted" /\ candidate[r] = v

Consented == \A v \in Versions : Sourced(v) /\ Accepted(v)

\* The worker takes nothing back that the user has accepted.
LEMMA AcceptedStays ==
    ASSUME OneWorker, TypeOK, WellPlaced, Recovery, [Next]_vars, NEW q \in Requests,
           status[q] = "accepted"
    PROVE  status'[q] = "accepted" /\ candidate'[q] = candidate[q]
<1>status. status \in [Requests -> Statuses]
  BY DEF TypeOK
<1>candidate. candidate \in [Requests -> Versions \cup {None}]
  BY DEF TypeOK
<1>1. CASE UNCHANGED vars
  BY <1>status, <1>candidate, <1>1 DEF vars, requests, versions, workers, counters, Active
<1>2. ASSUME NEW r \in Requests, Create(r) PROVE status'[q] = "accepted" /\ candidate'[q] =
   candidate[q]
  BY <1>status, <1>candidate, <1>2 DEF Create, Enqueue, Active, vars, requests, versions,
     workers, counters
<1>3. ASSUME NEW r \in Requests, Cancel(r) PROVE status'[q] = "accepted" /\ candidate'[q] =
   candidate[q]
  BY <1>status, <1>candidate, <1>3 DEF Cancel, Active, vars, requests, versions, workers,
     counters
<1>4. ASSUME NEW r \in Requests, Accept(r) PROVE status'[q] = "accepted" /\ candidate'[q] =
   candidate[q]
  BY <1>status, <1>candidate, <1>4 DEF Accept, Active, vars, requests, versions, workers,
     counters
<1>5. ASSUME NEW r \in Requests, Reject(r) PROVE status'[q] = "accepted" /\ candidate'[q] =
   candidate[q]
  BY <1>status, <1>candidate, <1>5 DEF Reject, ReadCandidate, WriteRejected, Active, vars,
     requests, versions, workers,
     counters
<1>6. ASSUME NEW r \in Requests, Expire(r) PROVE status'[q] = "accepted" /\ candidate'[q] =
   candidate[q]
  BY <1>status, <1>candidate, <1>6 DEF Expire, Active, vars, requests, versions, workers,
     counters
<1>7. ASSUME NEW p \in Requests, NEW r \in Requests, Retry(p, r) PROVE status'[q] = "accepted"
   /\ candidate'[q] = candidate[q]
  BY <1>status, <1>candidate, <1>7 DEF Retry, Enqueue, Active, vars, requests, versions,
     workers, counters
<1>8. ASSUME NEW v \in Versions, Upload(v) PROVE status'[q] = "accepted" /\ candidate'[q] =
   candidate[q]
  BY <1>status, <1>candidate, <1>8 DEF Upload, Active, vars, requests, versions, workers,
     counters
<1>9. ASSUME NEW v \in Versions, Check(v) PROVE status'[q] = "accepted" /\ candidate'[q] =
   candidate[q]
  BY <1>status, <1>candidate, <1>9 DEF Check, Active, vars, requests, versions, workers,
     counters
<1>10. ASSUME NEW v \in Versions, Checked(v) PROVE status'[q] = "accepted" /\ candidate'[q] =
   candidate[q]
  BY <1>status, <1>candidate, <1>10 DEF Checked, Report, ReportAgain, Active, vars, requests,
     versions, workers, counters
<1>11. ASSUME NEW v \in Versions, Submit(v) PROVE status'[q] = "accepted" /\ candidate'[q] =
   candidate[q]
  BY <1>status, <1>candidate, <1>11 DEF Submit, MaySubmit, Active, vars, requests, versions,
     workers, counters
<1>12. ASSUME NEW v \in Versions, Review(v) PROVE status'[q] = "accepted" /\ candidate'[q] =
   candidate[q]
  BY <1>status, <1>candidate, <1>12 DEF Review, Decisions, Active, vars, requests, versions,
     workers, counters
<1>13. ASSUME NEW w \in Workers, FindStale(w) PROVE status'[q] = "accepted" /\ candidate'[q] =
   candidate[q]
  BY <1>status, <1>candidate, <1>13 DEF FindStale, Recovered, Stale, Processing, Active, vars,
     requests, versions, workers, counters
<1>14. ASSUME NEW w \in Workers, RecoverStale(w) PROVE status'[q] = "accepted" /\
   candidate'[q] = candidate[q]
  <2>1. found[w][q] = "kept"
    BY DEF Recovery, Held
  <2>2. QED
    BY <2>1, <1>14, <1>status DEF RecoverStale
<1>15. ASSUME NEW w \in Workers, Claim(w) PROVE status'[q] = "accepted" /\ candidate'[q] =
   candidate[q]
  BY <1>status, <1>candidate, <1>15 DEF Claim, Active, vars, requests, versions, workers,
     counters
<1>16. ASSUME NEW w \in Workers, Crash(w) PROVE status'[q] = "accepted" /\ candidate'[q] =
   candidate[q]
  BY <1>status, <1>candidate, <1>16 DEF Crash, NothingFound, Active, vars, requests, versions,
     workers, counters
<1>17. ASSUME NEW w \in Workers, Restart(w) PROVE status'[q] = "accepted" /\ candidate'[q] =
   candidate[q]
  BY <1>status, <1>candidate, <1>17 DEF Restart, Active, vars, requests, versions, workers,
     counters
<1>18. ASSUME NEW w \in Workers, NEW r \in Requests, Return(w, r) PROVE status'[q] =
   "accepted" /\ candidate'[q] = candidate[q]
  BY <1>status, <1>candidate, <1>18 DEF Return, Goto, Active, vars, requests, versions,
     workers, counters
<1>19. ASSUME NEW w \in Workers, NEW r \in Requests, Convert(w, r) PROVE status'[q] =
   "accepted" /\ candidate'[q] = candidate[q]
  BY <1>19 DEF Convert, requests
<1>20. ASSUME NEW w \in Workers, NEW r \in Requests, Store(w, r) PROVE status'[q] = "accepted"
   /\ candidate'[q] = candidate[q]
  BY <1>status, <1>candidate, <1>20 DEF Store, Goto, Active, vars, requests, versions,
     workers, counters
<1>21. ASSUME NEW w \in Workers, NEW r \in Requests, Validate(w, r) PROVE status'[q] =
   "accepted" /\ candidate'[q] = candidate[q]
  BY <1>21 DEF Validate, requests
<1>22. ASSUME NEW w \in Workers, NEW r \in Requests, ReportCandidate(w, r) PROVE status'[q] =
   "accepted" /\ candidate'[q] = candidate[q]
  BY <1>status, <1>candidate, <1>22 DEF ReportCandidate, Report, ReportAgain, Goto, Active,
     vars, requests, versions, workers, counters
<1>23. ASSUME NEW w \in Workers, NEW r \in Requests, Finish(w, r) PROVE status'[q] =
   "accepted" /\ candidate'[q] = candidate[q]
  BY <1>status, <1>candidate, <1>23 DEF Finish, MayFinish, Goto, Active, vars, requests, versions,
     workers, counters
<1>24. ASSUME NEW w \in Workers, NEW r \in Requests, ReadFailed(w, r) PROVE status'[q] =
   "accepted" /\ candidate'[q] = candidate[q]
  BY <1>status, <1>candidate, <1>24 DEF ReadFailed, Goto, Active, vars, requests, versions,
     workers, counters
<1>25. ASSUME NEW w \in Workers, NEW r \in Requests, WriteFailed(w, r) PROVE status'[q] =
   "accepted" /\ candidate'[q] = candidate[q]
  <2>1. q # r
    BY <1>25 DEF Recovery, Held, WriteFailed
  <2>2. QED
    BY <2>1, <1>25, <1>status DEF WriteFailed
<1>26. QED
  BY <1>1, <1>2, <1>3, <1>4, <1>5, <1>6, <1>7, <1>8, <1>9, <1>10, <1>11, <1>12, <1>13, <1>14,
     <1>15, <1>16, <1>17, <1>18, <1>19, <1>20, <1>21, <1>22, <1>23, <1>24, <1>25 DEF Next,
     Loop, Work


LEMMA SourcedStep ==
    ASSUME OneWorker, TypeOK, WellPlaced, Consented, [Next]_vars, NEW v0 \in Versions
    PROVE  Sourced(v0)'
<1>candidate. candidate \in [Requests -> Versions \cup {None}]
  BY DEF TypeOK
<1>method. method \in [Versions -> {"none", "manual", "pending", "accepted"}]
  BY DEF TypeOK
<1>vstatus. vstatus \in [Versions -> VersionStatuses]
  BY DEF TypeOK
<1>x. Sourced(v0)
  BY DEF Consented
<1>1. CASE UNCHANGED vars
  BY <1>candidate, <1>method, <1>vstatus, <1>x, <1>1 DEF vars, requests, versions, workers,
     counters, Sourced
<1>2. ASSUME NEW r \in Requests, Create(r) PROVE Sourced(v0)'
  BY <1>candidate, <1>method, <1>vstatus, <1>x, <1>2 DEF Create, Enqueue, Sourced, vars,
     requests, versions, workers, counters
<1>3. ASSUME NEW r \in Requests, Cancel(r) PROVE Sourced(v0)'
  BY <1>candidate, <1>method, <1>vstatus, <1>x, <1>3 DEF Cancel, Sourced, vars, requests,
     versions, workers, counters
<1>4. ASSUME NEW r \in Requests, Accept(r) PROVE Sourced(v0)'
  BY <1>candidate, <1>method, <1>vstatus, <1>x, <1>4 DEF Accept, Sourced, vars, requests,
     versions, workers, counters
<1>5. ASSUME NEW r \in Requests, Reject(r) PROVE Sourced(v0)'
  BY <1>candidate, <1>method, <1>vstatus, <1>x, <1>5 DEF Reject, ReadCandidate, WriteRejected,
     Sourced, vars, requests,
     versions, workers, counters
<1>6. ASSUME NEW r \in Requests, Expire(r) PROVE Sourced(v0)'
  BY <1>candidate, <1>method, <1>vstatus, <1>x, <1>6 DEF Expire, Sourced, vars, requests,
     versions, workers, counters
<1>7. ASSUME NEW p \in Requests, NEW r \in Requests, Retry(p, r) PROVE Sourced(v0)'
  BY <1>candidate, <1>method, <1>vstatus, <1>x, <1>7 DEF Retry, Enqueue, Sourced, vars,
     requests, versions, workers, counters
<1>8. ASSUME NEW v \in Versions, Upload(v) PROVE Sourced(v0)'
  BY <1>candidate, <1>method, <1>vstatus, <1>x, <1>8 DEF Upload, Sourced, vars, requests,
     versions, workers, counters
<1>9. ASSUME NEW v \in Versions, Check(v) PROVE Sourced(v0)'
  BY <1>9, <1>candidate, <1>method, <1>vstatus, <1>x DEF Check, Sourced, Open, requests
<1>10. ASSUME NEW v \in Versions, Checked(v) PROVE Sourced(v0)'
  BY <1>candidate, <1>method, <1>vstatus, <1>x, <1>10 DEF Checked, Report, ReportAgain,
     Sourced, vars, requests, versions, workers, counters
<1>11. ASSUME NEW v \in Versions, Submit(v) PROVE Sourced(v0)'
  BY <1>candidate, <1>method, <1>vstatus, <1>x, <1>11 DEF Submit, MaySubmit, Sourced, vars,
     requests, versions, workers, counters
<1>12. ASSUME NEW v \in Versions, Review(v) PROVE Sourced(v0)'
  BY <1>candidate, <1>method, <1>vstatus, <1>x, <1>12 DEF Review, Decisions, Sourced, vars,
     requests, versions, workers, counters
<1>13. ASSUME NEW w \in Workers, FindStale(w) PROVE Sourced(v0)'
  BY <1>candidate, <1>method, <1>vstatus, <1>x, <1>13 DEF FindStale, Recovered, Stale,
     Processing, Sourced, vars, requests, versions, workers, counters
<1>14. ASSUME NEW w \in Workers, RecoverStale(w) PROVE Sourced(v0)'
  BY <1>candidate, <1>method, <1>vstatus, <1>x, <1>14 DEF RecoverStale, NothingFound, Sourced,
     vars, requests, versions, workers, counters
<1>15. ASSUME NEW w \in Workers, Claim(w) PROVE Sourced(v0)'
  BY <1>candidate, <1>method, <1>vstatus, <1>x, <1>15 DEF Claim, Sourced, vars, requests,
     versions, workers, counters
<1>16. ASSUME NEW w \in Workers, Crash(w) PROVE Sourced(v0)'
  BY <1>candidate, <1>method, <1>vstatus, <1>x, <1>16 DEF Crash, NothingFound, Sourced, vars,
     requests, versions, workers, counters
<1>17. ASSUME NEW w \in Workers, Restart(w) PROVE Sourced(v0)'
  BY <1>candidate, <1>method, <1>vstatus, <1>x, <1>17 DEF Restart, Sourced, vars, requests,
     versions, workers, counters
<1>18. ASSUME NEW w \in Workers, NEW r \in Requests, Return(w, r) PROVE Sourced(v0)'
  BY <1>candidate, <1>method, <1>vstatus, <1>x, <1>18 DEF Return, Goto, Sourced, vars,
     requests, versions, workers, counters
<1>19. ASSUME NEW w \in Workers, NEW r \in Requests, Convert(w, r) PROVE Sourced(v0)'
  BY <1>candidate, <1>method, <1>vstatus, <1>x, <1>19 DEF Convert, Goto, FailFor, Sourced,
     vars, requests, versions, workers, counters
<1>20. ASSUME NEW w \in Workers, NEW r \in Requests, Store(w, r) PROVE Sourced(v0)'
  BY <1>candidate, <1>method, <1>vstatus, <1>x, <1>20 DEF Store, Goto, Sourced, vars,
     requests, versions, workers, counters
<1>21. ASSUME NEW w \in Workers, NEW r \in Requests, Validate(w, r) PROVE Sourced(v0)'
  BY <1>candidate, <1>method, <1>vstatus, <1>x, <1>21 DEF Validate, Goto, FailFor, Sourced,
     vars, requests, versions, workers, counters
<1>22. ASSUME NEW w \in Workers, NEW r \in Requests, ReportCandidate(w, r) PROVE Sourced(v0)'
  BY <1>candidate, <1>method, <1>vstatus, <1>x, <1>22 DEF ReportCandidate, Report,
     ReportAgain, Goto, Sourced, vars, requests, versions, workers, counters
<1>23. ASSUME NEW w \in Workers, NEW r \in Requests, Finish(w, r) PROVE Sourced(v0)'
  BY <1>candidate, <1>method, <1>vstatus, <1>x, <1>23 DEF Finish, MayFinish, Goto, Sourced, vars,
     requests, versions, workers, counters
<1>24. ASSUME NEW w \in Workers, NEW r \in Requests, ReadFailed(w, r) PROVE Sourced(v0)'
  BY <1>candidate, <1>method, <1>vstatus, <1>x, <1>24 DEF ReadFailed, Goto, Sourced, vars,
     requests, versions, workers, counters
<1>25. ASSUME NEW w \in Workers, NEW r \in Requests, WriteFailed(w, r) PROVE Sourced(v0)'
  BY <1>candidate, <1>method, <1>vstatus, <1>x, <1>25 DEF WriteFailed, Goto, Sourced, vars,
     requests, versions, workers, counters
<1>26. QED
  BY <1>1, <1>2, <1>3, <1>4, <1>5, <1>6, <1>7, <1>8, <1>9, <1>10, <1>11, <1>12, <1>13, <1>14,
     <1>15, <1>16, <1>17, <1>18, <1>19, <1>20, <1>21, <1>22, <1>23, <1>24, <1>25 DEF Next,
     Loop, Work

LEMMA AcceptedStep ==
    ASSUME OneWorker, TypeOK, WellPlaced, Consented, Recovery, [Next]_vars, NEW v0 \in Versions
    PROVE  Accepted(v0)'
<1>candidate. candidate \in [Requests -> Versions \cup {None}]
  BY DEF TypeOK
<1>method. method \in [Versions -> {"none", "manual", "pending", "accepted"}]
  BY DEF TypeOK
<1>status. status \in [Requests -> Statuses]
  BY DEF TypeOK
<1>x. Accepted(v0)
  BY DEF Consented
<1>1. CASE UNCHANGED vars
  BY <1>candidate, <1>method, <1>status, <1>x, <1>1 DEF vars, requests, versions, workers,
     counters, Accepted
<1>2. ASSUME NEW r \in Requests, Create(r) PROVE Accepted(v0)'
  BY <1>candidate, <1>method, <1>status, <1>x, <1>2 DEF Create, Enqueue, Accepted, vars,
     requests, versions, workers, counters
<1>3. ASSUME NEW r \in Requests, Cancel(r) PROVE Accepted(v0)'
  <2>1. UNCHANGED method
    BY <1>3 DEF Cancel, versions
  <2>2. ASSUME method[v0] = "accepted"
        PROVE  \E p \in Requests : status'[p] = "accepted" /\ candidate'[p] = v0
    <3>1. PICK p \in Requests : status[p] = "accepted" /\ candidate[p] = v0
      BY <2>2, <1>x DEF Accepted
    <3>2. QED
      BY <3>1, AcceptedStays
  <2>3. QED
    BY <2>1, <2>2 DEF Accepted
<1>4. ASSUME NEW r \in Requests, Accept(r) PROVE Accepted(v0)'
  BY <1>candidate, <1>method, <1>status, <1>x, <1>4 DEF Accept, Accepted, vars, requests,
     versions, workers, counters
<1>5. ASSUME NEW r \in Requests, Reject(r) PROVE Accepted(v0)'
  BY <1>candidate, <1>method, <1>status, <1>x, <1>5 DEF Reject, ReadCandidate, WriteRejected,
     Accepted, vars, requests,
     versions, workers, counters
<1>6. ASSUME NEW r \in Requests, Expire(r) PROVE Accepted(v0)'
  BY <1>candidate, <1>method, <1>status, <1>x, <1>6 DEF Expire, Accepted, vars, requests,
     versions, workers, counters
<1>7. ASSUME NEW p \in Requests, NEW r \in Requests, Retry(p, r) PROVE Accepted(v0)'
  BY <1>candidate, <1>method, <1>status, <1>x, <1>7 DEF Retry, Enqueue, Accepted, vars,
     requests, versions, workers, counters
<1>8. ASSUME NEW v \in Versions, Upload(v) PROVE Accepted(v0)'
  BY <1>candidate, <1>method, <1>status, <1>x, <1>8 DEF Upload, Accepted, vars, requests,
     versions, workers, counters
<1>9. ASSUME NEW v \in Versions, Check(v) PROVE Accepted(v0)'
  BY <1>candidate, <1>method, <1>status, <1>x, <1>9 DEF Check, Accepted, vars, requests,
     versions, workers, counters
<1>10. ASSUME NEW v \in Versions, Checked(v) PROVE Accepted(v0)'
  BY <1>candidate, <1>method, <1>status, <1>x, <1>10 DEF Checked, Report, ReportAgain,
     Accepted, vars, requests, versions, workers, counters
<1>11. ASSUME NEW v \in Versions, Submit(v) PROVE Accepted(v0)'
  BY <1>candidate, <1>method, <1>status, <1>x, <1>11 DEF Submit, MaySubmit, Accepted, vars,
     requests, versions, workers, counters
<1>12. ASSUME NEW v \in Versions, Review(v) PROVE Accepted(v0)'
  BY <1>candidate, <1>method, <1>status, <1>x, <1>12 DEF Review, Decisions, Accepted, vars,
     requests, versions, workers, counters
<1>13. ASSUME NEW w \in Workers, FindStale(w) PROVE Accepted(v0)'
  BY <1>candidate, <1>method, <1>status, <1>x, <1>13 DEF FindStale, Recovered, Stale,
     Processing, Accepted, vars, requests, versions, workers, counters
<1>14. ASSUME NEW w \in Workers, RecoverStale(w) PROVE Accepted(v0)'
  <2>1. UNCHANGED method
    BY <1>14 DEF RecoverStale, NothingFound, versions
  <2>2. ASSUME method[v0] = "accepted"
        PROVE  \E p \in Requests : status'[p] = "accepted" /\ candidate'[p] = v0
    <3>1. PICK p \in Requests : status[p] = "accepted" /\ candidate[p] = v0
      BY <2>2, <1>x DEF Accepted
    <3>2. QED
      BY <3>1, AcceptedStays
  <2>3. QED
    BY <2>1, <2>2 DEF Accepted
<1>15. ASSUME NEW w \in Workers, Claim(w) PROVE Accepted(v0)'
  BY <1>candidate, <1>method, <1>status, <1>x, <1>15 DEF Claim, Accepted, vars, requests,
     versions, workers, counters
<1>16. ASSUME NEW w \in Workers, Crash(w) PROVE Accepted(v0)'
  BY <1>candidate, <1>method, <1>status, <1>x, <1>16 DEF Crash, NothingFound, Accepted, vars,
     requests, versions, workers, counters
<1>17. ASSUME NEW w \in Workers, Restart(w) PROVE Accepted(v0)'
  BY <1>candidate, <1>method, <1>status, <1>x, <1>17 DEF Restart, Accepted, vars, requests,
     versions, workers, counters
<1>18. ASSUME NEW w \in Workers, NEW r \in Requests, Return(w, r) PROVE Accepted(v0)'
  BY <1>candidate, <1>method, <1>status, <1>x, <1>18 DEF Return, Goto, Accepted, vars,
     requests, versions, workers, counters
<1>19. ASSUME NEW w \in Workers, NEW r \in Requests, Convert(w, r) PROVE Accepted(v0)'
  BY <1>candidate, <1>method, <1>status, <1>x, <1>19 DEF Convert, Goto, FailFor, Accepted,
     vars, requests, versions, workers, counters
<1>20. ASSUME NEW w \in Workers, NEW r \in Requests, Store(w, r) PROVE Accepted(v0)'
  BY <1>candidate, <1>method, <1>status, <1>x, <1>20 DEF Store, Goto, Accepted, vars,
     requests, versions, workers, counters
<1>21. ASSUME NEW w \in Workers, NEW r \in Requests, Validate(w, r) PROVE Accepted(v0)'
  BY <1>candidate, <1>method, <1>status, <1>x, <1>21 DEF Validate, Goto, FailFor, Accepted,
     vars, requests, versions, workers, counters
<1>22. ASSUME NEW w \in Workers, NEW r \in Requests, ReportCandidate(w, r) PROVE Accepted(v0)'
  BY <1>candidate, <1>method, <1>status, <1>x, <1>22 DEF ReportCandidate, Report, ReportAgain,
     Goto, Accepted, vars, requests, versions, workers, counters
<1>23. ASSUME NEW w \in Workers, NEW r \in Requests, Finish(w, r) PROVE Accepted(v0)'
  BY <1>candidate, <1>method, <1>status, <1>x, <1>23 DEF Finish, MayFinish, Goto, Accepted, vars,
     requests, versions, workers, counters
<1>24. ASSUME NEW w \in Workers, NEW r \in Requests, ReadFailed(w, r) PROVE Accepted(v0)'
  BY <1>candidate, <1>method, <1>status, <1>x, <1>24 DEF ReadFailed, Goto, Accepted, vars,
     requests, versions, workers, counters
<1>25. ASSUME NEW w \in Workers, NEW r \in Requests, WriteFailed(w, r) PROVE Accepted(v0)'
  <2>1. UNCHANGED method
    BY <1>25 DEF WriteFailed, Goto, versions
  <2>2. ASSUME method[v0] = "accepted"
        PROVE  \E p \in Requests : status'[p] = "accepted" /\ candidate'[p] = v0
    <3>1. PICK p \in Requests : status[p] = "accepted" /\ candidate[p] = v0
      BY <2>2, <1>x DEF Accepted
    <3>2. QED
      BY <3>1, AcceptedStays
  <2>3. QED
    BY <2>1, <2>2 DEF Accepted
<1>26. QED
  BY <1>1, <1>2, <1>3, <1>4, <1>5, <1>6, <1>7, <1>8, <1>9, <1>10, <1>11, <1>12, <1>13, <1>14,
     <1>15, <1>16, <1>17, <1>18, <1>19, <1>20, <1>21, <1>22, <1>23, <1>24, <1>25 DEF Next,
     Loop, Work

LEMMA ConsentedStep ==
    ASSUME OneWorker, TypeOK, WellPlaced, Recovery, Consented, [Next]_vars
    PROVE  Consented'
  BY SourcedStep, AcceptedStep DEF Consented

\* The step that ConsentBeforeReview speaks of.
ConsentGiven ==
    \A v \in Versions : vstatus[v] # "submitted" /\ vstatus'[v] = "submitted" =>
        \/ method[v] = "manual"
        \/ \E r \in Requests : status[r] = "accepted" /\ candidate[r] = v

\* Only submit_version makes a version submitted.
LEMMA SubmittedBySubmit ==
    ASSUME TypeOK, [Next]_vars, NEW v0 \in Versions, vstatus[v0] # "submitted",
           vstatus'[v0] = "submitted"
    PROVE  Submit(v0)
<1>vstatus. vstatus \in [Versions -> VersionStatuses]
  BY DEF TypeOK
<1>1. CASE UNCHANGED vars
  BY <1>vstatus, <1>1 DEF vars, requests, versions, workers, counters, Submit
<1>2. ASSUME NEW r \in Requests, Create(r) PROVE Submit(v0)
  BY <1>vstatus, <1>2 DEF Create, Enqueue, Submit, vars, requests, versions, workers, counters
<1>3. ASSUME NEW r \in Requests, Cancel(r) PROVE Submit(v0)
  BY <1>vstatus, <1>3 DEF Cancel, Submit, vars, requests, versions, workers, counters
<1>4. ASSUME NEW r \in Requests, Accept(r) PROVE Submit(v0)
  BY <1>vstatus, <1>4 DEF Accept, Submit, vars, requests, versions, workers, counters
<1>5. ASSUME NEW r \in Requests, Reject(r) PROVE Submit(v0)
  BY <1>vstatus, <1>5 DEF Reject, ReadCandidate, WriteRejected, Submit, vars, requests, versions,
     workers, counters
<1>6. ASSUME NEW r \in Requests, Expire(r) PROVE Submit(v0)
  BY <1>vstatus, <1>6 DEF Expire, Submit, vars, requests, versions, workers, counters
<1>7. ASSUME NEW p \in Requests, NEW r \in Requests, Retry(p, r) PROVE Submit(v0)
  BY <1>vstatus, <1>7 DEF Retry, Enqueue, Submit, vars, requests, versions, workers, counters
<1>8. ASSUME NEW v \in Versions, Upload(v) PROVE Submit(v0)
  BY <1>vstatus, <1>8 DEF Upload, Submit, vars, requests, versions, workers, counters
<1>9. ASSUME NEW v \in Versions, Check(v) PROVE Submit(v0)
  BY <1>vstatus, <1>9 DEF Check, Submit, vars, requests, versions, workers, counters
<1>10. ASSUME NEW v \in Versions, Checked(v) PROVE Submit(v0)
  BY <1>vstatus, <1>10 DEF Checked, Report, ReportAgain, Submit, vars, requests, versions,
     workers, counters
<1>11. ASSUME NEW v \in Versions, Submit(v) PROVE Submit(v0)
  BY <1>vstatus, <1>11 DEF Submit, MaySubmit, Submit, vars, requests, versions, workers,
     counters
<1>12. ASSUME NEW v \in Versions, Review(v) PROVE Submit(v0)
  BY <1>vstatus, <1>12 DEF Review, Decisions, Submit, vars, requests, versions, workers,
     counters
<1>13. ASSUME NEW w \in Workers, FindStale(w) PROVE Submit(v0)
  BY <1>vstatus, <1>13 DEF FindStale, Recovered, Stale, Processing, Submit, vars, requests,
     versions, workers, counters
<1>14. ASSUME NEW w \in Workers, RecoverStale(w) PROVE Submit(v0)
  BY <1>vstatus, <1>14 DEF RecoverStale, NothingFound, Submit, vars, requests, versions,
     workers, counters
<1>15. ASSUME NEW w \in Workers, Claim(w) PROVE Submit(v0)
  BY <1>vstatus, <1>15 DEF Claim, Submit, vars, requests, versions, workers, counters
<1>16. ASSUME NEW w \in Workers, Crash(w) PROVE Submit(v0)
  BY <1>vstatus, <1>16 DEF Crash, NothingFound, Submit, vars, requests, versions, workers,
     counters
<1>17. ASSUME NEW w \in Workers, Restart(w) PROVE Submit(v0)
  BY <1>vstatus, <1>17 DEF Restart, Submit, vars, requests, versions, workers, counters
<1>18. ASSUME NEW w \in Workers, NEW r \in Requests, Return(w, r) PROVE Submit(v0)
  BY <1>vstatus, <1>18 DEF Return, Goto, Submit, vars, requests, versions, workers, counters
<1>19. ASSUME NEW w \in Workers, NEW r \in Requests, Convert(w, r) PROVE Submit(v0)
  BY <1>vstatus, <1>19 DEF Convert, Goto, FailFor, Submit, vars, requests, versions, workers,
     counters
<1>20. ASSUME NEW w \in Workers, NEW r \in Requests, Store(w, r) PROVE Submit(v0)
  BY <1>vstatus, <1>20 DEF Store, Goto, Submit, vars, requests, versions, workers, counters
<1>21. ASSUME NEW w \in Workers, NEW r \in Requests, Validate(w, r) PROVE Submit(v0)
  BY <1>vstatus, <1>21 DEF Validate, Goto, FailFor, Submit, vars, requests, versions, workers,
     counters
<1>22. ASSUME NEW w \in Workers, NEW r \in Requests, ReportCandidate(w, r) PROVE Submit(v0)
  BY <1>vstatus, <1>22 DEF ReportCandidate, Report, ReportAgain, Goto, Submit, vars, requests,
     versions, workers, counters
<1>23. ASSUME NEW w \in Workers, NEW r \in Requests, Finish(w, r) PROVE Submit(v0)
  BY <1>vstatus, <1>23 DEF Finish, MayFinish, Goto, Submit, vars, requests, versions, workers,
     counters
<1>24. ASSUME NEW w \in Workers, NEW r \in Requests, ReadFailed(w, r) PROVE Submit(v0)
  BY <1>vstatus, <1>24 DEF ReadFailed, Goto, Submit, vars, requests, versions, workers, counters
<1>25. ASSUME NEW w \in Workers, NEW r \in Requests, WriteFailed(w, r) PROVE Submit(v0)
  BY <1>vstatus, <1>25 DEF WriteFailed, Goto, Submit, vars, requests, versions, workers,
     counters
<1>26. QED
  BY <1>1, <1>2, <1>3, <1>4, <1>5, <1>6, <1>7, <1>8, <1>9, <1>10, <1>11, <1>12, <1>13, <1>14,
     <1>15, <1>16, <1>17, <1>18, <1>19, <1>20, <1>21, <1>22, <1>23, <1>24, <1>25 DEF Next,
     Loop, Work

\* With one worker a version reaches the reviewers only if the user wrote it or
\* accepted the conversion that produced it.
THEOREM ConsentKept == OneWorker => (Spec => ConsentBeforeReview)
<1> SUFFICES ASSUME OneWorker PROVE Spec => ConsentBeforeReview
  OBVIOUS
<1>1. Init => Consented
  BY PineAssumption DEF Init, Consented, Sourced, Accepted
<1>2. TypeOK /\ WellPlaced /\ Recovery /\ Consented /\ [Next]_vars => Consented'
  BY ConsentedStep
<1>3. TypeOK /\ Consented /\ [Next]_vars => [ConsentGiven]_vars
  <2> SUFFICES ASSUME TypeOK, Consented, [Next]_vars, NEW v \in Versions,
                      vstatus[v] # "submitted", vstatus'[v] = "submitted"
               PROVE  \/ method[v] = "manual"
                      \/ \E r \in Requests : status[r] = "accepted" /\ candidate[r] = v
    BY DEF ConsentGiven
  <2>1. vstatus[v] = "ready_for_review" /\ method[v] # "pending"
    BY SubmittedBySubmit DEF Submit, MaySubmit
  <2>2. method[v] \in {"manual", "accepted"}
    BY <2>1 DEF Consented, Sourced, TypeOK
  <2>3. QED
    BY <2>2 DEF Consented, Accepted
<1>4. Spec => [][ConsentGiven]_vars
  BY Recovers, <1>1, <1>2, <1>3, PTL DEF Spec
<1>5. QED
  BY <1>4 DEF ConsentBeforeReview, ConsentGiven

-----------------------------------------------------------------------------
(* How a request has ended stands.                                          *)

\* One request keeps the way it has ended.
Stands(r) ==
    status[r] \in Ended =>
       \/ status'[r] = status[r] \/ <<status[r], status'[r]>> \in Choices
       \/ /\ status[r] = "canceled"
          /\ \E w \in Workers : at[w][r] = "write failed" \/ found[w][r] # "kept"

LEMMA StandsStep ==
    ASSUME TypeOK, Recovery, [Next]_vars, NEW q \in Requests
    PROVE  Stands(q)
<1>status. status \in [Requests -> Statuses]
  BY DEF TypeOK
<1>1. CASE UNCHANGED status
  BY <1>1 DEF Stands
<1>2. CASE UNCHANGED vars
  BY <1>1, <1>2 DEF vars, requests
<1>3. ASSUME NEW r \in Requests, Create(r) PROVE Stands(q)
  BY <1>status, <1>3 DEF Create, Enqueue, Stands, Ended
<1>4. ASSUME NEW r \in Requests, Cancel(r) PROVE Stands(q)
  BY <1>status, <1>4 DEF Cancel, Active, Stands, Ended
<1>5. ASSUME NEW r \in Requests, Accept(r) PROVE Stands(q)
  BY <1>status, <1>5 DEF Accept, Stands, Choices
<1>6. ASSUME NEW r \in Requests, Reject(r) PROVE Stands(q)
  BY <1>status, <1>6 DEF Reject, ReadCandidate, WriteRejected, requests, Stands, Choices
<1>7. ASSUME NEW r \in Requests, Expire(r) PROVE Stands(q)
  BY <1>1, <1>7 DEF Expire
<1>8. ASSUME NEW p \in Requests, NEW r \in Requests, Retry(p, r) PROVE Stands(q)
  BY <1>status, <1>8 DEF Retry, Enqueue, Stands, Ended
<1>9. ASSUME NEW v \in Versions,
             Upload(v) \/ Check(v) \/ Checked(v) \/ Submit(v) \/ Review(v)
      PROVE  Stands(q)
  BY <1>1, <1>9 DEF Upload, Check, Checked, Submit, Review, requests
<1>10. ASSUME NEW w \in Workers, FindStale(w) \/ Crash(w) \/ Restart(w) PROVE Stands(q)
  BY <1>1, <1>10 DEF FindStale, Crash, Restart, requests
<1>11. ASSUME NEW w \in Workers, RecoverStale(w) PROVE Stands(q)
  <2>1. found[w][q] # "kept" => status[q] \in {"processing", "canceled"}
    BY DEF Recovery, Held
  <2>2. CASE found[w][q] = "kept"
    BY <2>2, <1>11, <1>status DEF RecoverStale, Stands
  <2>3. CASE found[w][q] # "kept"
    BY <2>1, <2>3 DEF Stands, Ended
  <2>4. QED
    BY <2>2, <2>3
<1>12. ASSUME NEW w \in Workers, Claim(w) PROVE Stands(q)
  BY <1>12, <1>status DEF Claim, Stands, Ended
<1>13. ASSUME NEW w \in Workers, NEW r \in Requests,
              \/ Return(w, r) \/ Convert(w, r) \/ Store(w, r) \/ Validate(w, r)
              \/ ReportCandidate(w, r) \/ ReadFailed(w, r)
       PROVE  Stands(q)
  <2>1. UNCHANGED status
    BY <1>13 DEF Return, Convert, Store, Validate, ReportCandidate, ReadFailed, requests
  <2>2. QED
    BY <1>1, <2>1
<1>14. ASSUME NEW w \in Workers, NEW r \in Requests, Finish(w, r) PROVE Stands(q)
  BY <1>14, <1>status DEF Finish, MayFinish, Stands, Ended
<1>15. ASSUME NEW w \in Workers, NEW r \in Requests, WriteFailed(w, r) PROVE Stands(q)
  <2>1. at[w][r] = "write failed" /\ status[r] \in {"processing", "canceled"}
    BY <1>15 DEF WriteFailed, Recovery, Held
  <2>2. CASE q = r
    BY <2>1, <2>2 DEF Stands, Ended
  <2>3. CASE q # r
    BY <2>3, <1>15, <1>status DEF WriteFailed, Stands
  <2>4. QED
    BY <2>2, <2>3
<1>16. QED
  BY <1>2, <1>3, <1>4, <1>5, <1>6, <1>7, <1>8, <1>9, <1>10, <1>11, <1>12, <1>13, <1>14, <1>15
     DEF Next, Loop, Work

\* One worker: no late thread and no recovery takes back how a request has
\* ended, except a cancellation that came between its read and its write.
THEOREM ResultsKept == OneWorker => (Spec => ResultsStay)
<1> SUFFICES ASSUME OneWorker PROVE Spec => ResultsStay
  OBVIOUS
<1>1. TypeOK /\ WellPlaced /\ Recovery /\ [Next]_vars => \A r \in Requests : Stands(r)
  BY StandsStep
<1>2. Spec => [][\A r \in Requests : Stands(r)]_vars
  BY Recovers, <1>1, PTL DEF Spec
<1>3. QED
  BY <1>2 DEF ResultsStay, Stands

-----------------------------------------------------------------------------
(* Review: what becomes of a version that the user has submitted.           *)

Settled == {"succeeded", "validation_failed"}
Reviewing == {"submitted", "under_review"}

\* The thread of a request that is not processing any more is about to return.
Working(w, r) == at[w][r] # "idle" => status[r] \in {"processing", "canceled"}

LEMMA WorkingStep ==
    ASSUME OneWorker, TypeOK, WellPlaced, Recovery, [Next]_vars, NEW x \in Workers,
           NEW q \in Requests, Working(x, q)
    PROVE  Working(x, q)'
<1>0. /\ status \in [Requests -> Statuses] /\ at \in [Workers -> [Requests -> Places]]
      /\ \A w \in Workers : w = x /\ (at[w][q] # "idle" => loop[w] = "run")
  BY DEF TypeOK, Recovery, Phased, OneWorker
<1> USE <1>0 DEF Working, Goto, requests, versions, workers, counters, Active, Settled
<1>1. CASE UNCHANGED vars
  BY <1>1 DEF vars
<1>2. ASSUME NEW r \in Requests, Create(r) PROVE Working(x, q)'
  BY <1>2 DEF Create, Enqueue
<1>3. ASSUME NEW r \in Requests, Cancel(r) PROVE Working(x, q)'
  BY <1>3 DEF Cancel
<1>4. ASSUME NEW r \in Requests, Accept(r) PROVE Working(x, q)'
  BY <1>4 DEF Accept
<1>5. ASSUME NEW r \in Requests, Reject(r) PROVE Working(x, q)'
  BY <1>5 DEF Reject, ReadCandidate, WriteRejected
<1>6. ASSUME NEW r \in Requests, Expire(r) PROVE Working(x, q)'
  BY <1>6 DEF Expire
<1>7. ASSUME NEW p \in Requests, NEW r \in Requests, Retry(p, r) PROVE Working(x, q)'
  BY <1>7 DEF Retry, Enqueue
<1>8. ASSUME NEW v \in Versions, Upload(v) PROVE Working(x, q)'
  BY <1>8 DEF Upload
<1>9. ASSUME NEW v \in Versions, Check(v) PROVE Working(x, q)'
  BY <1>9 DEF Check
<1>10. ASSUME NEW v \in Versions, Checked(v) PROVE Working(x, q)'
  BY <1>10 DEF Checked, Report, ReportAgain
<1>11. ASSUME NEW v \in Versions, Submit(v) PROVE Working(x, q)'
  BY <1>11 DEF Submit
<1>12. ASSUME NEW v \in Versions, Review(v) PROVE Working(x, q)'
  BY <1>12 DEF Review
<1>13. ASSUME NEW w \in Workers, FindStale(w) PROVE Working(x, q)'
  BY <1>13 DEF FindStale
<1>14. ASSUME NEW w \in Workers, RecoverStale(w) PROVE Working(x, q)'
  BY <1>14 DEF RecoverStale
<1>15. ASSUME NEW w \in Workers, Claim(w) PROVE Working(x, q)'
  BY <1>15 DEF Claim
<1>16. ASSUME NEW w \in Workers, Crash(w) PROVE Working(x, q)'
  BY <1>16 DEF Crash
<1>17. ASSUME NEW w \in Workers, Restart(w) PROVE Working(x, q)'
  BY <1>17 DEF Restart
<1>18. ASSUME NEW w \in Workers, NEW r \in Requests, Return(w, r) PROVE Working(x, q)'
  BY <1>18 DEF Return
<1>19. ASSUME NEW w \in Workers, NEW r \in Requests, Convert(w, r) PROVE Working(x, q)'
  BY <1>19, Answered
<1>20. ASSUME NEW w \in Workers, NEW r \in Requests, Store(w, r) PROVE Working(x, q)'
  BY <1>20 DEF Store
<1>21. ASSUME NEW w \in Workers, NEW r \in Requests, Validate(w, r) PROVE Working(x, q)'
  BY <1>21, Answered
<1>22. ASSUME NEW w \in Workers, NEW r \in Requests, ReportCandidate(w, r) PROVE Working(x, q)'
  BY <1>22 DEF ReportCandidate, Report, ReportAgain
<1>23. ASSUME NEW w \in Workers, NEW r \in Requests, Finish(w, r) PROVE Working(x, q)'
  BY <1>23 DEF Finish, MayFinish
<1>24. ASSUME NEW w \in Workers, NEW r \in Requests, ReadFailed(w, r) PROVE Working(x, q)'
  BY <1>24 DEF ReadFailed
<1>25. ASSUME NEW w \in Workers, NEW r \in Requests, WriteFailed(w, r) PROVE Working(x, q)'
  BY <1>25 DEF WriteFailed
<1>26. QED
  BY <1>1, <1>2, <1>3, <1>4, <1>5, <1>6, <1>7, <1>8, <1>9, <1>10, <1>11, <1>12, <1>13, <1>14,
     <1>15, <1>16, <1>17, <1>18, <1>19, <1>20, <1>21, <1>22, <1>23, <1>24, <1>25 DEF Next,
     Loop, Work

\* A version is in the hands of the user, of a report on a source that has
\* none, or of the reviewers.
VersionMoves(v) ==
    \/ vstatus'[v] = vstatus[v]
    \/ vstatus[v] = "absent" /\ vstatus'[v] = "draft"
    \/ v \notin reported /\ vstatus'[v] \in Open
    \/ Submit(v) /\ vstatus'[v] = "submitted"
    \/ <<vstatus[v], vstatus'[v]>> \in Decisions
    \/ \E r \in Requests : Reject(r) /\ candidate[r] = v /\ vstatus'[v] = "archived"

LEMMA VersionMovesStep ==
    ASSUME TypeOK, [Next]_vars, NEW u \in Versions
    PROVE  VersionMoves(u) /\ reported \subseteq reported'
<1>0. vstatus \in [Versions -> VersionStatuses]
  BY DEF TypeOK
<1> USE <1>0 DEF VersionMoves, Goto, Open, requests, versions, workers, counters
<1>1. CASE UNCHANGED vars
  BY <1>1 DEF vars
<1>2. ASSUME NEW r \in Requests, Create(r) PROVE VersionMoves(u) /\ reported \subseteq reported'
  BY <1>2 DEF Create, Enqueue
<1>3. ASSUME NEW r \in Requests, Cancel(r) PROVE VersionMoves(u) /\ reported \subseteq reported'
  BY <1>3 DEF Cancel
<1>4. ASSUME NEW r \in Requests, Accept(r) PROVE VersionMoves(u) /\ reported \subseteq reported'
  BY <1>4 DEF Accept
<1>5. ASSUME NEW r \in Requests, Reject(r) PROVE VersionMoves(u) /\ reported \subseteq reported'
  BY <1>5 DEF Reject, ReadCandidate, WriteRejected
<1>6. ASSUME NEW r \in Requests, Expire(r) PROVE VersionMoves(u) /\ reported \subseteq reported'
  BY <1>6 DEF Expire
<1>7. ASSUME NEW p \in Requests, NEW r \in Requests, Retry(p,
     r) PROVE VersionMoves(u) /\ reported \subseteq reported'
  BY <1>7 DEF Retry, Enqueue
<1>8. ASSUME NEW v \in Versions, Upload(v) PROVE VersionMoves(u) /\ reported \subseteq reported'
  BY <1>8 DEF Upload
<1>9. ASSUME NEW v \in Versions, Check(v) PROVE VersionMoves(u) /\ reported \subseteq reported'
  BY <1>9 DEF Check
<1>10. ASSUME NEW v \in Versions, Checked(v) PROVE VersionMoves(u) /\ reported \subseteq reported'
  BY <1>10 DEF Checked, Report, ReportAgain
<1>11. ASSUME NEW v \in Versions, Submit(v) PROVE VersionMoves(u) /\ reported \subseteq reported'
  BY <1>11 DEF Submit
<1>12. ASSUME NEW v \in Versions, Review(v) PROVE VersionMoves(u) /\ reported \subseteq reported'
  <2>1. PICK d \in Decisions : vstatus[v] = d[1] /\ vstatus' = [vstatus EXCEPT ![v] = d[2]]
    BY <1>12 DEF Review
  <2>2. d = <<d[1], d[2]>>
    BY DEF Decisions
  <2>3. u = v => <<vstatus[u], vstatus'[u]>> = d
    BY <2>1, <2>2
  <2>4. u # v => vstatus'[u] = vstatus[u]
    BY <2>1
  <2>5. QED
    BY <1>12, <2>3, <2>4 DEF Review
<1>13. ASSUME NEW w \in Workers, FindStale(w) PROVE VersionMoves(u) /\ reported \subseteq reported'
  BY <1>13 DEF FindStale
<1>14. ASSUME NEW w \in Workers,
     RecoverStale(w) PROVE VersionMoves(u) /\ reported \subseteq reported'
  BY <1>14 DEF RecoverStale
<1>15. ASSUME NEW w \in Workers, Claim(w) PROVE VersionMoves(u) /\ reported \subseteq reported'
  BY <1>15 DEF Claim
<1>16. ASSUME NEW w \in Workers, Crash(w) PROVE VersionMoves(u) /\ reported \subseteq reported'
  BY <1>16 DEF Crash
<1>17. ASSUME NEW w \in Workers, Restart(w) PROVE VersionMoves(u) /\ reported \subseteq reported'
  BY <1>17 DEF Restart
<1>18. ASSUME NEW w \in Workers, NEW r \in Requests, Return(w,
     r) PROVE VersionMoves(u) /\ reported \subseteq reported'
  BY <1>18 DEF Return
<1>19. ASSUME NEW w \in Workers, NEW r \in Requests, Convert(w,
     r) PROVE VersionMoves(u) /\ reported \subseteq reported'
  BY <1>19 DEF Convert, FailFor
<1>20. ASSUME NEW w \in Workers, NEW r \in Requests, Store(w,
     r) PROVE VersionMoves(u) /\ reported \subseteq reported'
  BY <1>20 DEF Store
<1>21. ASSUME NEW w \in Workers, NEW r \in Requests, Validate(w,
     r) PROVE VersionMoves(u) /\ reported \subseteq reported'
  BY <1>21 DEF Validate, FailFor
<1>22. ASSUME NEW w \in Workers, NEW r \in Requests, ReportCandidate(w,
     r) PROVE VersionMoves(u) /\ reported \subseteq reported'
  BY <1>22 DEF ReportCandidate, Report, ReportAgain
<1>23. ASSUME NEW w \in Workers, NEW r \in Requests, Finish(w,
     r) PROVE VersionMoves(u) /\ reported \subseteq reported'
  BY <1>23 DEF Finish, MayFinish
<1>24. ASSUME NEW w \in Workers, NEW r \in Requests, ReadFailed(w,
     r) PROVE VersionMoves(u) /\ reported \subseteq reported'
  BY <1>24 DEF ReadFailed
<1>25. ASSUME NEW w \in Workers, NEW r \in Requests, WriteFailed(w,
     r) PROVE VersionMoves(u) /\ reported \subseteq reported'
  BY <1>25 DEF WriteFailed
<1>26. QED
  BY <1>1, <1>2, <1>3, <1>4, <1>5, <1>6, <1>7, <1>8, <1>9, <1>10, <1>11, <1>12, <1>13, <1>14,
     <1>15, <1>16, <1>17, <1>18, <1>19, <1>20, <1>21, <1>22, <1>23, <1>24, <1>25 DEF Next,
     Loop, Work


\* The mark of a source waits for the user again, or the user accepts a request.
MethodMoves(v) ==
    \/ method'[v] \in {method[v], "pending"}
    \/ vstatus[v] = "absent"
    \/ \E p \in Requests :
          /\ candidate[p] = v /\ candidate'[p] = v
          /\ status[p] = "succeeded" /\ status'[p] = "accepted"

LEMMA MethodMovesStep ==
    ASSUME TypeOK, [Next]_vars, NEW u \in Versions
    PROVE  MethodMoves(u)
<1>0. /\ method \in [Versions -> {"none", "manual", "pending", "accepted"}]
      /\ status \in [Requests -> Statuses]
  BY DEF TypeOK
<1> USE <1>0 DEF MethodMoves, Goto, requests, versions, workers, counters
<1>1. CASE UNCHANGED vars
  BY <1>1 DEF vars
<1>2. ASSUME NEW r \in Requests, Create(r) PROVE MethodMoves(u)
  BY <1>2 DEF Create, Enqueue
<1>3. ASSUME NEW r \in Requests, Cancel(r) PROVE MethodMoves(u)
  BY <1>3 DEF Cancel
<1>4. ASSUME NEW r \in Requests, Accept(r) PROVE MethodMoves(u)
  BY <1>4 DEF Accept
<1>5. ASSUME NEW r \in Requests, Reject(r) PROVE MethodMoves(u)
  BY <1>5 DEF Reject, ReadCandidate, WriteRejected
<1>6. ASSUME NEW r \in Requests, Expire(r) PROVE MethodMoves(u)
  BY <1>6 DEF Expire
<1>7. ASSUME NEW p \in Requests, NEW r \in Requests, Retry(p, r) PROVE MethodMoves(u)
  BY <1>7 DEF Retry, Enqueue
<1>8. ASSUME NEW v \in Versions, Upload(v) PROVE MethodMoves(u)
  BY <1>8 DEF Upload
<1>9. ASSUME NEW v \in Versions, Check(v) PROVE MethodMoves(u)
  BY <1>9 DEF Check
<1>10. ASSUME NEW v \in Versions, Checked(v) PROVE MethodMoves(u)
  BY <1>10 DEF Checked, Report, ReportAgain
<1>11. ASSUME NEW v \in Versions, Submit(v) PROVE MethodMoves(u)
  BY <1>11 DEF Submit
<1>12. ASSUME NEW v \in Versions, Review(v) PROVE MethodMoves(u)
  BY <1>12 DEF Review
<1>13. ASSUME NEW w \in Workers, FindStale(w) PROVE MethodMoves(u)
  BY <1>13 DEF FindStale
<1>14. ASSUME NEW w \in Workers, RecoverStale(w) PROVE MethodMoves(u)
  BY <1>14 DEF RecoverStale
<1>15. ASSUME NEW w \in Workers, Claim(w) PROVE MethodMoves(u)
  BY <1>15 DEF Claim
<1>16. ASSUME NEW w \in Workers, Crash(w) PROVE MethodMoves(u)
  BY <1>16 DEF Crash
<1>17. ASSUME NEW w \in Workers, Restart(w) PROVE MethodMoves(u)
  BY <1>17 DEF Restart
<1>18. ASSUME NEW w \in Workers, NEW r \in Requests, Return(w, r) PROVE MethodMoves(u)
  BY <1>18 DEF Return
<1>19. ASSUME NEW w \in Workers, NEW r \in Requests, Convert(w, r) PROVE MethodMoves(u)
  BY <1>19 DEF Convert, FailFor
<1>20. ASSUME NEW w \in Workers, NEW r \in Requests, Store(w, r) PROVE MethodMoves(u)
  BY <1>20 DEF Store
<1>21. ASSUME NEW w \in Workers, NEW r \in Requests, Validate(w, r) PROVE MethodMoves(u)
  BY <1>21 DEF Validate, FailFor
<1>22. ASSUME NEW w \in Workers, NEW r \in Requests, ReportCandidate(w, r) PROVE MethodMoves(u)
  BY <1>22 DEF ReportCandidate, Report, ReportAgain
<1>23. ASSUME NEW w \in Workers, NEW r \in Requests, Finish(w, r) PROVE MethodMoves(u)
  BY <1>23 DEF Finish, MayFinish
<1>24. ASSUME NEW w \in Workers, NEW r \in Requests, ReadFailed(w, r) PROVE MethodMoves(u)
  BY <1>24 DEF ReadFailed
<1>25. ASSUME NEW w \in Workers, NEW r \in Requests, WriteFailed(w, r) PROVE MethodMoves(u)
  BY <1>25 DEF WriteFailed
<1>26. QED
  BY <1>1, <1>2, <1>3, <1>4, <1>5, <1>6, <1>7, <1>8, <1>9, <1>10, <1>11, <1>12, <1>13, <1>14,
     <1>15, <1>16, <1>17, <1>18, <1>19, <1>20, <1>21, <1>22, <1>23, <1>24, <1>25 DEF Next,
     Loop, Work

\* Where a thread has stored a candidate, and where it has found it open.
Stored == {"validate", "report", "finish"}
Shown == {"report", "finish"}

\* How a request comes to its candidate and to its end.
RequestMoves(r) ==
    /\ status'[r] \in Settled => status[r] \in Settled \/ \E w \in Workers : at[w][r] = "finish"
    /\ candidate'[r] = candidate[r] \/ \E w \in Workers : Store(w, r)
    /\ \A w \in Workers : at'[w][r] \in Stored => at[w][r] \in Stored \/ Store(w, r)
    /\ \A w \in Workers : at'[w][r] \in Shown =>
          \/ at[w][r] \in Shown
          \/ vstatus[candidate[r]] \in Open /\ UNCHANGED <<vstatus, candidate>>

LEMMA RequestMovesStep ==
    ASSUME TypeOK, WellPlaced, [Next]_vars, NEW q \in Requests
    PROVE  RequestMoves(q)
<1>0. /\ status \in [Requests -> Statuses] /\ at \in [Workers -> [Requests -> Places]]
      /\ candidate \in [Requests -> Versions \cup {None}]
      /\ found \in [Workers -> [Requests -> {"kept", "queued", "provider_failed"}]]
      /\ \A w \in Workers, r \in Requests :
            at[w][r] = "write failed" => verdict[w][r] \in Failures \cup {"queued"}
  BY DEF TypeOK, WellPlaced, HasReason
<1> USE <1>0 DEF RequestMoves, Goto, Stored, Shown, Settled, Failures, requests, versions, workers,
     counters
<1>1. CASE UNCHANGED vars
  BY <1>1 DEF vars
<1>2. ASSUME NEW r \in Requests, Create(r) PROVE RequestMoves(q)
  BY <1>2 DEF Create, Enqueue
<1>3. ASSUME NEW r \in Requests, Cancel(r) PROVE RequestMoves(q)
  BY <1>3 DEF Cancel
<1>4. ASSUME NEW r \in Requests, Accept(r) PROVE RequestMoves(q)
  BY <1>4 DEF Accept
<1>5. ASSUME NEW r \in Requests, Reject(r) PROVE RequestMoves(q)
  BY <1>5 DEF Reject, ReadCandidate, WriteRejected
<1>6. ASSUME NEW r \in Requests, Expire(r) PROVE RequestMoves(q)
  BY <1>6 DEF Expire
<1>7. ASSUME NEW p \in Requests, NEW r \in Requests, Retry(p, r) PROVE RequestMoves(q)
  BY <1>7 DEF Retry, Enqueue
<1>8. ASSUME NEW v \in Versions, Upload(v) PROVE RequestMoves(q)
  BY <1>8 DEF Upload
<1>9. ASSUME NEW v \in Versions, Check(v) PROVE RequestMoves(q)
  BY <1>9 DEF Check
<1>10. ASSUME NEW v \in Versions, Checked(v) PROVE RequestMoves(q)
  BY <1>10 DEF Checked, Report, ReportAgain
<1>11. ASSUME NEW v \in Versions, Submit(v) PROVE RequestMoves(q)
  BY <1>11 DEF Submit
<1>12. ASSUME NEW v \in Versions, Review(v) PROVE RequestMoves(q)
  BY <1>12 DEF Review
<1>13. ASSUME NEW w \in Workers, FindStale(w) PROVE RequestMoves(q)
  BY <1>13 DEF FindStale
<1>14. ASSUME NEW w \in Workers, RecoverStale(w) PROVE RequestMoves(q)
  BY <1>14 DEF RecoverStale
<1>15. ASSUME NEW w \in Workers, Claim(w) PROVE RequestMoves(q)
  <2>1. PICK taken \in SUBSET Requests :
           /\ status' = [p \in Requests |-> IF p \in taken THEN "processing" ELSE status[p]]
           /\ at' = [at EXCEPT ![w] = [p \in Requests |->
                                          IF p \in taken THEN "load" ELSE "idle"]]
    BY <1>15 DEF Claim
  <2>2. UNCHANGED candidate
    BY <1>15 DEF Claim
  <2>3. \A x \in Workers : at'[x][q] \in {at[x][q], "load", "idle"}
    BY <2>1
  <2>4. QED
    BY <2>1, <2>2, <2>3
<1>16. ASSUME NEW w \in Workers, Crash(w) PROVE RequestMoves(q)
  BY <1>16 DEF Crash
<1>17. ASSUME NEW w \in Workers, Restart(w) PROVE RequestMoves(q)
  BY <1>17 DEF Restart
<1>18. ASSUME NEW w \in Workers, NEW r \in Requests, Return(w, r) PROVE RequestMoves(q)
  BY <1>18 DEF Return
<1>19. ASSUME NEW w \in Workers, NEW r \in Requests, Convert(w, r) PROVE RequestMoves(q)
  <2>1. UNCHANGED <<status, candidate>>
    BY <1>19 DEF Convert
  <2>2. PICK place \in {"store", "read failed"} : at' = [at EXCEPT ![w][r] = place]
    BY <1>19 DEF Convert, FailFor
  <2>3. \A x \in Workers : at'[x][q] \in {at[x][q], "store", "read failed"}
    BY <2>2
  <2>4. QED
    BY <2>1, <2>3
<1>20. ASSUME NEW w \in Workers, NEW r \in Requests, Store(w, r) PROVE RequestMoves(q)
  BY <1>20 DEF Store
<1>21. ASSUME NEW w \in Workers, NEW r \in Requests, Validate(w, r) PROVE RequestMoves(q)
  <2>1. UNCHANGED <<status, candidate, vstatus>> /\ at[w][r] = "validate"
    BY <1>21 DEF Validate
  <2>2. PICK place \in {"report", "read failed"} :
           /\ at' = [at EXCEPT ![w][r] = place]
           /\ place = "report" => vstatus[candidate[r]] \in Open
    BY <1>21 DEF Validate, FailFor
  <2>3. \A x \in Workers :
           at'[x][q] = at[x][q] \/ (x = w /\ q = r /\ at'[x][q] = place)
    BY ONLY <1>0, <2>2
  <2>4. QED
    BY <2>1, <2>2, <2>3
<1>22. ASSUME NEW w \in Workers, NEW r \in Requests, ReportCandidate(w, r) PROVE RequestMoves(q)
  BY <1>22 DEF ReportCandidate, Report, ReportAgain
<1>23. ASSUME NEW w \in Workers, NEW r \in Requests, Finish(w, r) PROVE RequestMoves(q)
  BY <1>23 DEF Finish, MayFinish
<1>24. ASSUME NEW w \in Workers, NEW r \in Requests, ReadFailed(w, r) PROVE RequestMoves(q)
  BY <1>24 DEF ReadFailed
<1>25. ASSUME NEW w \in Workers, NEW r \in Requests, WriteFailed(w, r) PROVE RequestMoves(q)
  BY <1>25 DEF WriteFailed
<1>26. QED
  BY <1>1, <1>2, <1>3, <1>4, <1>5, <1>6, <1>7, <1>8, <1>9, <1>10, <1>11, <1>12, <1>13, <1>14,
     <1>15, <1>16, <1>17, <1>18, <1>19, <1>20, <1>21, <1>22, <1>23, <1>24, <1>25 DEF Next,
     Loop, Work


\* Another request has been accepted with the same candidate.
Another(r, v) == \E p \in Requests : p # r /\ status[p] = "accepted" /\ candidate[p] = v

\* A candidate waits for the user: its source is marked until a request that
\* produced it is accepted, and then no second one can take it from the reviewers.
Waiting(r, v) ==
    candidate[r] = v =>
        /\ vstatus[v] # "absent"
        /\ status[r] \in Settled \/ (\E w \in Workers : at[w][r] \in Stored) =>
              method[v] = "pending" \/ Another(r, v)
        /\ /\ vstatus[v] \in Reviewing
           /\ status[r] \in Settled \/ \E w \in Workers : at[w][r] \in Shown
           => Another(r, v)

\* Whatever is reviewed has a report.
Filed(v) == vstatus[v] \in Reviewing => v \in reported

ReviewInv ==
    /\ \A w \in Workers, r \in Requests : Working(w, r)
    /\ \A r \in Requests, v \in Versions : Waiting(r, v)
    /\ \A v \in Versions : Filed(v)

LEMMA AnotherStays ==
    ASSUME OneWorker, TypeOK, WellPlaced, Recovery, [Next]_vars, NEW r \in Requests, NEW v,
           Another(r, v)
    PROVE  \E p \in Requests : p # r /\ status'[p] = "accepted" /\ candidate'[p] = v
<1>1. PICK p \in Requests : p # r /\ status[p] = "accepted" /\ candidate[p] = v
  BY DEF Another
<1>2. status'[p] = "accepted" /\ candidate'[p] = candidate[p]
  BY <1>1, AcceptedStays
<1>3. QED
  BY <1>1, <1>2

LEMMA FiledStep ==
    ASSUME TypeOK, [Next]_vars, NEW v \in Versions, Filed(v)
    PROVE  Filed(v)'
<1>1. VersionMoves(v) /\ reported \subseteq reported'
  BY VersionMovesStep
<1>2. ASSUME vstatus'[v] \in Reviewing PROVE vstatus[v] \in Reviewing \/ v \in reported
  BY <1>1, <1>2 DEF VersionMoves, Submit, Decisions, Reviewing, Open
<1>3. QED
  BY <1>1, <1>2 DEF Filed

(* The thread that stores a candidate marks its source first. *)
LEMMA JustStored ==
    ASSUME OneWorker, TypeOK, NEW w \in Workers, NEW r \in Requests, Store(w, r),
           NEW v \in Versions, candidate'[r] = v
    PROVE  /\ vstatus'[v] # "absent" /\ method'[v] = "pending"
           /\ status'[r] \notin Settled /\ \A x \in Workers : at'[x][r] \notin Shown
<1>1. candidate \in [Requests -> Versions \cup {None}] /\ at \in [Workers -> [Requests -> Places]]
  BY DEF TypeOK
<1>2. v = Output[Identity[r]]
  BY <1>1 DEF Store
<1>3. vstatus'[v] # "absent" /\ method'[v] = "pending"
  BY <1>2 DEF Store, TypeOK
<1>4. status'[r] \notin Settled
  BY DEF Store, Settled
<1>5. at'[w][r] = "validate" /\ \A x \in Workers : x = w
  BY <1>1 DEF Store, Goto, OneWorker
<1>6. QED
  BY <1>3, <1>4, <1>5 DEF Shown

LEMMA WaitingStep ==
    ASSUME OneWorker, TypeOK, WellPlaced, Recovery, ReviewInv, [Next]_vars,
           NEW r \in Requests, NEW v \in Versions
    PROVE  Waiting(r, v)'
<1>1. CASE \E w \in Workers : Store(w, r)
  BY <1>1, JustStored DEF Waiting
<1>2. CASE ~\E w \in Workers : Store(w, r)
  <2> SUFFICES ASSUME candidate'[r] = v
               PROVE  /\ vstatus'[v] # "absent"
                      /\ status'[r] \in Settled \/ (\E w \in Workers : at'[w][r] \in Stored) =>
                            method'[v] = "pending" \/ Another(r, v)'
                      /\ /\ vstatus'[v] \in Reviewing
                         /\ status'[r] \in Settled \/ \E w \in Workers : at'[w][r] \in Shown
                         => Another(r, v)'
    BY DEF Waiting
  <2>1. RequestMoves(r) /\ VersionMoves(v) /\ MethodMoves(v)
    BY RequestMovesStep, VersionMovesStep, MethodMovesStep
  <2>2. candidate[r] = v
    BY <1>2, <2>1 DEF RequestMoves
  <2>3. vstatus[v] # "absent" /\ Waiting(r, v)
    BY <2>2 DEF ReviewInv, Waiting
  <2>4. Another(r, v) => Another(r, v)'
    BY AnotherStays DEF Another
  <2>5. vstatus'[v] # "absent"
    BY <2>1, <2>3 DEF VersionMoves, Open, Decisions
  <2>6. ASSUME status'[r] \in Settled \/ \E w \in Workers : at'[w][r] \in Stored
        PROVE  method'[v] = "pending" \/ Another(r, v)'
    <3>1. status[r] \in Settled \/ \E w \in Workers : at[w][r] \in Stored
      BY <1>2, <2>1, <2>6 DEF RequestMoves, Stored
    <3>2. method[v] = "pending" \/ Another(r, v)
      BY <2>2, <2>3, <3>1 DEF Waiting
    <3>3. ASSUME NEW p \in Requests, candidate'[p] = v,
                 status[p] = "succeeded", status'[p] = "accepted"
          PROVE  Another(r, v)'
      <4>1. p # r
        <5>1. SUFFICES ASSUME p = r PROVE FALSE
          OBVIOUS
        <5>2. PICK w \in Workers : at'[w][r] \in Stored
          BY <2>6, <3>3, <5>1 DEF Settled
        <5>3. at[w][r] \in Stored
          BY <1>2, <2>1, <5>2 DEF RequestMoves
        <5>4. QED
          BY <3>3, <5>1, <5>3 DEF ReviewInv, Working, Stored
      <4>2. QED
        BY <3>3, <4>1 DEF Another
    <3>4. QED
      BY <2>1, <2>3, <2>4, <3>2, <3>3 DEF MethodMoves
  <2>7. ASSUME vstatus'[v] \in Reviewing,
               status'[r] \in Settled \/ \E w \in Workers : at'[w][r] \in Shown
        PROVE  Another(r, v)'
    <3>1. status[r] \in Settled \/ \E w \in Workers : at[w][r] \in Shown
      <4>1. ~(vstatus[candidate[r]] \in Open /\ UNCHANGED <<vstatus, candidate>>)
        BY <2>2, <2>7 DEF Open, Reviewing
      <4>2. QED
        BY <2>1, <2>7, <4>1 DEF RequestMoves, Shown
    <3>2. CASE vstatus[v] \in Reviewing
      BY <2>2, <2>3, <2>4, <3>1, <3>2 DEF Waiting
    <3>3. CASE vstatus[v] \notin Reviewing
      <4>1. Submit(v)
        BY <2>1, <2>7, <3>3 DEF VersionMoves, Open, Reviewing, Decisions
      <4>2. method[v] # "pending"
        BY <4>1 DEF Submit, MaySubmit
      <4>3. Another(r, v)
        BY <2>2, <2>3, <3>1, <4>2 DEF Waiting, Shown, Stored
      <4>4. QED
        BY <2>4, <4>3
    <3>4. QED
      BY <3>2, <3>3
  <2>8. QED
    BY <2>5, <2>6, <2>7
<1>3. QED
  BY <1>1, <1>2

\* The step that ReviewUndisturbed speaks of.
ReviewGoesOn ==
    \A v \in Versions : vstatus[v] \in {"submitted", "under_review"} =>
        \/ vstatus'[v] = vstatus[v] \/ <<vstatus[v], vstatus'[v]>> \in Decisions
        \/ \E p, r \in Requests :
              /\ p # r /\ candidate[p] = v /\ candidate[r] = v
              /\ status[p] = "accepted" /\ status[r] # "rejected"
              /\ status'[r] = "rejected" /\ vstatus'[v] = "archived"

LEMMA ReviewStep ==
    ASSUME TypeOK, ReviewInv, [Next]_vars PROVE ReviewGoesOn
<1> SUFFICES ASSUME NEW v \in Versions, vstatus[v] \in Reviewing
             PROVE  \/ vstatus'[v] = vstatus[v] \/ <<vstatus[v], vstatus'[v]>> \in Decisions
                    \/ \E p, r \in Requests :
                          /\ p # r /\ candidate[p] = v /\ candidate[r] = v
                          /\ status[p] = "accepted" /\ status[r] # "rejected"
                          /\ status'[r] = "rejected" /\ vstatus'[v] = "archived"
  BY DEF ReviewGoesOn, Reviewing
<1>1. VersionMoves(v) /\ v \in reported
  BY VersionMovesStep DEF ReviewInv, Filed
<1>2. ~Submit(v) /\ vstatus[v] # "absent"
  BY DEF Submit, MaySubmit, Reviewing
<1>3. ASSUME NEW r \in Requests, Reject(r), candidate[r] = v, vstatus'[v] = "archived"
      PROVE  /\ status[r] \in Settled /\ status'[r] = "rejected"
             /\ \E p \in Requests : p # r /\ status[p] = "accepted" /\ candidate[p] = v
  <2>1. status[r] \in Settled /\ status'[r] = "rejected"
    BY <1>3 DEF Reject, ReadCandidate, WriteRejected, Settled, Reviewing, TypeOK
  <2>2. Another(r, v)
    BY <1>3, <2>1 DEF ReviewInv, Waiting
  <2>3. QED
    BY <2>1, <2>2 DEF Another
<1>4. QED
  BY <1>1, <1>2, <1>3 DEF VersionMoves, Settled

\* With one worker a submitted version stays with the reviewers, whatever is
\* validated late, converted again or retried: a user who rejects a conversion
\* takes it back only where another with the same result was accepted.
THEOREM ReviewKept == OneWorker => (Spec => ReviewUndisturbed)
<1> SUFFICES ASSUME OneWorker PROVE Spec => ReviewUndisturbed
  OBVIOUS
<1>1. Init => ReviewInv
  BY PineAssumption DEF Init, ReviewInv, Working, Waiting, Filed, Reviewing
<1>2. TypeOK /\ WellPlaced /\ Recovery /\ ReviewInv /\ [Next]_vars => ReviewInv'
  <2> SUFFICES ASSUME TypeOK, WellPlaced, Recovery, ReviewInv, [Next]_vars PROVE ReviewInv'
    OBVIOUS
  <2>1. \A w \in Workers, r \in Requests : Working(w, r)'
    BY WorkingStep DEF ReviewInv
  <2>2. \A r \in Requests, v \in Versions : Waiting(r, v)'
    BY WaitingStep
  <2>3. \A v \in Versions : Filed(v)'
    BY FiledStep DEF ReviewInv
  <2>4. QED
    BY <2>1, <2>2, <2>3 DEF ReviewInv
<1>3. TypeOK /\ ReviewInv /\ [Next]_vars => [ReviewGoesOn]_vars
  BY ReviewStep
<1>4. Spec => [][ReviewGoesOn]_vars
  BY Recovers, <1>1, <1>2, <1>3, PTL DEF Spec
<1>5. QED
  BY <1>4 DEF ReviewUndisturbed, ReviewGoesOn

=============================================================================
