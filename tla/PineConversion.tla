--------------------------- MODULE PineConversion ---------------------------
(***************************************************************************)
(* The opt-in AI conversion of a user's Pine source: the durable requests  *)
(* of pine_conversion_service, the workers of pine_conversion_worker that  *)
(* claim and convert them, and the candidate versions of                   *)
(* personal_pine_service that a user accepts and submits for review.       *)
(*                                                                         *)
(* One transaction is one step, except that a transaction that reads a row *)
(* without locking it and writes it later is a read and a write: _fail,    *)
(* recover_stale_requests, and reject for the version.  Sources, prompts   *)
(* and reports are left out; what the provider would answer to a request   *)
(* is a constant.                                                          *)
(***************************************************************************)
EXTENDS Naturals, FiniteSets

CONSTANTS
    Requests,       \* rows of pine_conversion_requests, used or not yet
    Users, Owner,   \* the owner of a request
    Identities,     \* sources with their options ...
    Identity,       \* ... and the one a request is for
    Versions,       \* strategy versions
    Output,         \* the version that holds the source converted for an identity
    Eligible,       \* the versions static validation finds eligible for review
    Uploads,        \* the versions the user uploads by hand
    Workers,        \* processes that run the worker loop
    MaxAttempts,    \* max_attempts: claims of one request
    GlobalLimit,    \* PINE_CONVERSION_GLOBAL_CONCURRENCY
    UserLimit,      \* PINE_CONVERSION_MAX_CONCURRENT_PER_USER
    MaxFailures,    \* bound: failed answers of the provider, refused inputs
    MaxCancels,     \* bound: requests canceled
    MaxCrashes,     \* bound: workers killed
    None

Active == {"queued", "processing"}
Ended == {"succeeded", "validation_failed", "provider_failed", "rejected_secret_detected",
          "canceled", "rejected", "accepted"}
Failures == {"provider_failed", "rejected_secret_detected"}

\* Versions that can still be validated.
Open == {"draft", "validation_failed", "ready_for_review"}
InReview == {"submitted", "under_review", "approved"}
Places == {"idle", "load", "store", "validate", "report", "finish", "read failed",
           "write failed"}

\* What process_claim calls _fail with: "retry" stands for retryable=True.
Reasons == Failures \cup {"retry"}

ASSUME PineAssumption ==
    /\ IsFiniteSet(Requests) /\ IsFiniteSet(Workers)
    /\ Owner \in [Requests -> Users] /\ Identity \in [Requests -> Identities]
    /\ Output \in [Identities -> Versions] /\ Eligible \subseteq Versions /\ Uploads \subseteq Versions
    /\ MaxAttempts \in Nat \ {0} /\ GlobalLimit \in Nat \ {0} /\ UserLimit \in Nat \ {0}
    /\ MaxFailures \in Nat /\ MaxCancels \in Nat /\ MaxCrashes \in Nat
    /\ None \notin Versions

VARIABLES
    status,     \* of a request; "absent" before it is created
    tries,      \* worker_attempts
    candidate,  \* candidate_version_id
    expired,    \* locked_at is older than PINE_CONVERSION_STALE_SECONDS
    vstatus,    \* status of a version; "absent" before it is created
    method,     \* conversion_method of its source artifact
    reported,   \* the versions that have a validation report
    checking,   \* the versions a user is validating
    rejecting,  \* the requests being rejected whose candidate will be archived
    loop,       \* of a worker: "down", "start", "recover" or "run"
    found,      \* what a starting worker will write to a request; "kept" if nothing
    at,         \* where the thread of a worker is that converts a request
    verdict,    \* the reason that thread fails for, then the status it writes
    failures, cancels, crashes

requests == <<status, tries, candidate, expired>>
versions == <<vstatus, method, reported, checking, rejecting>>
workers == <<loop, found, at, verdict>>
counters == <<failures, cancels, crashes>>
vars == <<requests, versions, workers, counters>>

NothingFound == [r \in Requests |-> "kept"]

Init ==
    /\ status = [r \in Requests |-> "absent"]
    /\ tries = [r \in Requests |-> 0]
    /\ candidate = [r \in Requests |-> None]
    /\ expired = [r \in Requests |-> FALSE]
    /\ vstatus = [v \in Versions |-> "absent"]
    /\ method = [v \in Versions |-> "none"]
    /\ reported = {} /\ checking = {} /\ rejecting = {}
    /\ loop = [w \in Workers |-> "start"]
    /\ found = [w \in Workers |-> NothingFound]
    /\ at = [w \in Workers |-> [r \in Requests |-> "idle"]]
    /\ verdict = [w \in Workers |-> [r \in Requests |-> "queued"]]
    /\ failures = 0 /\ cancels = 0 /\ crashes = 0

-----------------------------------------------------------------------------
(* Requests of the user, each under a lock on the row of the user or of the *)
(* request.                                                                 *)

ActiveOf(u) == {r \in Requests : Owner[r] = u /\ status[r] \in Active}

UnderLimit(u) == Cardinality(ActiveOf(u)) < UserLimit

Enqueue(r) ==
    /\ status[r] = "absent"
    /\ status' = [status EXCEPT ![r] = "queued"]
    /\ UNCHANGED <<tries, candidate, expired, versions, workers, counters>>

\* create_request.  A row of the same identity is either returned again or, if
\* it has failed or was canceled or rejected, makes the insertion of another
\* first attempt fail.
Create(r) ==
    /\ \A q \in Requests : Identity[q] = Identity[r] => status[q] = "absent"
    /\ UnderLimit(Owner[r])
    /\ Enqueue(r)

\* retry: a new row for the identity of a failed or canceled one.
Retry(p, r) ==
    /\ status[p] \in {"provider_failed", "canceled"}
    /\ Identity[p] = Identity[r] /\ Owner[p] = Owner[r]
    /\ ActiveOf(Owner[r]) = {}
    /\ Enqueue(r)

Cancel(r) ==
    /\ cancels < MaxCancels
    /\ status[r] \in Active
    /\ status' = [status EXCEPT ![r] = "canceled"]
    /\ cancels' = cancels + 1
    /\ UNCHANGED <<tries, candidate, expired, versions, workers, failures, crashes>>

Accept(r) ==
    /\ status[r] = "succeeded" /\ candidate[r] # None /\ r \notin rejecting
    /\ status' = [status EXCEPT ![r] = "accepted"]
    /\ method' = [method EXCEPT ![candidate[r]] = "accepted"]
    /\ UNCHANGED <<tries, candidate, expired, vstatus, reported, checking, rejecting, workers,
                   counters>>

\* reject reads the candidate without a lock, to archive it unless it is
\* approved already ...
ReadCandidate(r) ==
    /\ vstatus[candidate[r]] # "approved"
    /\ rejecting' = rejecting \cup {r}
    /\ UNCHANGED <<requests, vstatus, method, reported, checking, workers, counters>>

\* ... and archives it whatever has become of it.
WriteRejected(r) ==
    /\ status' = [status EXCEPT ![r] = "rejected"]
    /\ \/ /\ r \in rejecting
          /\ vstatus' = [vstatus EXCEPT ![candidate[r]] = "archived"]
       \/ /\ r \notin rejecting /\ vstatus[candidate[r]] = "approved"
          /\ UNCHANGED vstatus
    /\ rejecting' = rejecting \ {r}
    /\ UNCHANGED <<tries, candidate, expired, method, reported, checking, workers, counters>>

Reject(r) ==
    /\ status[r] \in {"succeeded", "validation_failed"}
    /\ \/ r \notin rejecting /\ ReadCandidate(r)
       \/ WriteRejected(r)

-----------------------------------------------------------------------------
(* The version side of personal_pine_service.                              *)

\* create_version: the digest of a source names its version.
Upload(v) ==
    /\ v \in Uploads /\ vstatus[v] = "absent"
    /\ vstatus' = [vstatus EXCEPT ![v] = "draft"]
    /\ method' = [method EXCEPT ![v] = "manual"]
    /\ UNCHANGED <<requests, reported, checking, rejecting, workers, counters>>

ReportAgain(v) ==                                                   \* mutant
    /\ reported' = reported \cup {v}
    /\ vstatus' = [vstatus EXCEPT ![v] = IF v \in Eligible THEN "ready_for_review"
                                                           ELSE "validation_failed"]

\* The second transaction of validate_version: it does not look at the status
\* again, but a report on the same source is never replaced.
Report(v) ==
    \/ v \in reported /\ UNCHANGED <<reported, vstatus>>
    \/ v \notin reported /\ ReportAgain(v)

\* validate_version, called by the user.
Check(v) ==
    /\ v \notin checking /\ vstatus[v] \in Open
    /\ checking' = checking \cup {v}
    /\ UNCHANGED <<requests, vstatus, method, reported, rejecting, workers, counters>>

Checked(v) ==
    /\ v \in checking
    /\ checking' = checking \ {v}
    /\ Report(v)
    /\ UNCHANGED <<requests, method, rejecting, workers, counters>>

MayAlwaysSubmit(v) == vstatus[v] = "ready_for_review"               \* mutant
MaySubmit(v) == vstatus[v] = "ready_for_review" /\ method[v] # "pending"

\* submit_version.
Submit(v) ==
    /\ MaySubmit(v) /\ v \in reported /\ v \in Eligible
    /\ vstatus' = [vstatus EXCEPT ![v] = "submitted"]
    /\ UNCHANGED <<requests, method, reported, checking, rejecting, workers, counters>>

Decisions ==
    {<<"submitted", "under_review">>} \cup
    ({"under_review"} \X {"approved", "changes_requested", "rejected"})

\* _review_transition.
Review(v) ==
    /\ \E step \in Decisions :
          vstatus[v] = step[1] /\ vstatus' = [vstatus EXCEPT ![v] = step[2]]
    /\ UNCHANGED <<requests, method, reported, checking, rejecting, workers, counters>>

-----------------------------------------------------------------------------
(* The loop of a worker.                                                   *)

Processing == {r \in Requests : status[r] = "processing"}

Stale == {r \in Processing : expired[r]}

RecoverAlways(r) == "queued"                                        \* mutant
RecoverByCode(r) ==                                                 \* mutant
    IF tries[r] >= MaxAttempts THEN "WORKER_RETRIES_EXHAUSTED" ELSE "queued"
Recovered(r) == IF tries[r] >= MaxAttempts THEN "provider_failed" ELSE "queued"

\* recover_stale_requests, once when the loop starts: the stale rows are read
\* without a lock ...
FindStale(w) ==
    /\ loop[w] = "start"
    /\ loop' = [loop EXCEPT ![w] = "recover"]
    /\ found' = [found EXCEPT ![w] =
                    [r \in Requests |-> IF r \in Stale THEN Recovered(r) ELSE "kept"]]
    /\ UNCHANGED <<requests, versions, at, verdict, counters>>

\* ... and written whatever has become of them.
RecoverStale(w) ==
    /\ loop[w] = "recover" /\ \A r \in rejecting : found[w][r] = "kept"
    /\ loop' = [loop EXCEPT ![w] = "run"]
    /\ found' = [found EXCEPT ![w] = NothingFound]
    /\ status' = [r \in Requests |-> IF found[w][r] = "kept" THEN status[r] ELSE found[w][r]]
    /\ expired' = [r \in Requests |-> expired[r] /\ found[w][r] = "kept"]
    /\ UNCHANGED <<tries, candidate, versions, at, verdict, counters>>

SlotsForAll == GlobalLimit                                          \* mutant
SlotsOfActive == GlobalLimit - Cardinality({r \in Requests : status[r] \in Active})  \* mutant
Slots == GlobalLimit - Cardinality(Processing)

\* _claim, under an advisory lock, when every thread of the last batch is done.
\* Rows locked by others are skipped: some of the queued rows are taken.
Claim(w) ==
    /\ loop[w] = "run" /\ \A r \in Requests : at[w][r] = "idle"
    /\ \E taken \in SUBSET {r \in Requests : status[r] = "queued"} :
          /\ taken # {} /\ Cardinality(taken) <= Slots
          /\ status' = [r \in Requests |-> IF r \in taken THEN "processing" ELSE status[r]]
          /\ tries' = [r \in Requests |-> IF r \in taken THEN tries[r] + 1 ELSE tries[r]]
          /\ expired' = [r \in Requests |-> expired[r] /\ r \notin taken]
          /\ at' = [at EXCEPT ![w] = [r \in Requests |-> IF r \in taken THEN "load" ELSE "idle"]]
    /\ UNCHANGED <<candidate, versions, loop, found, verdict, counters>>

\* The lease of a request runs out.  No thread still works on it: a call of the
\* provider ends after PINE_CONVERSION_TIMEOUT_SECONDS, long before a lease.
Expire(r) ==
    /\ status[r] = "processing" /\ ~expired[r]
    /\ \A w \in Workers : at[w][r] = "idle"
    /\ expired' = [expired EXCEPT ![r] = TRUE]
    /\ UNCHANGED <<status, tries, candidate, versions, workers, counters>>

Crash(w) ==
    /\ crashes < MaxCrashes /\ loop[w] # "down"
    /\ crashes' = crashes + 1
    /\ loop' = [loop EXCEPT ![w] = "down"]
    /\ found' = [found EXCEPT ![w] = NothingFound]
    /\ at' = [at EXCEPT ![w] = [r \in Requests |-> "idle"]]
    /\ UNCHANGED <<requests, versions, verdict, failures, cancels>>

Restart(w) ==
    /\ loop[w] = "down"
    /\ loop' = [loop EXCEPT ![w] = "start"]
    /\ UNCHANGED <<requests, versions, found, at, verdict, counters>>

-----------------------------------------------------------------------------
(* process_claim: the thread of worker w that converts request r.          *)

Goto(w, r, place) == at' = [at EXCEPT ![w][r] = place]

\* Every transaction but the first reads the row under its lock, and a thread
\* whose request is not processing any more returns.
Return(w, r) ==
    /\ at[w][r] \in {"load", "store", "finish", "read failed"}
    /\ status[r] # "processing"
    /\ Goto(w, r, "idle")
    /\ UNCHANGED <<requests, versions, loop, found, verdict, counters>>

FailFor(w, r, reason) ==
    /\ Goto(w, r, "read failed")
    /\ verdict' = [verdict EXCEPT ![w][r] = reason]

\* The call of the provider: its answer may be refused, or none may come.
Convert(w, r) ==
    /\ at[w][r] = "load" /\ status[r] = "processing"
    /\ \/ Goto(w, r, "store") /\ UNCHANGED <<verdict, failures>>
       \/ /\ failures < MaxFailures /\ failures' = failures + 1
          /\ \E reason \in Reasons : FailFor(w, r, reason)
    /\ UNCHANGED <<requests, versions, loop, found, cancels, crashes>>

\* _create_version gives an existing version of the same source.
Store(w, r) ==
    LET v == Output[Identity[r]] IN
    /\ at[w][r] = "store" /\ status[r] = "processing"
    /\ vstatus' = [vstatus EXCEPT ![v] = IF vstatus[v] = "absent" THEN "draft" ELSE vstatus[v]]
    /\ method' = [method EXCEPT ![v] = "pending"]
    /\ candidate' = [candidate EXCEPT ![r] = v]
    /\ Goto(w, r, "validate")
    /\ UNCHANGED <<status, tries, expired, reported, checking, rejecting, loop, found, verdict,
                   counters>>

\* The first transaction of validate_version; a version out of the user's hands
\* raises an error that process_claim takes for a failure of its own.
Validate(w, r) ==
    /\ at[w][r] = "validate"
    /\ \/ /\ vstatus[candidate[r]] \in Open
          /\ Goto(w, r, "report") /\ UNCHANGED verdict
       \/ /\ vstatus[candidate[r]] \notin Open
          /\ FailFor(w, r, "provider_failed")
    /\ UNCHANGED <<requests, versions, loop, found, counters>>

ReportCandidate(w, r) ==
    /\ at[w][r] = "report"
    /\ Report(candidate[r])
    /\ Goto(w, r, "finish")
    /\ UNCHANGED <<requests, method, checking, rejecting, loop, found, verdict, counters>>

FinishAlways(w, r) == at[w][r] = "finish"                           \* mutant
MayFinish(w, r) == at[w][r] = "finish" /\ status[r] = "processing"

Finish(w, r) ==
    /\ MayFinish(w, r)
    /\ status' = [status EXCEPT ![r] = IF candidate[r] \in Eligible THEN "succeeded"
                                                                    ELSE "validation_failed"]
    /\ Goto(w, r, "idle")
    /\ UNCHANGED <<tries, candidate, expired, versions, loop, found, verdict, counters>>

\* _fail: the row is read without a lock ...
ReadFailed(w, r) ==
    /\ at[w][r] = "read failed" /\ status[r] = "processing"
    /\ verdict' = [verdict EXCEPT ![w][r] =
                      CASE @ # "retry" -> @
                        [] @ = "retry" /\ tries[r] < MaxAttempts -> "queued"
                        [] OTHER -> "provider_failed"]
    /\ Goto(w, r, "write failed")
    /\ UNCHANGED <<requests, versions, loop, found, counters>>

\* ... and written whatever has become of it.
WriteFailed(w, r) ==
    /\ at[w][r] = "write failed" /\ r \notin rejecting
    /\ status' = [status EXCEPT ![r] = verdict[w][r]]
    /\ Goto(w, r, "idle")
    /\ UNCHANGED <<tries, candidate, expired, versions, loop, found, verdict, counters>>

Work(w, r) ==
    \/ Return(w, r) \/ Convert(w, r) \/ Store(w, r) \/ Validate(w, r)
    \/ ReportCandidate(w, r) \/ Finish(w, r) \/ ReadFailed(w, r) \/ WriteFailed(w, r)

Loop(w) == FindStale(w) \/ RecoverStale(w) \/ Claim(w)

Next ==
    \/ \E r \in Requests : Create(r) \/ Cancel(r) \/ Accept(r) \/ Reject(r) \/ Expire(r)
    \/ \E p, r \in Requests : Retry(p, r)
    \/ \E v \in Versions : Upload(v) \/ Check(v) \/ Checked(v) \/ Submit(v) \/ Review(v)
    \/ \E w \in Workers : Loop(w) \/ Crash(w) \/ Restart(w)
    \/ \E w \in Workers, r \in Requests : Work(w, r)

Spec == Init /\ [][Next]_vars

\* Workers run, restart after a crash, and leases run out; users do as they like.
FairSpec ==
    /\ Spec
    /\ \A w \in Workers : WF_vars(Loop(w)) /\ WF_vars(Restart(w))
    /\ \A w \in Workers, r \in Requests : WF_vars(Work(w, r))
    /\ \A r \in Requests : WF_vars(Expire(r))

-----------------------------------------------------------------------------
(* Properties.                                                             *)

Statuses == {"absent"} \cup Active \cup Ended
VersionStatuses ==
    {"absent"} \cup Open \cup InReview \cup {"changes_requested", "rejected", "archived"}

\* The types of the variables.
TypeOK ==
    /\ status \in [Requests -> Statuses] /\ tries \in [Requests -> Nat]
    /\ candidate \in [Requests -> Versions \cup {None}] /\ expired \in [Requests -> BOOLEAN]
    /\ vstatus \in [Versions -> VersionStatuses]
    /\ method \in [Versions -> {"none", "manual", "pending", "accepted"}]
    /\ reported \subseteq Versions /\ checking \subseteq Versions /\ rejecting \subseteq Requests
    /\ loop \in [Workers -> {"down", "start", "recover", "run"}]
    /\ found \in [Workers -> [Requests -> {"kept", "queued", "provider_failed"}]]
    /\ at \in [Workers -> [Requests -> Places]]
    /\ verdict \in [Workers -> [Requests -> Reasons \cup Active]]
    /\ failures \in Nat /\ cancels \in Nat /\ crashes \in Nat

\* However many workers run and crash, the requests in the processing state
\* never outnumber PINE_CONVERSION_GLOBAL_CONCURRENCY.
WithinGlobalLimit == Cardinality(Processing) <= GlobalLimit

\* Failures and recoveries put a request back in the queue, but never for more
\* claims than max_attempts.
AttemptsBounded == \A r \in Requests : tries[r] <= MaxAttempts

Choices == {<<"succeeded", "accepted">>, <<"succeeded", "rejected">>,
            <<"validation_failed", "rejected">>}

\* How a request has ended stands until the user accepts or rejects the result:
\* no thread that comes late, before or after a crash, and no recovery takes it
\* back.  Only a cancellation that came between a worker's read and its write
\* is overwritten.
ResultsStay ==
    [][\A r \in Requests : status[r] \in Ended =>
          \/ status'[r] = status[r] \/ <<status[r], status'[r]>> \in Choices
          \/ /\ status[r] = "canceled"
             /\ \E w \in Workers : at[w][r] = "write failed" \/ found[w][r] # "kept"]_vars

\* A version reaches the reviewers only if the user wrote it or has accepted a
\* conversion that produced it, whichever requests share it.
ConsentBeforeReview ==
    [][\A v \in Versions : vstatus[v] # "submitted" /\ vstatus'[v] = "submitted" =>
          \/ method[v] = "manual"
          \/ \E r \in Requests : status[r] = "accepted" /\ candidate[r] = v]_vars

\* A submitted version is moved by the reviewers: no late validation and no
\* other conversion takes it back.  Only the user does, by rejecting a second
\* conversion into the same version beside the one that was accepted (reject
\* archives the candidate whatever its status, unless it is approved).
ReviewUndisturbed ==
    [][\A v \in Versions : vstatus[v] \in {"submitted", "under_review"} =>
          \/ vstatus'[v] = vstatus[v] \/ <<vstatus[v], vstatus'[v]>> \in Decisions
          \/ \E p, r \in Requests :
                /\ p # r /\ candidate[p] = v /\ candidate[r] = v
                /\ status[p] = "accepted" /\ status[r] # "rejected"
                /\ status'[r] = "rejected" /\ vstatus'[v] = "archived"]_vars

\* Every request ends.
ConversionsEnd == \A r \in Requests : status[r] \in Active ~> status[r] \notin Active

=============================================================================
