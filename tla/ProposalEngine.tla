--------------------------- MODULE ProposalEngine ---------------------------
(***************************************************************************)
(* The proposals and their review: ProposalEngine                          *)
(* (runtime/proposal_engine.py), the records of accepted house-state       *)
(* proposals (runtime/proposal_lifecycle_store.py), the approvals that     *)
(* inference obeys (runtime/inference/approval_store.py) and the reviews   *)
(* and the reset of the coordinator that write the three stores in turn.   *)
(*                                                                         *)
(* Everything runs in one event loop; a task suspends where it awaits a    *)
(* save.  Home Assistant's store queues the newest data and writes it      *)
(* under a fair lock, so that one write serves every save that was asked   *)
(* for before it, and saves return in the order they were asked for.       *)
(* What the proposals say is left out.                                     *)
(***************************************************************************)
EXTENDS Integers, Sequences, FiniteSets

CONSTANTS
    Proposal,    \* proposal ids: uuids, each made for one identity
    KeyOf,       \* [Proposal -> Key], the identity key of the proposal
    HouseKey,    \* identities of house-state contexts, submitted by inference
    LearnedKey,  \* identities of reactions, found by the analyzers of a run
    RuleKey,     \* identities of semantic policies, submitted and withdrawn
    Rank,        \* [HouseKey -> Nat], specificity in the one review group
    Review,      \* the tasks that may review at the same time
    MaxCreated,  \* bound on the proposals ever made
    MaxReviews,  \* bound on the reviews
    MaxFaults,   \* bound on the resets and restarts
    NoDecision

Key == HouseKey \cup LearnedKey \cup RuleKey

ASSUME ProposalAssumption ==
    /\ KeyOf \in [Proposal -> Key]
    /\ HouseKey \cap LearnedKey = {} /\ HouseKey \cap RuleKey = {}
    /\ LearnedKey \cap RuleKey = {}
    /\ Rank \in [HouseKey -> Nat]
    /\ {MaxCreated, MaxReviews, MaxFaults} \subseteq Nat
    /\ "reset" \notin Review
    /\ NoDecision \notin {"accepted", "rejected"}

Verdict == {"accepted", "rejected"}
Status  == {"pending"} \cup Verdict
Item    == [id : Proposal, status : Status]
Task    == Review \cup {"reset"}

VARIABLES
    proposals,        \* Seq(Item), ProposalEngine._proposals
    stored,           \* Seq(Item), its file
    queued,           \* its store holds data that is not written yet
    waiting,          \* Seq(Task), the tasks that await its save, oldest first
    written,          \* how many of them the last write has served
    records,          \* SUBSET Proposal, the lifecycle records
    recordsStored,    \* their file
    approvals,        \* [HouseKey -> decision], ApprovalStore._records
    approvalsStored,  \* their file
    task,             \* [Task -> what the task is doing]
    reported,         \* history: [Proposal -> the decision reported as done]
    mishaps,          \* history: what has disturbed a review so far
    created, reviews, faults  \* how many proposals, reviews, resets and restarts so far

storeVars == <<stored, queued, waiting, written>>
counters  == <<created, reviews, faults>>
vars == <<proposals, storeVars, records, recordsStored, approvals, approvalsStored,
          task, reported, mishaps, counters>>

\* What befalls a review: its entry moved in the list, it was cut off for good, another
\* review of the same proposal, or a reset of the learning data.
Mishap == {"moved", "stopped", "contended", "reset"}

\* A review of one proposal remembers its index, a batch the proposals themselves.
Idle   == [pc |-> "idle", targets |-> {}, verdict |-> NoDecision, index |-> 0]
Busy   == [pc : {"saving", "recording", "flushing"}, targets : SUBSET Proposal,
           verdict : Verdict \cup {NoDecision}, index : 0..MaxCreated]

Undecided == [k \in HouseKey |-> NoDecision]

-----------------------------------------------------------------------------
(* The list *)

House(p)       == KeyOf[p] \in HouseKey
Ids(list)      == {list[i].id : i \in DOMAIN list}
Has(list, p, s) == \E i \in DOMAIN list : list[i] = [id |-> p, status |-> s]
Pending        == {p \in Proposal : Has(proposals, p, "pending")}
WithKey(k)     == {p \in Ids(proposals) : KeyOf[p] = k}
IndexOf(p)     == CHOOSE i \in DOMAIN proposals : proposals[i].id = p
InFlight(p)    == \E t \in Review : p \in task[t].targets

\* An id nothing refers to stands for a new one.
Fresh(p) == p \notin Ids(proposals) \cup Ids(stored) \cup records \cup recordsStored
            /\ ~InFlight(p)

Decide(list, P, v) ==
    [i \in DOMAIN list |-> IF list[i].id \in P THEN [list[i] EXCEPT !.status = v] ELSE list[i]]

\* Of the entries that stay, the n-th is the one that is preceded by n - 1 of them.
Without(list, P) ==
    LET kept  == {i \in DOMAIN list : list[i].id \notin P}
        at(n) == CHOOSE i \in kept : Cardinality({j \in kept : j <= i}) = n
    IN [n \in 1..Cardinality(kept) |-> list[at(n)]]

\* _review_group_state: of the pending proposals of the group only the most specific
\* one is shown, and only if it is more specific than any accepted one.
Visible ==
    {p \in Pending : House(p) =>
        /\ \A q \in Pending : House(q) => Rank[KeyOf[q]] <= Rank[KeyOf[p]]
        /\ \A q \in Proposal : Has(proposals, q, "accepted") /\ House(q) =>
                Rank[KeyOf[q]] < Rank[KeyOf[p]]}

Hidden == {p \in Pending : House(p)} \ Visible

-----------------------------------------------------------------------------
(* Saving *)

\* async_save(_serialize()): the newest list is queued, whatever was queued before.
Save      == /\ queued' = TRUE
             /\ UNCHANGED <<stored, waiting, written>>
SaveAs(t) == /\ queued' = TRUE
             /\ waiting' = Append(waiting, t)
             /\ UNCHANGED <<stored, written>>

Write ==
    /\ queued
    /\ stored' = proposals
    /\ queued' = FALSE
    /\ written' = Len(waiting)
    /\ UNCHANGED <<proposals, waiting, records, recordsStored, approvals, approvalsStored,
                   task, reported, mishaps, counters>>

\* Mutant: a save returns before its data is written.
Returns_BeforeWrite(t) ==
    /\ waiting # <<>> /\ t = Head(waiting)
    /\ waiting' = Tail(waiting)
    /\ written' = IF written > 0 THEN written - 1 ELSE 0
    /\ UNCHANGED <<stored, queued>>

\* The oldest save returns to its task.
Returns(t) ==
    /\ waiting # <<>> /\ t = Head(waiting)
    /\ written > 0
    /\ waiting' = Tail(waiting)
    /\ written' = written - 1
    /\ UNCHANGED <<stored, queued>>

\* A proposal leaves the list while a review remembers an index.
Disturbed == IF \E t \in Review : task[t].pc = "saving" /\ task[t].index > 0
             THEN mishaps \cup {"moved"} ELSE mishaps

-----------------------------------------------------------------------------
(* Submissions, runs and withdrawals *)

\* A new pending proposal at the end of the list.
Creates(p)   == Fresh(p) /\ created < MaxCreated /\ created' = created + 1
With(p, list) == Append(list, [id |-> p, status |-> "pending"])

\* async_submit_proposal: only an unknown identity becomes a new proposal.  A decided
\* one stays as it is, and refreshing a pending one changes nothing that is modelled.
SubmitNew(p) ==
    /\ KeyOf[p] \in HouseKey \cup RuleKey
    /\ WithKey(KeyOf[p]) = {}
    /\ Creates(p)
    /\ proposals' = With(p, proposals)
    /\ Save
    /\ UNCHANGED <<records, recordsStored, approvals, approvalsStored, task, reported,
                   mishaps, reviews, faults>>

\* async_run, after its analyzers: the list is read when they have answered, and merged
\* without a suspension.  A run has one candidate; several are as good as several runs.
\* stale are the pending proposals that were not observed for 45 days.
\*
\* Mutant: the pruning does not spare the rejected proposals.
Pruned_Decided(drop) ==
    Without(proposals, drop \cup {p \in Ids(proposals) : Has(proposals, p, "rejected")})

Pruned(drop) == Without(proposals, drop)

RunEnds(list) ==
    /\ proposals' = list
    /\ mishaps' = IF Ids(proposals) \subseteq Ids(list) THEN mishaps ELSE Disturbed
    /\ Save
    /\ UNCHANGED <<records, recordsStored, approvals, approvalsStored, task, reported, reviews,
                   faults>>

\* Mutant: a candidate is appended although its identity is pending.
RunAppends_BesidePending(p, stale) ==
    /\ KeyOf[p] \in LearnedKey
    /\ stale \subseteq Pending
    /\ Creates(p)
    /\ RunEnds(With(p, Pruned(stale)))

\* The candidate is new, or follows up an accepted proposal, of its own identity or of its
\* slot (_fallback_followup_match): a new pending proposal.
RunAppends(p, stale) ==
    /\ KeyOf[p] \in LearnedKey
    /\ WithKey(KeyOf[p]) \cap Pending = {}
    /\ \/ WithKey(KeyOf[p]) = {}
       \/ \E q \in Proposal : KeyOf[q] \in LearnedKey /\ Has(proposals, q, "accepted")
    /\ stale \subseteq Pending
    /\ Creates(p)
    /\ RunEnds(With(p, Pruned(stale)))

\* A configured reaction or an accepted proposal covers the candidate: pending
\* proposals of its identity are dropped.
RunSuppresses(k, stale) ==
    /\ k \in LearnedKey
    /\ stale \subseteq Pending
    /\ RunEnds(Pruned(stale \cup (WithKey(k) \cap Pending)))
    /\ UNCHANGED created

\* async_withdraw: the rule no longer applies.
Withdraw(p) ==
    /\ KeyOf[p] \in RuleKey
    /\ p \in Pending
    /\ proposals' = Without(proposals, {p})
    /\ mishaps' = Disturbed
    /\ Save
    /\ UNCHANGED <<records, recordsStored, approvals, approvalsStored, task, reported, counters>>

-----------------------------------------------------------------------------
(* Reviews *)

Starts(t, P, v, i) ==
    /\ task[t] = Idle
    /\ task' = [task EXCEPT ![t] = [pc |-> "saving", targets |-> P, verdict |-> v, index |-> i]]
    /\ proposals' = Decide(proposals, P, v)
    /\ reported' = [p \in Proposal |-> IF p \in P THEN NoDecision ELSE reported[p]]
    /\ mishaps' = mishaps
         \cup (IF \E p \in P : InFlight(p) THEN {"contended"} ELSE {})
         \cup (IF task["reset"] # Idle THEN {"reset"} ELSE {})
    /\ SaveAs(t)
    /\ reviews < MaxReviews /\ reviews' = reviews + 1
    /\ UNCHANGED <<records, recordsStored, approvals, approvalsStored, created, faults>>

\* async_accept_proposal, async_reject_proposal: of any proposal that is still known,
\* decided or not.
ReviewOne(t, p, v) == p \in Ids(proposals) /\ Starts(t, {p}, v, IndexOf(p))

\* async_accept_proposals, async_reject_proposals: all are visible and pending, or none
\* is decided.
ReviewBatch(t, P, v) == P # {} /\ P \subseteq Visible /\ Starts(t, P, v, 0)

\* async_dismiss_similar_proposals: with the hidden siblings of the visible ones.
DismissSimilar(t, P) ==
    /\ P # {} /\ P \subseteq Visible
    /\ Starts(t, P \cup (IF \E p \in P : House(p) THEN Hidden ELSE {}), "rejected", 0)

\* Mutant: a batch does not look at its proposals after the save.
Saved_OnlyIndexed(t) == IF task[t].index = 0 THEN {} ELSE {proposals[task[t].index].id}

\* What _set_status looks at after its save: the entry at the remembered index.
Saved(t) == IF task[t].index = 0 THEN task[t].targets ELSE {proposals[task[t].index].id}

Unmonitored(P) == {p \in P : House(p) /\ Has(proposals, p, "accepted")} \ records

\* Mutant: the hidden siblings that were dismissed along are not recorded.
Approve_OnlyShown(t) ==
    [k \in HouseKey |->
        IF \E p \in task[t].targets : KeyOf[p] = k
           /\ \A q \in task[t].targets : House(q) => Rank[KeyOf[q]] <= Rank[k]
        THEN task[t].verdict ELSE approvals[k]]

\* The approvals are recorded at once; then they are flushed.
Approve(t) ==
    [k \in HouseKey |->
        IF \E p \in task[t].targets : KeyOf[p] = k THEN task[t].verdict ELSE approvals[k]]

Finish(t) ==
    /\ task' = [task EXCEPT ![t] = Idle]
    /\ reported' = [p \in Proposal |->
            IF /\ p \in task[t].targets
               /\ Has(proposals, p, task[t].verdict)
               /\ \A u \in Review \ {t} : p \notin task[u].targets
            THEN task[t].verdict ELSE reported[p]]

ToApproval(t) ==
    IF \E p \in task[t].targets : House(p)
    THEN /\ approvals' = Approve(t)
         /\ task' = [task EXCEPT ![t].pc = "flushing"]
         /\ UNCHANGED reported
    ELSE Finish(t) /\ UNCHANGED approvals

\* The save of a review returns.  If the list has become shorter than the index, the
\* review raises; otherwise the accepted proposals get their lifecycle records.
ReviewSaved(t) ==
    /\ t \in Review
    /\ Returns(t)
    /\ \/ /\ task[t].index > Len(proposals)
          /\ task' = [task EXCEPT ![t] = Idle]
          /\ UNCHANGED <<records, approvals, reported>>
       \/ /\ task[t].index <= Len(proposals)
          /\ Unmonitored(Saved(t)) # {}
          /\ records' = records \cup Unmonitored(Saved(t))
          /\ task' = [task EXCEPT ![t].pc = "recording"]
          /\ UNCHANGED <<approvals, reported>>
       \/ /\ task[t].index <= Len(proposals)
          /\ Unmonitored(Saved(t)) = {}
          /\ ToApproval(t)
          /\ UNCHANGED records
    /\ UNCHANGED <<proposals, recordsStored, approvalsStored, mishaps, counters>>

ReviewRecorded(t) ==
    /\ t \in Review /\ task[t].pc = "recording"
    /\ recordsStored' = records
    /\ ToApproval(t)
    /\ UNCHANGED <<proposals, storeVars, records, approvalsStored, mishaps, counters>>

ReviewFlushed(t) ==
    /\ t \in Review /\ task[t].pc = "flushing"
    /\ approvalsStored' = approvals
    /\ Finish(t)
    /\ UNCHANGED <<proposals, storeVars, records, recordsStored, approvals, mishaps, counters>>

-----------------------------------------------------------------------------
(* async_reset_learning_data: the three stores are cleared one after another. *)

ResetStarts ==
    /\ task["reset"] = Idle
    /\ proposals' = <<>>
    /\ task' = [task EXCEPT !["reset"].pc = "saving"]
    /\ reported' = [p \in Proposal |-> NoDecision]
    /\ mishaps' = IF \E t \in Review : task[t] # Idle THEN Disturbed \cup {"reset"} ELSE mishaps
    /\ SaveAs("reset")
    /\ faults < MaxFaults /\ faults' = faults + 1
    /\ UNCHANGED <<records, recordsStored, approvals, approvalsStored, created, reviews>>

ResetSaved ==
    /\ Returns("reset")
    /\ records' = {}
    /\ task' = [task EXCEPT !["reset"].pc = "recording"]
    /\ UNCHANGED <<proposals, recordsStored, approvals, approvalsStored,
                   reported, mishaps, counters>>

ResetRecorded ==
    /\ task["reset"].pc = "recording"
    /\ recordsStored' = records
    /\ approvals' = Undecided
    /\ task' = [task EXCEPT !["reset"].pc = "flushing"]
    /\ UNCHANGED <<proposals, storeVars, records, approvalsStored,
                   reported, mishaps, counters>>

ResetFlushed ==
    /\ task["reset"].pc = "flushing"
    /\ approvalsStored' = approvals
    /\ task' = [task EXCEPT !["reset"] = Idle]
    /\ UNCHANGED <<proposals, storeVars, records, recordsStored, approvals,
                   reported, mishaps, counters>>

-----------------------------------------------------------------------------
(* Home Assistant stops at any moment and starts again: async_initialize loads the *)
(* stores and gives every accepted house-state proposal its record.                *)

Restart ==
    LET accepted == {p \in Proposal : House(p) /\ Has(stored, p, "accepted")} IN
    /\ proposals' = stored
    /\ queued' = FALSE /\ waiting' = <<>> /\ written' = 0
    /\ records' = recordsStored \cup accepted
    /\ recordsStored' = recordsStored \cup accepted
    /\ approvals' = approvalsStored
    /\ task' = [t \in Task |-> Idle]
    /\ mishaps' = (mishaps \ {"moved"})
                  \cup (IF "moved" \in mishaps \/ \E t \in Task : task[t] # Idle
                        THEN {"stopped"} ELSE {})
    /\ faults < MaxFaults /\ faults' = faults + 1
    /\ UNCHANGED <<stored, approvalsStored, reported, created, reviews>>

-----------------------------------------------------------------------------

Init ==
    /\ proposals = <<>> /\ stored = <<>>
    /\ queued = FALSE /\ waiting = <<>> /\ written = 0
    /\ records = {} /\ recordsStored = {}
    /\ approvals = Undecided /\ approvalsStored = Undecided
    /\ task = [t \in Task |-> Idle]
    /\ reported = [p \in Proposal |-> NoDecision]
    /\ mishaps = {}
    /\ created = 0 /\ reviews = 0 /\ faults = 0

Learn == \/ \E p \in Proposal : SubmitNew(p) \/ Withdraw(p)
         \/ \E stale \in SUBSET Pending :
               \/ \E p \in Proposal : RunAppends(p, stale)
               \/ \E k \in LearnedKey : RunSuppresses(k, stale)

ReviewStep(t) ==
    \/ \E p \in Proposal, v \in Verdict : ReviewOne(t, p, v)
    \/ \E P \in SUBSET Visible : DismissSimilar(t, P) \/ \E v \in Verdict : ReviewBatch(t, P, v)
    \/ ReviewSaved(t) \/ ReviewRecorded(t) \/ ReviewFlushed(t)

Reset == ResetStarts \/ ResetSaved \/ ResetRecorded \/ ResetFlushed

Next == Learn \/ Write \/ Reset \/ Restart \/ \E t \in Review : ReviewStep(t)

Spec == Init /\ [][Next]_vars

-----------------------------------------------------------------------------
(* Properties *)

\* Types: the engine, its stores and the tasks; ids are unique in the list.
TypeOK ==
    /\ proposals \in Seq(Item) /\ stored \in Seq(Item)
    /\ Len(proposals) <= created
    /\ queued \in BOOLEAN
    /\ waiting \in Seq(Task) /\ written \in 0..Len(waiting)
    /\ records \subseteq Proposal /\ recordsStored \subseteq Proposal
    /\ approvals \in [HouseKey -> Verdict \cup {NoDecision}]
    /\ approvalsStored \in [HouseKey -> Verdict \cup {NoDecision}]
    /\ task \in [Task -> Busy \cup {Idle}]
    /\ reported \in [Proposal -> Verdict \cup {NoDecision}]
    /\ mishaps \subseteq Mishap
    /\ created \in 0..MaxCreated /\ reviews \in 0..MaxReviews /\ faults \in 0..MaxFaults

\* One identity never waits twice in the review queue, although submissions, runs,
\* reviews and restarts change the list between any two saves.
OnePendingPerIdentity ==
    \A i, j \in DOMAIN proposals :
        /\ proposals[i].status = "pending" /\ proposals[j].status = "pending"
        /\ KeyOf[proposals[i].id] = KeyOf[proposals[j].id]
        => i = j

\* A decision that was reported as done is in the file: no stop of the program
\* loses it, however the saves were merged (_set_status, _async_apply_batch_status).
ReportedDurable ==
    \A p \in Proposal : reported[p] # NoDecision => Has(stored, p, reported[p])

\* An accepted house-state proposal is monitored (_sync_lifecycle_record_for), unless
\* its review is still under way, the list moved under a review, or a reset met one.
\* After a restart it is monitored again even then.
AcceptedMonitored ==
    \A p \in Proposal :
        House(p) /\ Has(proposals, p, "accepted") /\ mishaps \cap {"moved", "reset"} = {} =>
            p \in records \/ InFlight(p)

\* What inference obeys is what was decided: for every decided house-state proposal,
\* dismissed siblings included, the approval store holds the decision, as long as no
\* review was cut off, overtaken by a review of the same proposal, or met by a reset.
ApprovalAgrees ==
    mishaps = {} =>
        \A p \in Proposal, v \in Verdict :
            House(p) /\ Has(proposals, p, v) /\ ~InFlight(p) => approvals[KeyOf[p]] = v

\* No learning run, submission or withdrawal reopens or removes a decided proposal;
\* only a reset, a stop of the program before the decision was saved, or another
\* review changes it.
DecisionsKept ==
    [][Learn => \A p \in Proposal, v \in Verdict :
            Has(proposals, p, v) => Has(proposals', p, v)]_vars

=============================================================================
