------------------------------ MODULE Backfill ------------------------------
(***************************************************************************)
(* The index of one account as backfill and delta sync fill it together     *)
(* (worker/internal/backfill, worker/internal/deltasync/tick).              *)
(*                                                                         *)
(* Backfill's job makes the run-start step once in a process, then its      *)
(* first pass, which lists the mailbox into the index and masks subjects    *)
(* again, then its second, which decides and scans what waits, newest       *)
(* first.  A tick of delta sync applies what the feed tells it, and scans   *)
(* too once it has read that the second pass has ended.  Both go on at the  *)
(* same time over the same rows, and either may fail or be stopped between  *)
(* any two transactions; a process comes back with the same release of the  *)
(* worker or another.                                                       *)
(*                                                                         *)
(* Each transaction is an action, and so is each call to the provider whose *)
(* answer a later transaction stores; but the run-start step, which counts  *)
(* in one statement what a tick adds to meanwhile, is one for each such     *)
(* count and one for the rest with its commit.  DeltaSync has the feed and  *)
(* its cursor in detail: here a tick is told of each message's latest state.*)
(***************************************************************************)
EXTENDS Integers, Sequences, FiniteSets

CONSTANTS
    Message,     \* the messages, as their identifiers in order
    SentAt,      \* when each was sent
    SenderOf,    \* each message's sender
    ListId,      \* the messages that carry a List-Id
    Old,         \* those the mailbox held before the account's first cursor
    Leaving,     \* those that may be removed from the mailbox
    Release,     \* the worker's releases: a scanner, a body bound, a volume mark
    Flags,       \* <<scanner, message>>: the scanner finds something in the body
    Masks,       \* <<scanner, message>>: the scanner masks the subject
    TooLarge,    \* <<bound, message>>: the body is refused under the bound
    ListSize,    \* how many messages a page of the provider's listing holds
    PageSize,    \* how many waiting messages a page of the second pass reads
    TickSize,    \* how many waiting messages a tick reads at a time
    Decisions,   \* how many messages a tick decides before it ends
    MaxStops,    \* bound: processes stopped
    MaxFails,    \* bound: calls and transactions that fail
    MaxEdits     \* bound: edits of the policy

ASSUME MessageAssumption ==
    /\ Message \subseteq Nat \ {0} /\ IsFiniteSet(Message)
    /\ SentAt \in [Message -> Int] /\ DOMAIN SenderOf = Message
    /\ \A m, n \in Message : SentAt[m] = SentAt[n] => m = n
    /\ UNION {ListId, Old, Leaving} \subseteq Message
ASSUME ReleaseAssumption ==
    Release # {} /\ \A r \in Release : {r.scanner, r.bound} \subseteq Nat \ {0} /\ r.high \in Nat
ASSUME SizeAssumption == {ListSize, PageSize, TickSize, Decisions} \subseteq Nat \ {0}
ASSUME BoundAssumption == {MaxStops, MaxFails, MaxEdits} \subseteq Nat

VARIABLES
    mail,      \* what the mailbox did with each message: "coming", "held", "gone"
    told,      \* what the feed last told a tick of it
    row,       \* the index: each message's scan state and subject
    hits,      \* the senders' prior hits
    first,     \* account_state: the first pass has ended
    second,    \* account_state: the second pass has ended
    restart,   \* account_state: the second pass starts over
    listing,   \* the first pass's latest run: its state and its token
    walk,      \* the second pass's latest run: its state and the message it is after
    after,     \* the latest tick's checkpoint: the message its scanning is after
    policy,    \* the senders the policy in force restricts
    release,   \* the release the process runs
    started,   \* it has made the account's run-start step
    counted,   \* the hits that step has counted and not committed, per sender
    job,       \* where backfill's job is
    resumed,   \* the first pass's run still holds the token it resumed from
    list,      \* the page of the listing it holds: the messages, the next token
    page,      \* the waiting messages the second pass has read, with what the gate reads
    compared,  \* the policy its run last compared under
    tick,      \* where the tick is
    scans,     \* it scans, having read that the second pass has ended
    tpolicy,   \* the policy it took at its entry
    tafter,    \* the message its next read is after
    tpage,     \* the waiting messages it has read
    decided,   \* how many it has read to decide
    stops, fails, edits,
    due,       \* history: what the second pass, since it last started over, has to come by
    lost,      \* history: flagged messages removed since their sender's hits were counted
    unseen,    \* history: those a tick flagged after that count and before its commit
    meanwhile  \* history: both, since a count that is not committed

mailbox == <<mail, told>>
passes  == <<first, second, restart, listing, walk>>
opening == <<started, counted>>
hand1   == <<resumed, list>>
hand2   == <<page, compared>>
tickVars == <<tick, scans, tpolicy, tafter, tpage, decided>>
jobVars == <<job, opening, hand1, hand2>>
tally == <<lost, unseen, meanwhile>>
vars == <<mailbox, row, hits, passes, after, policy, release, jobVars, tickVars,
          stops, fails, edits, due, tally>>

Sender == {SenderOf[m] : m \in Message}
Scanner == release.scanner
ScanState == {"none", "pending", "scanned", "skipped_gate", "skipped_restricted", "refused"}
RunState == {"none", "running", "failed", "succeeded"}
Top == 0                                  \* before every message
End == -1                                 \* the empty token after the last page
NoRow == [scan |-> "none", by |-> 0, subject |-> 0, masked |-> FALSE]
NoList == [found |-> {}, next |-> Top]
NotYet == -1                              \* the count of a sender not counted again
NoCount == [s \in Sender |-> NotYet]
Nothing == [s \in Sender |-> [flagged |-> 0, lost |-> 0]]

FirstAt == {"first", "listing", "listed"}
SecondAt == {"second", "delisting", "requeuing", "paging", "reading", "scanning", "ending"}
Input == [id: Message, masked: BOOLEAN, bulk: BOOLEAN, hits: Nat]

TypeOK ==
    /\ mail \in [Message -> {"coming", "held", "gone"}] /\ told \in [Message -> {"coming", "held", "gone"}]
    /\ row \in [Message -> [scan: ScanState, by: Nat, subject: Nat, masked: BOOLEAN]]
    /\ hits \in [Sender -> Nat] /\ counted \in [Sender -> Nat \cup {NotYet}]
    /\ lost \in [Sender -> Nat] /\ unseen \in [Sender -> Nat]
    /\ meanwhile \in [Sender -> [flagged: Nat, lost: Nat]]
    /\ {first, second, restart, started, resumed, scans} \subseteq BOOLEAN
    /\ listing \in [run: RunState, token: Message \cup {Top, End}]
    /\ walk \in [run: RunState, after: Message \cup {Top}]
    /\ {after, tafter} \subseteq Message \cup {Top}
    /\ {policy, compared, tpolicy} \subseteq SUBSET Sender
    /\ release \in Release
    /\ job \in {"idle", "opening"} \cup FirstAt \cup SecondAt
    /\ list \in [found: SUBSET Message, next: Message \cup {Top, End}]
    /\ page \in Seq(Input) /\ tpage \in Seq(Input)
    /\ tick \in {"idle", "changes", "delisting", "reading", "scanning", "ending"}
    /\ decided \in Nat /\ stops \in 0..MaxStops /\ fails \in 0..MaxFails /\ edits \in 0..MaxEdits
    /\ due \subseteq Message

Init ==
    /\ mail = [m \in Message |-> IF m \in Old THEN "held" ELSE "coming"] /\ told = mail
    /\ row = [m \in Message |-> NoRow] /\ hits = [s \in Sender |-> 0]
    /\ first = FALSE /\ second = FALSE /\ restart = FALSE
    /\ listing = [run |-> "none", token |-> Top] /\ walk = [run |-> "none", after |-> Top]
    /\ after = Top /\ policy \in SUBSET Sender /\ release \in Release
    /\ started = FALSE /\ counted = NoCount
    /\ job = "idle" /\ resumed = FALSE /\ list = NoList /\ page = <<>> /\ compared = {}
    /\ tick = "idle" /\ scans = FALSE /\ tpolicy = {} /\ tafter = Top /\ tpage = <<>> /\ decided = 0
    /\ stops = 0 /\ fails = 0 /\ edits = 0 /\ due = {}
    /\ lost = [s \in Sender |-> 0] /\ unseen = lost /\ meanwhile = Nothing

-----------------------------------------------------------------------------
(* The index, and the gate and the scanner that decide what is in it. *)

Stored == {m \in Message : row[m].scan # "none"}
Waiting == {m \in Message : row[m].scan = "pending"}
From(s) == {m \in Message : SenderOf[m] = s}

Stale(rows) == {m \in Message : rows[m].scan # "none" /\ rows[m].subject # Scanner}

\* A message as it is added, and a stored one's subject masked again from the provider's.
Added(m) == [scan |-> "pending", by |-> 0, subject |-> Scanner, masked |-> <<Scanner, m>> \in Masks]
Remasked(r, m) == [r EXCEPT !.subject = Scanner, !.masked = <<Scanner, m>> \in Masks]
Requeued(r) == [r EXCEPT !.scan = "pending", !.by = 0]

\* The rows with those of ms as Do says.
Each(rows, ms, Do(_, _)) == [m \in Message |-> IF m \in ms THEN Do(rows[m], m) ELSE rows[m]]
Requeue(rows, ms) == Each(rows, ms, LAMBDA r, m : Requeued(r))

FlaggedIn(rows, s) == {m \in From(s) : rows[m].scan = "scanned" /\ <<rows[m].by, m>> \in Flags}

\* What the gate reads of a message and its sender.
Volume(rows, s) == Cardinality({m \in From(s) : rows[m].scan # "none"})
InputOf(rows, h, m) ==
    [id |-> m, masked |-> rows[m].masked, hits |-> h[SenderOf[m]],
     bulk |-> m \in ListId /\ Volume(rows, SenderOf[m]) > release.high]

\* The gate's decision on a message, and whether something was found in its sender's
\* mail since it was read.
Gate(restricted, e, found) ==
    IF SenderOf[e.id] \in restricted THEN "skipped_restricted"
    ELSE IF ~e.masked /\ e.bulk /\ e.hits = 0 /\ ~found THEN "skipped_gate"
    ELSE "scan"

\* What becomes of a body the gate has scanned, one of absent not being there to read.
Scan(m, absent) ==
    IF m \in absent THEN "left"
    ELSE IF <<release.bound, m>> \in TooLarge THEN "refused"
    ELSE IF <<Scanner, m>> \in Flags THEN "flagged" ELSE "clean"

\* The outcomes of a read, each message decided after the scan of the one before it.
\* The first scan that finds something is made whatever else is found.
Outcomes(restricted, es, absent) ==
    LET Outcome(i, found) ==
            IF Gate(restricted, es[i], found) = "scan" THEN Scan(es[i].id, absent)
            ELSE Gate(restricted, es[i], found)
        Found(i) == \E j \in 1..i - 1 :
            SenderOf[es[j].id] = SenderOf[es[i].id] /\ Outcome(j, FALSE) = "flagged"
    IN  [i \in 1..Len(es) |-> Outcome(i, Found(i))]

\* Mutant: a message that no longer waits is decided again.
WaitedStored(es, out, n) == \A i \in 1..n : es[i].id \in Stored

\* A commit records a decision for each of the first n messages of a read, and
\* stores what it led to only where the message still waits.
Waited(es, out, n) ==
    \A i \in 1..n : es[i].id \in Stored /\ (out[i] # "left" => es[i].id \in Waiting)

StateOf(o) == IF o \in {"flagged", "clean"} THEN "scanned" ELSE o
StampOf(o) == CASE StateOf(o) = "scanned" -> Scanner [] o = "refused" -> release.bound [] OTHER -> 0

\* How many it flags of a sender's.
NewHits(es, out, n, s) == Cardinality({i \in 1..n : SenderOf[es[i].id] = s /\ out[i] = "flagged"})

Decide(es, out, n) ==
    /\ row' = [m \in Message |->
                 LET is == {i \in 1..n : es[i].id = m /\ out[i] # "left"}
                 IN  IF is = {} THEN row[m]
                     ELSE LET o == out[CHOOSE i \in is : TRUE]
                          IN  [row[m] EXCEPT !.scan = StateOf(o), !.by = StampOf(o)]]
    /\ hits' = [s \in Sender |-> hits[s] + NewHits(es, out, n, s)]

\* The delisting transition: the messages skipped for a sender the policy no longer restricts.
Delisted(restricted) ==
    {m \in Message : row[m].scan = "skipped_restricted" /\ SenderOf[m] \notin restricted}

Newer(m, n) == SentAt[m] > SentAt[n]
Lower(m, n) == m < n
Older(ms, token) == IF token = Top THEN ms ELSE {m \in ms : SentAt[m] < SentAt[token]}

\* The first n of ms, or all of fewer, in an order: a set of the one such sequence.
Members(s) == {s[i] : i \in DOMAIN s}
Leading(ms, n, Before(_, _)) ==
    {s \in [1..(IF Cardinality(ms) < n THEN Cardinality(ms) ELSE n) -> ms] :
        \A i \in DOMAIN s : /\ \A j \in DOMAIN s : i < j => Before(s[i], s[j])
                            /\ \A m \in ms \ Members(s) : Before(s[i], m)}

Newest(ms, n) == Leading(ms, n, Newer)
Lowest(ms, n) == Leading(ms, n, Lower)

\* What is read of the messages of s.
Read(s) == [i \in DOMAIN s |-> InputOf(row, hits, s[i])]

-----------------------------------------------------------------------------
(* The mailbox, and the policy an operator edits. *)

Arrive(m) ==
    /\ mail[m] = "coming" /\ mail' = [mail EXCEPT ![m] = "held"]
    /\ UNCHANGED <<told, row, hits, passes, after, policy, release, jobVars, tickVars, stops, edits, due, tally>>

Leave(m) ==
    /\ m \in Leaving /\ mail[m] = "held" /\ mail' = [mail EXCEPT ![m] = "gone"]
    /\ UNCHANGED <<told, row, hits, passes, after, policy, release, jobVars, tickVars, stops, edits, due, tally>>

Edit ==
    /\ edits < MaxEdits /\ edits' = edits + 1
    /\ \E restricted \in SUBSET Sender : restricted # policy /\ policy' = restricted
    /\ UNCHANGED <<mailbox, row, hits, passes, after, release, jobVars, tickVars, stops, due, tally>>

-----------------------------------------------------------------------------
(* Backfill's job: the run-start step, then each pass that is due. *)

JobKeeps == <<mailbox, after, policy, release, tickVars, stops, edits>>

\* A run that fails.  The job asks again after its backoff.
RunFails ==
    /\ job' = "idle"
    /\ listing' = IF job \in {"listing", "listed"} THEN [listing EXCEPT !.run = "failed"] ELSE listing
    /\ walk' = IF job \in SecondAt \ {"second"} THEN [walk EXCEPT !.run = "failed"] ELSE walk
    /\ resumed' = FALSE /\ list' = NoList /\ page' = <<>> /\ compared' = {}
    /\ counted' = NoCount /\ meanwhile' = Nothing
    /\ UNCHANGED <<row, hits, first, second, restart, started, due, lost, unseen, JobKeeps>>

JobStart ==
    /\ job = "idle" /\ (~started \/ ~first \/ ~second \/ restart)
    /\ job' = IF started THEN "first" ELSE "opening"
    /\ UNCHANGED <<row, hits, passes, opening, hand1, hand2, due, tally, JobKeeps>>

\* What the run-start step returns to pending, and the rows once it has masked
\* again from the store the subjects stored unmasked.
StaleVerdicts == {m \in Message : row[m].scan = "scanned" /\ row[m].by # Scanner}
StaleRefusals == {m \in Message : row[m].scan = "refused" /\ row[m].by # release.bound}
Unmasked == {m \in Stale(row) : ~row[m].masked}
\* Mutant: the refusals of another bound stay.
ClearedVerdicts == Requeue(row, StaleVerdicts)

Cleared == Requeue(row, StaleVerdicts \cup StaleRefusals)
\* Mutant: the hits of verdicts returned to pending stay counted.
RecountedNot == hits

StaleSenders == {SenderOf[m] : m \in StaleVerdicts}
Recounted == [s \in Sender |-> IF s \in StaleSenders THEN counted[s] ELSE hits[s]]
StoreRemasked == Each(Cleared, Unmasked, Remasked)
Overturned ==
    {m \in Message : StoreRemasked[m].scan = "skipped_gate" /\ Gate(policy, InputOf(StoreRemasked, Recounted, m), FALSE) # "skipped_gate"}

\* The step's transaction locks the verdicts it returns and counts a sender's hits
\* in a statement that reads what is committed as it starts, then waits for the
\* sender's row if a tick that adds to it holds that, and writes over what it added.
Recount(s) ==
    /\ job = "opening" /\ s \in StaleSenders /\ counted[s] = NotYet
    /\ counted' = [counted EXCEPT ![s] = Cardinality(FlaggedIn(Cleared, s))]
    /\ UNCHANGED <<row, hits, passes, started, job, hand1, hand2, due, tally, JobKeeps>>

\* The rest of it, and its commit.
Reopen ==
    /\ job = "opening" /\ \A s \in StaleSenders : counted[s] # NotYet
    /\ row' = Requeue(StoreRemasked, Overturned) /\ hits' = Recounted
    /\ counted' = NoCount /\ meanwhile' = Nothing
    /\ lost' = [s \in Sender |-> IF s \in StaleSenders THEN meanwhile[s].lost ELSE lost[s]]
    /\ unseen' = [s \in Sender |-> IF s \in StaleSenders THEN meanwhile[s].flagged ELSE unseen[s]]
    /\ LET back == UNION {StaleVerdicts, StaleRefusals, Overturned}
           any == (back \cup Unmasked # {}) \/ (Stale(StoreRemasked) # {})
       IN  /\ due' = due \cup back
           /\ second' = (second /\ ~any) /\ restart' = (restart \/ any)
    /\ started' = TRUE /\ job' = "first"
    /\ UNCHANGED <<first, listing, walk, hand1, hand2, JobKeeps>>

\* A pass that ended and is not due is skipped, a run that stopped is resumed,
\* and one reopened after its enumeration ended only fetches again.
FirstOpen ==
    /\ job = "first"
    /\ IF first /\ Stale(row) = {}
       THEN job' = "second" /\ UNCHANGED <<first, listing, resumed>>
       ELSE LET found == listing.run # "none"
                resumes == found /\ listing.run # "succeeded"
                token == IF resumes \/ (first /\ found /\ listing.token = End) THEN listing.token ELSE Top
            IN  /\ first' = FALSE /\ listing' = [run |-> "running", token |-> token]
                /\ resumed' = (resumes /\ token \notin {Top, End})
                /\ job' = "listing"
    /\ UNCHANGED <<row, hits, second, restart, walk, opening, list, hand2, due, tally, JobKeeps>>

Held(token) == Older({m \in Message : mail[m] = "held"}, token)

\* Mutant: the next page starts past its first message.
FetchPast(token) ==
    LET First(rest) == CHOOSE m \in rest : \A o \in rest \ {m} : Newer(m, o)
    IN  {[found |-> Members(s),
          next |-> IF Members(s) = Held(token) THEN End ELSE First(Held(token) \ Members(s))] :
            s \in Newest(Held(token), ListSize)}

\* The next page, when no subject is stale, of the mailbox as it is now.
Fetch(token) ==
    {[found |-> Members(s), next |-> IF Members(s) = Held(token) THEN End ELSE s[Len(s)]] :
        s \in Newest(Held(token), ListSize)}

FetchPage ==
    /\ job = "listing" /\ Stale(row) = {} /\ listing.token # End
    /\ list' \in Fetch(listing.token) /\ job' = "listed"
    /\ UNCHANGED <<row, hits, passes, opening, resumed, hand2, due, tally, JobKeeps>>

\* The provider no longer honours the token the run resumed from: the run asks
\* from the first page, which the run's record shows once a page is durable.
RefuseToken ==
    /\ job = "listing" /\ Stale(row) = {} /\ resumed
    /\ resumed' = FALSE /\ list' \in Fetch(Top) /\ job' = "listed"
    /\ UNCHANGED <<row, hits, passes, opening, hand2, due, tally, JobKeeps>>

CommitPage ==
    /\ job = "listed"
    /\ row' = Each(row, list.found, LAMBDA r, m :
                  IF r.scan = "none" THEN Added(m) ELSE IF m \in Stale(row) THEN Remasked(r, m) ELSE r)
    /\ listing' = [listing EXCEPT !.token = list.next]
    /\ job' = "listing" /\ resumed' = FALSE /\ list' = NoList
    /\ UNCHANGED <<hits, first, second, restart, walk, opening, hand2, due, tally, JobKeeps>>

\* Mutant: a subject the provider no longer has is left as it is.
RefetchHeld ==
    /\ job = "listing"
    /\ \E m \in Stale(row) :
         /\ \A n \in Stale(row) : m <= n
         /\ row' = [row EXCEPT ![m] = IF mail[m] = "held" THEN Remasked(@, m) ELSE @]
    /\ UNCHANGED <<hits, passes, opening, job, hand1, hand2, due, tally, JobKeeps>>

\* A subject masked under another scanner, from the provider's or masked whole
\* when the provider no longer has the message.  Between the read, the call
\* and the store its row can only be removed, which leaves it out all the same.
Refetch ==
    /\ job = "listing"
    /\ \E m \in Stale(row) :
         /\ \A n \in Stale(row) : m <= n
         /\ row' = [row EXCEPT ![m] = IF mail[m] = "held" THEN Remasked(@, m)
                                     ELSE [@ EXCEPT !.subject = Scanner, !.masked = TRUE]]
    /\ UNCHANGED <<hits, passes, opening, job, hand1, hand2, due, tally, JobKeeps>>

FirstFinish ==
    /\ job = "listing" /\ listing.token = End /\ Stale(row) = {}
    /\ first' = TRUE /\ listing' = [listing EXCEPT !.run = "succeeded"]
    /\ job' = "second" /\ resumed' = FALSE
    /\ UNCHANGED <<row, hits, second, restart, walk, opening, list, hand2, due, tally, JobKeeps>>

\* Mutant: a run that is resumed goes on where it was, the mark notwithstanding.
SecondOpenResuming ==
    /\ job = "second"
    /\ IF ~first \/ second
       THEN job' = "idle" /\ UNCHANGED <<restart, walk, due>>
       ELSE LET from == IF walk.run \in {"running", "failed"} THEN walk.after ELSE Top
            IN  /\ restart' = FALSE /\ walk' = [run |-> "running", after |-> from]
                /\ due' = IF from = Top THEN Waiting ELSE due
                /\ job' = "delisting"
    /\ UNCHANGED <<row, hits, first, second, listing, opening, hand1, hand2, tally, JobKeeps>>

\* The second pass waits for the first, and resumes a run that stopped, from its
\* start when it is marked to start over.
SecondOpen ==
    /\ job = "second"
    /\ IF ~first \/ second
       THEN job' = "idle" /\ UNCHANGED <<restart, walk, due>>
       ELSE LET resumes == walk.run \in {"running", "failed"}
                from == IF resumes /\ ~restart THEN walk.after ELSE Top
            IN  /\ restart' = FALSE /\ walk' = [run |-> "running", after |-> from]
                /\ due' = IF from = Top THEN Waiting ELSE due
                /\ job' = "delisting"
    /\ UNCHANGED <<row, hits, first, second, listing, opening, hand1, hand2, tally, JobKeeps>>

\* The comparison, at a run's start and at the first page under another policy.
Compare ==
    /\ \/ job = "delisting" /\ job' = "requeuing"
       \/ job = "paging" /\ policy # compared /\ job' = "reading"
    /\ row' = Requeue(row, Delisted(policy))
    /\ walk' = IF Delisted(policy) = {} THEN walk ELSE [walk EXCEPT !.after = Top]
    /\ due' = due \cup Delisted(policy)
    /\ compared' = policy
    /\ UNCHANGED <<hits, first, second, restart, listing, opening, hand1, page, tally, JobKeeps>>

RequeueSkips ==
    /\ job = "requeuing" /\ job' = "paging"
    /\ row' = Requeue(row, {m \in Message : row[m].scan = "skipped_gate" /\ row[m].masked})
    /\ UNCHANGED <<hits, passes, opening, hand1, hand2, due, tally, JobKeeps>>

ReadPage ==
    /\ job = "reading" \/ (job = "paging" /\ policy = compared)
    /\ \E s \in Newest(Older(Waiting, walk.after), PageSize) : page' = Read(s)
    /\ job' = IF page' = <<>> THEN "ending" ELSE "scanning"
    /\ UNCHANGED <<row, hits, passes, opening, hand1, compared, due, tally, JobKeeps>>

\* The page's bodies, all but those of absent, fetched and scanned, and the page
\* made durable, unless a message no longer waits.
Ids(es) == {es[i].id : i \in DOMAIN es}
DecidePage(absent) ==
    /\ job = "scanning"
    /\ LET out == Outcomes(compared, page, absent) IN
         IF Waited(page, out, Len(page))
         THEN /\ Decide(page, out, Len(page))
              /\ walk' = [walk EXCEPT !.after = page[Len(page)].id]
              /\ due' = due \ Ids(page)
              /\ job' = "paging" /\ page' = <<>>
              /\ UNCHANGED <<first, second, restart, listing, opening, hand1, compared, tally, JobKeeps>>
         ELSE RunFails

SecondFinish ==
    /\ job = "ending" /\ second' = TRUE /\ walk' = [walk EXCEPT !.run = "succeeded"]
    /\ job' = "idle" /\ page' = <<>> /\ compared' = {}
    /\ UNCHANGED <<row, hits, first, restart, listing, opening, hand1, due, tally, JobKeeps>>

JobFail == job # "idle" /\ RunFails

-----------------------------------------------------------------------------
(* A tick of delta sync. *)

TickKeeps == <<mail, passes, policy, release, jobVars, stops, edits>>

TickStart ==
    /\ tick = "idle" /\ tick' = "changes"
    /\ scans' = second /\ tpolicy' = policy /\ tafter' = after
    /\ UNCHANGED <<told, row, hits, after, tpage, decided, due, tally, TickKeeps>>

\* The messages whose row the run-start step has locked.
Locked == IF counted = NoCount THEN {} ELSE StaleVerdicts

\* A change set: a message added, or one removed, its sender's statistics with its
\* last one.
Apply(m) ==
    /\ tick = "changes" /\ told[m] # mail[m] /\ told' = [told EXCEPT ![m] = mail[m]]
    /\ m \notin Locked
    /\ row' = [row EXCEPT ![m] = IF mail[m] = "gone" THEN NoRow ELSE IF @.scan = "none" THEN Added(m) ELSE @]
    /\ LET s == SenderOf[m]
           last == \A n \in From(s) : row'[n].scan = "none"
           gone == Cardinality(FlaggedIn(row, s) \ Stored')
       IN  /\ hits' = [hits EXCEPT ![s] = IF last THEN 0 ELSE @]
           /\ lost' = [lost EXCEPT ![s] = IF last THEN 0 ELSE @ + gone]
           /\ unseen' = [unseen EXCEPT ![s] = IF last THEN 0 ELSE @]
           /\ meanwhile' = IF counted[s] = NotYet THEN meanwhile
                           ELSE [meanwhile EXCEPT ![s].lost = @ + gone]
    /\ due' = due \cap Stored'
    /\ UNCHANGED <<after, tick, scans, tpolicy, tafter, tpage, decided, TickKeeps>>

TickDelist ==
    /\ tick = "changes" /\ scans /\ tick' = "reading"
    /\ row' = Requeue(row, Delisted(tpolicy))
    /\ tafter' = IF Delisted(tpolicy) = {} THEN tafter ELSE Top
    /\ UNCHANGED <<told, hits, after, scans, tpolicy, tpage, decided, due, tally, TickKeeps>>

\* Mutant: the end of the rows does not bring the checkpoint back to the first.
TickReadOn ==
    /\ tick = "reading" /\ decided < Decisions
    /\ \E s \in Lowest({m \in Waiting : m > tafter}, TickSize) : tpage' = Read(s)
    /\ tick' = IF tpage' = <<>> THEN "ending" ELSE "scanning"
    /\ UNCHANGED <<told, row, hits, after, scans, tpolicy, tafter, decided, due, tally, TickKeeps>>

TickRead ==
    /\ tick = "reading" /\ decided < Decisions
    /\ LET n == IF TickSize < Decisions - decided THEN TickSize ELSE Decisions - decided
       IN  \E s \in Lowest({m \in Waiting : m > tafter}, n) : tpage' = Read(s)
    /\ tick' = IF tpage' = <<>> THEN "ending" ELSE "scanning"
    /\ tafter' = IF tpage' = <<>> THEN Top ELSE tafter
    /\ UNCHANGED <<told, row, hits, after, scans, tpolicy, decided, due, tally, TickKeeps>>

TickGone ==
    /\ tick' = "idle" /\ scans' = FALSE /\ tpolicy' = {} /\ tafter' = Top /\ tpage' = <<>> /\ decided' = 0
TickFails == TickGone /\ UNCHANGED <<told, row, hits, after, due, tally, TickKeeps>>

\* The first n of the messages read decided and stored: all of them, or those
\* before one whose body was throttled or its credential refused.
TickDecide(n, absent) ==
    /\ tick = "scanning"
    /\ LET out == Outcomes(tpolicy, tpage, absent) IN
         /\ n < Len(tpage) => StateOf(out[n + 1]) \in {"scanned", "refused", "left"}
         /\ IF Waited(tpage, out, n)
            THEN /\ Decide(tpage, out, n)
                 /\ meanwhile' = [s \in Sender |-> IF counted[s] = NotYet THEN meanwhile[s]
                                    ELSE [meanwhile[s] EXCEPT !.flagged = @ + NewHits(tpage, out, n, s)]]
                 /\ due' = due \ {tpage[i].id : i \in {i \in 1..n : out[i] # "left"}}
                 /\ tafter' = (IF n = 0 THEN tafter ELSE tpage[n].id) /\ after' = tafter'
                 /\ tick' = (IF n < Len(tpage) THEN "ending" ELSE "reading")
                 /\ decided' = decided + Len(tpage) /\ tpage' = <<>>
                 /\ UNCHANGED <<told, scans, tpolicy, lost, unseen, TickKeeps>>
            ELSE TickFails

TickFinish ==
    /\ \/ tick = "ending"
       \/ tick = "changes" /\ ~scans
       \/ tick = "reading" /\ decided >= Decisions
    /\ TickGone /\ after' = tafter
    /\ UNCHANGED <<told, row, hits, due, tally, TickKeeps>>

TickFail == tick # "idle" /\ TickFails

-----------------------------------------------------------------------------
\* The process is stopped, its runs left recorded as running, and comes back.
Stop ==
    /\ stops < MaxStops /\ stops' = stops + 1
    /\ release' \in Release /\ started' = FALSE /\ counted' = NoCount /\ meanwhile' = Nothing
    /\ job' = "idle" /\ resumed' = FALSE /\ list' = NoList /\ page' = <<>> /\ compared' = {}
    /\ TickGone
    /\ UNCHANGED <<mailbox, row, hits, passes, after, policy, edits, due, lost, unseen>>

\* The bodies a read goes without: those the provider has lost, and any it fails.
Lost(es) == {m \in Ids(es) : mail[m] = "gone"}
Failed(es) == {Lost(es) \cup more : more \in SUBSET Ids(es)} \ {Lost(es)}

Outside == Edit \/ Stop \/ \E m \in Message : Arrive(m) \/ Leave(m)

JobNext ==
    /\ \/ JobStart \/ (\E s \in Sender : Recount(s)) \/ Reopen
       \/ FirstOpen \/ FetchPage \/ CommitPage \/ Refetch \/ FirstFinish
       \/ SecondOpen \/ Compare \/ RequeueSkips \/ ReadPage \/ DecidePage(Lost(page)) \/ SecondFinish
    /\ UNCHANGED fails

TickNext ==
    /\ \/ TickStart \/ (\E m \in Message : Apply(m))
       \/ TickDelist \/ TickRead \/ TickDecide(Len(tpage), Lost(tpage)) \/ TickFinish
    /\ UNCHANGED fails

Failure ==
    /\ fails < MaxFails /\ fails' = fails + 1
    /\ \/ JobFail \/ RefuseToken \/ (\E absent \in Failed(page) : DecidePage(absent))
       \/ TickFail \/ (\E absent \in Failed(tpage) : TickDecide(Len(tpage), absent))
       \/ \E n \in 0..Len(tpage) - 1 : TickDecide(n, Lost(tpage))

Next == JobNext \/ TickNext \/ Failure \/ (Outside /\ UNCHANGED fails)

Spec == Init /\ [][Next]_vars

\* Each job is asked again after every run, and goes on with what it is at.
JobFairness == WF_vars(JobNext)
TickFairness == WF_vars(TickNext)
FairSpec == Spec /\ JobFairness /\ TickFairness

-----------------------------------------------------------------------------
\* Nothing another scanner produced is used: the second pass never runs over a subject it
\* masked, and once a process has made its run-start step no verdict is another scanner's,
\* no refusal another bound's and no subject one that another scanner left unmasked.
ScannerCurrent ==
    /\ job \in SecondAt => Stale(row) = {} /\ first
    /\ started => UNION {StaleVerdicts, StaleRefusals, Unmasked} = {}

\* A sender's hits are the flagged messages stored and those removed since they were
\* counted, short of exactly what a tick flagged while the run-start step counted and
\* had not committed (pass2/postgres.go:187-209, statistics.sql:52-74).
HitsExact ==
    \A s \in Sender : hits[s] + unseen[s] = Cardinality(FlaggedIn(row, s)) + lost[s]

\* The first pass ends with every message in the index that was in the mailbox throughout.
FirstPassComplete == first => \A m \in Old : mail[m] = "held" => m \in Stored

\* The second pass ends having come by everything that waited when it started over.
NothingPassedOver == [][second' /\ ~second => due = {}]_vars

\* What one workload has decided the other never decides over.
DecidedOnce ==
    [][\A m \in Message : row[m].scan \notin {"none", "pending"} /\ row'[m].scan \notin {"none", "pending"}
          => <<row'[m].scan, row'[m].by>> = <<row[m].scan, row[m].by>>]_vars

\* Both passes come to their end, after whatever made them due again.
PassesEnd == ~(first /\ second) ~> first /\ second

\* What waits for a scan, or was skipped for a sender the policy has lifted, is decided
\* unless the mailbox loses it or the sender is restricted.
Undecided(m) ==
    /\ row[m].scan = "pending" \/ (row[m].scan = "skipped_restricted" /\ SenderOf[m] \notin policy)
WaitingDecided == \A m \in Message : Undecided(m) ~> ~Undecided(m) \/ mail[m] = "gone"

=============================================================================
