--------------------------- MODULE Backfill_proofs ---------------------------
(***************************************************************************)
(* Proofs of Backfill: its type invariant, that nothing another scanner     *)
(* produced is used, which flagged messages a sender's hits count, that the *)
(* first pass ends with the mailbox in the index and the second having come *)
(* by all that waited, and that what is decided is never decided over.      *)
(***************************************************************************)
EXTENDS Backfill, Functions, FiniteSetTheorems, TLAPS

\* A message is in a read once, and one is read where a read is decided.
Distinct(es) == \A i, j \in 1..Len(es) : es[i].id = es[j].id => i = j

ReadInv ==
    /\ Distinct(page) /\ Distinct(tpage)
    /\ job = "scanning" => page # <<>>
    /\ tick = "scanning" => tpage # <<>>

\* The listing, newest first, is past m at the token.
Covered(m, token) == token = End \/ (token \in Message /\ SentAt[m] >= SentAt[token])

\* What the listing is past is stored, and at a fetched page's end what is on it.
ListingInv ==
    \A m \in Old :
        /\ mail[m] # "coming"
        /\ mail[m] = "held" /\ Covered(m, listing.token) => m \in Stored
        /\ job = "listed" /\ mail[m] = "held" /\ Covered(m, list.next) => m \in list.found \cup Stored

\* What the second pass has to come by waits, ahead of it; what is not on the page it
\* has read is past the page.
WalkInv ==
    /\ due \subseteq Waiting
    /\ job \in SecondAt \ {"second"} => ~restart /\ walk.run = "running"
    /\ walk.run \in {"running", "failed"} /\ ~restart => due \subseteq Older(Message, walk.after)
    /\ job = "scanning" => \A m \in due \ Ids(page) : SentAt[m] < SentAt[page[Len(page)].id]
    /\ job = "ending" => due = {}

\* The verdicts of the scanner's own on a sender's flagged messages.
KeptIn(rows, s) == {m \in FlaggedIn(rows, s) : rows[m].by = Scanner}

\* What the run-start step has counted and not committed is those, but for what has been
\* flagged and removed since.
CountOf(s) ==
    IF counted[s] = NotYet THEN meanwhile[s] = [flagged |-> 0, lost |-> 0]
    ELSE /\ job = "opening"
         /\ counted[s] + meanwhile[s].flagged = Cardinality(KeptIn(row, s)) + meanwhile[s].lost
CountInv == \A s \in Sender : CountOf(s)

Inv == TypeOK /\ ReadInv /\ ScannerCurrent /\ CountInv /\ HitsExact /\ ListingInv /\ FirstPassComplete /\ WalkInv

-----------------------------------------------------------------------------
\* The steps, each failure with the step it is one of.
JobStep ==
    \/ JobStart \/ (\E s \in Sender : Recount(s)) \/ Reopen \/ FirstOpen \/ FetchPage \/ RefuseToken \/ CommitPage \/ Refetch
    \/ FirstFinish \/ SecondOpen \/ Compare \/ RequeueSkips \/ ReadPage
    \/ (\E absent \in SUBSET Message : DecidePage(absent)) \/ SecondFinish \/ JobFail
TickStep ==
    \/ TickStart \/ (\E m \in Message : Apply(m)) \/ TickDelist \/ TickRead
    \/ (\E n \in 0..Len(tpage), absent \in SUBSET Message : TickDecide(n, absent))
    \/ TickFinish \/ TickFail

LEMMA ReadFacts ==
    ASSUME NEW es \in Seq(Input)
    PROVE  /\ Len(es) \in Nat /\ DOMAIN es = 1..Len(es)
           /\ \A i \in 1..Len(es) : es[i] \in Input /\ es[i].id \in Message
           /\ Ids(es) \in SUBSET Message
<1>1. /\ Len(es) \in Nat /\ DOMAIN es = 1..Len(es)
      /\ \A i \in 1..Len(es) : es[i] \in Input
  OBVIOUS
<1>2. \A e \in Input : e.id \in Message
  BY DEF Input
<1>3. QED BY <1>1, <1>2 DEF Ids

LEMMA Steps ==
    ASSUME TypeOK, [Next]_vars
    PROVE  /\ fails' \in 0..MaxFails
           /\ UNCHANGED vars \/ Outside \/ JobStep \/ TickStep
<1>1. Len(tpage) \in Nat /\ \A es \in {page, tpage} : Ids(es) \in SUBSET Message
  BY ReadFacts DEF TypeOK
<1>2. /\ Lost(page) \in SUBSET Message /\ Lost(tpage) \in SUBSET Message
      /\ Failed(page) \subseteq SUBSET Message /\ Failed(tpage) \subseteq SUBSET Message
  BY <1>1 DEF Lost, Failed
<1>3. /\ Len(tpage) \in 0..Len(tpage)
      /\ 0..Len(tpage) - 1 \subseteq 0..Len(tpage)
  BY <1>1
<1>4. fails' \in 0..MaxFails
  <2>1. fails \in 0..MaxFails /\ MaxFails \in Nat BY BoundAssumption DEF TypeOK
  <2>2. CASE Failure BY <2>1, <2>2 DEF Failure
  <2>3. CASE UNCHANGED fails BY <2>1, <2>3
  <2>4. QED BY <2>2, <2>3 DEF Next, JobNext, TickNext, vars
<1>5. CASE JobNext BY <1>2, <1>4, <1>5 DEF JobNext, JobStep
<1>6. CASE TickNext BY <1>2, <1>3, <1>4, <1>6 DEF TickNext, TickStep
<1>7. CASE Failure BY <1>2, <1>3, <1>4, <1>7 DEF Failure, JobStep, TickStep
<1>8. QED BY <1>4, <1>5, <1>6, <1>7 DEF Next

-----------------------------------------------------------------------------
\* What the operators the steps are built from return.

LEMMA MessageFacts ==
    /\ IsFiniteSet(Message) /\ Top \notin Message /\ End \notin Message
    /\ \A m \in Message : SentAt[m] \in Int /\ SenderOf[m] \in Sender /\ m \in Nat
BY MessageAssumption DEF Top, End, Sender

LEMMA Cardinal == \A ms \in SUBSET Message : IsFiniteSet(ms) /\ Cardinality(ms) \in Nat
BY MessageFacts, FS_Subset, FS_CardinalityType

Row == [scan: ScanState, by: Nat, subject: Nat, masked: BOOLEAN]

LEMMA Releases == TypeOK => Scanner \in Nat \ {0} /\ release.bound \in Nat \ {0} /\ release.high \in Nat
BY ReleaseAssumption DEF TypeOK, Scanner

LEMMA RowFacts ==
    ASSUME TypeOK
    PROVE  /\ NoRow \in Row /\ \A m \in Message : Added(m) \in Row
           /\ \A r \in Row : Requeued(r) \in Row /\ \A m \in Message : Remasked(r, m) \in Row
<1>1. NoRow \in Row
  BY DEF Row, NoRow, ScanState
<1>2. \A m \in Message : Added(m) \in Row
  BY Releases DEF Row, Added, ScanState
<1>3. ASSUME NEW r \in Row PROVE Requeued(r) \in Row
  BY DEF Row, Requeued, ScanState
<1>4. ASSUME NEW r \in Row, NEW m \in Message PROVE Remasked(r, m) \in Row
  <2>1. Scanner \in Nat /\ (<<Scanner, m>> \in Masks) \in BOOLEAN BY Releases
  <2>2. QED BY <2>1 DEF Row, Remasked
<1>5. QED BY <1>1, <1>2, <1>3, <1>4

LEMMA RequeueFacts ==
    ASSUME NEW rows \in [Message -> Row], NEW ms
    PROVE  /\ Requeue(rows, ms) = [m \in Message |-> IF m \in ms THEN Requeued(rows[m]) ELSE rows[m]]
           /\ Requeue(rows, ms) \in [Message -> Row]
<1>1. Requeue(rows, ms) = [m \in Message |-> IF m \in ms THEN Requeued(rows[m]) ELSE rows[m]]
  BY DEF Requeue, Each
<1>2. \A r \in Row : Requeued(r) \in Row
  BY DEF Row, Requeued, ScanState
<1>3. QED BY <1>1, <1>2

\* A page of the messages of ms holds each once, none only of none, and the rest after it.
LEMMA LeadingFacts ==
    ASSUME NEW ms \in SUBSET Message, NEW n \in Nat \ {0}, NEW s,
           s \in Newest(ms, n) \/ s \in Lowest(ms, n)
    PROVE  /\ s \in Seq(ms) /\ DOMAIN s = 1..Len(s) /\ Len(s) \in Nat
           /\ \A i, j \in 1..Len(s) : s[i] = s[j] => i = j
           /\ s = <<>> <=> ms = {}
           /\ Members(s) \in SUBSET ms /\ \A i \in 1..Len(s) : s[i] \in ms
<1> DEFINE k == IF Cardinality(ms) < n THEN Cardinality(ms) ELSE n
<1>1. s \in [1..k -> ms] BY DEF Leading, Newest, Lowest
<1>2. k \in Nat /\ (k = 0 <=> ms = {}) BY Cardinal, FS_EmptySet
<1>3. s \in Seq(ms) /\ DOMAIN s = 1..k /\ Len(s) = k BY <1>1, <1>2
<1>4. ASSUME NEW i \in 1..k, NEW j \in 1..k, i < j PROVE s[i] # s[j]
  <2>1. CASE s \in Newest(ms, n)
    <3>1. Newer(s[i], s[j]) BY <1>3, <1>4, <2>1 DEF Leading, Newest
    <3>2. s[i] \in Message BY <1>1
    <3>3. QED BY <3>1, <3>2, MessageFacts DEF Newer
  <2>2. CASE s \in Lowest(ms, n)
    <3>1. Lower(s[i], s[j]) BY <1>3, <1>4, <2>2 DEF Leading, Lowest
    <3>2. s[i] \in Nat BY <1>1, MessageFacts
    <3>3. QED BY <3>1, <3>2 DEF Lower
  <2>3. QED BY <2>1, <2>2
<1>5. \A i, j \in 1..k : s[i] = s[j] => i = j
  <2>1. SUFFICES ASSUME NEW i \in 1..k, NEW j \in 1..k, i # j PROVE s[i] # s[j] OBVIOUS
  <2>2. i < j \/ j < i BY <1>2, <2>1
  <2>3. QED BY <1>4, <2>2
<1>6. s = <<>> <=> ms = {} BY <1>2, <1>3
<1>7. QED BY <1>1, <1>2, <1>3, <1>5, <1>6 DEF Members

LEMMA NewestFirst ==
    ASSUME NEW ms \in SUBSET Message, NEW n \in Nat \ {0}, NEW s \in Newest(ms, n), s # <<>>
    PROVE  /\ Len(s) \in 1..Len(s) /\ s[Len(s)] \in ms
           /\ \A m \in ms \ Members(s) : SentAt[m] < SentAt[s[Len(s)]]
           /\ \A m \in Members(s) : SentAt[m] >= SentAt[s[Len(s)]]
<1>1. /\ s \in Seq(ms) /\ DOMAIN s = 1..Len(s) /\ Len(s) \in Nat
      /\ \A i \in 1..Len(s) : s[i] \in ms
  BY LeadingFacts
<1>2. Len(s) \in 1..Len(s) BY <1>1
<1>3. ASSUME NEW m \in ms \ Members(s) PROVE SentAt[m] < SentAt[s[Len(s)]]
  <2>1. Newer(s[Len(s)], m) BY <1>1, <1>2 DEF Leading, Newest
  <2>2. QED BY <2>1, <1>1, <1>2, MessageFacts DEF Newer
<1>4. ASSUME NEW i \in 1..Len(s) PROVE SentAt[s[i]] >= SentAt[s[Len(s)]]
  <2>1. i < Len(s) => Newer(s[i], s[Len(s)]) BY <1>1, <1>2 DEF Leading, Newest
  <2>2. i < Len(s) \/ i = Len(s)
    <3>1. Len(s) \in Nat BY <1>1
    <3>2. \A l \in Nat : \A a \in 1..l : a < l \/ a = l OBVIOUS
    <3>3. QED BY <3>1, <3>2
  <2>3. SentAt[s[i]] \in Int /\ SentAt[s[Len(s)]] \in Int BY <1>1, <1>2, MessageFacts
  <2>4. QED BY <2>1, <2>2, <2>3 DEF Newer
<1>5. QED BY <1>1, <1>2, <1>3, <1>4 DEF Members

LEMMA InputType ==
    ASSUME NEW rows \in [Message -> Row], NEW h \in [Sender -> Nat], NEW m \in Message, TypeOK
    PROVE  InputOf(rows, h, m) \in Input /\ InputOf(rows, h, m).id = m
<1>1. rows[m].masked \in BOOLEAN BY DEF Row
<1>2. h[SenderOf[m]] \in Nat BY MessageFacts
<1>3. (m \in ListId /\ Volume(rows, SenderOf[m]) > release.high) \in BOOLEAN OBVIOUS
<1>4. QED BY <1>1, <1>2, <1>3 DEF InputOf, Input

LEMMA RowType == TypeOK => row \in [Message -> Row] /\ hits \in [Sender -> Nat]
BY DEF TypeOK, Row

\* What is read is the messages of the page, each once.
LEMMA ReadResult ==
    ASSUME TypeOK, NEW ms \in SUBSET Message, NEW n \in Nat \ {0}, NEW s,
           s \in Newest(ms, n) \/ s \in Lowest(ms, n)
    PROVE  /\ Read(s) \in Seq(Input) /\ Len(Read(s)) = Len(s)
           /\ Distinct(Read(s)) /\ Ids(Read(s)) = Members(s)
           /\ \A i \in 1..Len(s) : Read(s)[i].id = s[i]
           /\ Read(s) = <<>> <=> ms = {}
<1>1. /\ s \in Seq(ms) /\ DOMAIN s = 1..Len(s) /\ Len(s) \in Nat
      /\ \A i, j \in 1..Len(s) : s[i] = s[j] => i = j
      /\ s = <<>> <=> ms = {}
      /\ \A i \in 1..Len(s) : s[i] \in Message
  BY LeadingFacts
<1>2. Read(s) = [i \in 1..Len(s) |-> InputOf(row, hits, s[i])] BY <1>1 DEF Read
<1>3. \A i \in 1..Len(s) : InputOf(row, hits, s[i]) \in Input /\ InputOf(row, hits, s[i]).id = s[i]
  BY <1>1, InputType, RowType
<1>4. Read(s) \in Seq(Input) /\ Len(Read(s)) = Len(s) /\ DOMAIN Read(s) = 1..Len(s)
  BY <1>1, <1>2, <1>3
<1>5. \A i \in 1..Len(s) : Read(s)[i].id = s[i] BY <1>2, <1>3
<1>6. Read(s) = <<>> <=> ms = {} BY <1>1, <1>4
<1>7. Distinct(Read(s)) BY <1>1, <1>4, <1>5 DEF Distinct
<1>8. Ids(Read(s)) = Members(s) BY <1>1, <1>4, <1>5 DEF Ids, Members
<1>9. QED BY <1>4, <1>5, <1>6, <1>7, <1>8

\* What is decided of a read, and what a decision stores.
Outcome == {"skipped_restricted", "skipped_gate", "left", "refused", "flagged", "clean"}

LEMMA OutcomeFacts ==
    ASSUME NEW es \in Seq(Input), NEW restricted, NEW absent
    PROVE  \A i \in 1..Len(es) :
             LET o == Outcomes(restricted, es, absent)[i] IN
             /\ o \in Outcome
             /\ o = "flagged" => <<Scanner, es[i].id>> \in Flags
             /\ o = "clean" => <<Scanner, es[i].id>> \notin Flags
<1> DEFINE One(i, found) == IF Gate(restricted, es[i], found) = "scan" THEN Scan(es[i].id, absent)
                            ELSE Gate(restricted, es[i], found)
           Found(i) == \E j \in 1..i - 1 :
                           SenderOf[es[j].id] = SenderOf[es[i].id] /\ One(j, FALSE) = "flagged"
<1>1. Outcomes(restricted, es, absent) = [i \in 1..Len(es) |-> One(i, Found(i))]
  BY DEF Outcomes
<1>2. ASSUME NEW i \in 1..Len(es), NEW found \in BOOLEAN
      PROVE  /\ One(i, found) \in Outcome
             /\ One(i, found) = "flagged" => <<Scanner, es[i].id>> \in Flags
             /\ One(i, found) = "clean" => <<Scanner, es[i].id>> \notin Flags
  BY DEF Gate, Scan, Outcome
<1>3. \A i \in 1..Len(es) : Found(i) \in BOOLEAN OBVIOUS
<1>4. SUFFICES ASSUME NEW i \in 1..Len(es)
               PROVE  LET o == One(i, Found(i)) IN
                        /\ o \in Outcome
                        /\ o = "flagged" => <<Scanner, es[i].id>> \in Flags
                        /\ o = "clean" => <<Scanner, es[i].id>> \notin Flags
  BY <1>1
<1>5. QED BY <1>2, <1>3

\* A message is left as it was, or waited and is decided.
DecidedAs(m, o) ==
    /\ m \in Waiting /\ o \in Outcome \ {"left"}
    /\ row'[m] = [row[m] EXCEPT !.scan = StateOf(o), !.by = StampOf(o)]

LEMMA DecideFacts ==
    ASSUME TypeOK, NEW es \in Seq(Input), Distinct(es), NEW n \in 0..Len(es),
           NEW restricted, NEW absent, NEW out, out = Outcomes(restricted, es, absent),
           Waited(es, out, n), Decide(es, out, n)
    PROVE  /\ row' \in [Message -> Row]
           /\ \A i \in 1..n : es[i].id \in Stored
           /\ \A i \in 1..n : out[i] # "left" => DecidedAs(es[i].id, out[i])
           /\ \A m \in Message : (\A i \in 1..n : es[i].id = m => out[i] = "left") => row'[m] = row[m]
<1> DEFINE is(m) == {i \in 1..n : es[i].id = m /\ out[i] # "left"}
           new(m) == IF is(m) = {} THEN row[m]
                     ELSE LET o == out[CHOOSE i \in is(m) : TRUE]
                          IN  [row[m] EXCEPT !.scan = StateOf(o), !.by = StampOf(o)]
<1>1. /\ Len(es) \in Nat /\ n \in Nat /\ 1..n \subseteq 1..Len(es)
      /\ \A i \in 1..n : es[i].id \in Message /\ out[i] \in Outcome
  <2>1. Len(es) \in Nat /\ \A i \in 1..Len(es) : es[i].id \in Message BY ReadFacts
  <2>2. \A i \in 1..Len(es) : out[i] \in Outcome BY OutcomeFacts
  <2>3. n \in Nat /\ 1..n \subseteq 1..Len(es) BY <2>1
  <2>4. QED BY <2>1, <2>2, <2>3
<1>2. row' = [m \in Message |-> new(m)]
  BY DEF Decide
<1>3. \A i \in 1..n : es[i].id \in Stored /\ (out[i] # "left" => es[i].id \in Waiting)
  BY DEF Waited
<1>4. ASSUME NEW i \in 1..n, out[i] # "left" PROVE DecidedAs(es[i].id, out[i])
  <2>1. is(es[i].id) = {i}
    BY <1>1, <1>4 DEF Distinct
  <2>2. (CHOOSE j \in is(es[i].id) : TRUE) = i BY <2>1
  <2>3. row'[es[i].id] = new(es[i].id) BY <1>1, <1>2
  <2>4. new(es[i].id) = [row[es[i].id] EXCEPT !.scan = StateOf(out[i]), !.by = StampOf(out[i])]
    BY <2>1, <2>2
  <2>5. QED BY <1>1, <1>3, <1>4, <2>3, <2>4 DEF DecidedAs
<1>5. ASSUME NEW m \in Message, \A i \in 1..n : es[i].id = m => out[i] = "left" PROVE row'[m] = row[m]
  BY <1>2, <1>5
<1>6. ASSUME NEW m \in Message PROVE row'[m] \in Row
  <2>1. row[m] \in Row BY RowType
  <2>2. CASE \A i \in 1..n : es[i].id = m => out[i] = "left" BY <1>5, <2>1, <2>2
  <2>3. CASE \E i \in 1..n : es[i].id = m /\ out[i] # "left"
    <3>1. PICK i \in 1..n : es[i].id = m /\ out[i] # "left" BY <2>3
    <3>2. row'[m] = [row[m] EXCEPT !.scan = StateOf(out[i]), !.by = StampOf(out[i])] /\ out[i] \in Outcome \ {"left"}
      BY <1>4, <3>1 DEF DecidedAs
    <3>3. StateOf(out[i]) \in ScanState /\ StampOf(out[i]) \in Nat
      BY <3>2, Releases DEF StateOf, StampOf, Outcome, ScanState
    <3>4. QED BY <2>1, <3>2, <3>3 DEF Row
  <2>4. QED BY <2>2, <2>3
<1>7. row' \in [Message -> Row] BY <1>2, <1>6
<1>8. QED BY <1>3, <1>4, <1>5, <1>7

-----------------------------------------------------------------------------
\* What each step that changes the index leaves in it.

LEMMA CommitRow ==
    ASSUME TypeOK, CommitPage
    PROVE  /\ row' \in [Message -> Row]
           /\ \A m \in Message :
                row'[m] = IF m \notin list.found THEN row[m]
                          ELSE IF row[m].scan = "none" THEN Added(m)
                          ELSE IF m \in Stale(row) THEN Remasked(row[m], m) ELSE row[m]
<1> DEFINE new(r, m) == IF r.scan = "none" THEN Added(m) ELSE IF m \in Stale(row) THEN Remasked(r, m) ELSE r
<1>1. row' = [m \in Message |-> IF m \in list.found THEN new(row[m], m) ELSE row[m]]
  BY DEF CommitPage, Each
<1>2. \A m \in Message : new(row[m], m) \in Row BY RowFacts, RowType
<1>3. QED BY <1>1, <1>2, RowType

LEMMA RefetchRow ==
    ASSUME TypeOK, Refetch
    PROVE  /\ row' \in [Message -> Row]
           /\ \A m \in Message : /\ row'[m].scan = row[m].scan /\ row'[m].by = row[m].by
                                 /\ row'[m].subject = Scanner \/ row'[m] = row[m]
<1>1. PICK m \in Stale(row) :
        row' = [row EXCEPT ![m] = IF mail[m] = "held" THEN Remasked(@, m)
                                  ELSE [@ EXCEPT !.subject = Scanner, !.masked = TRUE]]
  BY DEF Refetch
<1>2. m \in Message /\ row \in [Message -> Row] BY RowType DEF Stale
<1>3. ASSUME NEW r \in Row
      PROVE  LET n == IF mail[m] = "held" THEN Remasked(r, m) ELSE [r EXCEPT !.subject = Scanner, !.masked = TRUE]
             IN  n \in Row /\ n.scan = r.scan /\ n.by = r.by /\ n.subject = Scanner
  <2>1. Scanner \in Nat BY Releases
  <2>2. Remasked(r, m) \in Row BY <1>2, RowFacts
  <2>3. QED BY <2>1, <2>2 DEF Row, Remasked
<1>4. QED BY <1>1, <1>2, <1>3

\* What goes back to waiting of the rows, others' subjects masked again.
Back == UNION {StaleVerdicts, StaleRefusals, Overturned}

LEMMA ReopenRow ==
    ASSUME TypeOK, Reopen
    PROVE  /\ row' \in [Message -> Row]
           /\ Back \in SUBSET Message
           /\ \A m \in Message :
                /\ IF m \in Unmasked THEN row'[m].subject = Scanner
                   ELSE row'[m].subject = row[m].subject /\ row'[m].masked = row[m].masked
                /\ IF m \in Back THEN row[m].scan # "none" /\ row'[m].scan = "pending" /\ row'[m].by = 0
                   ELSE row'[m].scan = row[m].scan /\ row'[m].by = row[m].by
<1> DEFINE gone == StaleVerdicts \cup StaleRefusals
<1>1. /\ row \in [Message -> Row] /\ Scanner \in Nat
      /\ gone \in SUBSET Message /\ Overturned \in SUBSET Message /\ Unmasked \in SUBSET Message
      /\ Back = gone \cup Overturned
  BY RowType, Releases DEF StaleVerdicts, StaleRefusals, Overturned, Unmasked, Stale, Back
<1>2. /\ Cleared \in [Message -> Row]
      /\ \A m \in Message : Cleared[m] = IF m \in gone THEN Requeued(row[m]) ELSE row[m]
  BY <1>1, RequeueFacts DEF Cleared
<1>3. StoreRemasked = [m \in Message |-> IF m \in Unmasked THEN Remasked(Cleared[m], m) ELSE Cleared[m]]
  BY DEF StoreRemasked, Each
<1>4. StoreRemasked \in [Message -> Row] BY <1>2, <1>3, RowFacts
<1>5. /\ row' \in [Message -> Row]
      /\ \A m \in Message : row'[m] = IF m \in Overturned THEN Requeued(StoreRemasked[m]) ELSE StoreRemasked[m]
  BY <1>4, RequeueFacts DEF Reopen
<1>6. ASSUME NEW m \in Message
      PROVE  /\ IF m \in Unmasked THEN row'[m].subject = Scanner
                ELSE row'[m].subject = row[m].subject /\ row'[m].masked = row[m].masked
             /\ m \in Back => row'[m].scan = "pending" /\ row'[m].by = 0
             /\ m \notin Back => row'[m].scan = row[m].scan /\ row'[m].by = row[m].by
  <2>1. row[m] \in Row /\ Cleared[m] \in Row /\ StoreRemasked[m] \in Row BY <1>1, <1>2, <1>4
  <2>2. /\ Cleared[m].subject = row[m].subject /\ Cleared[m].masked = row[m].masked
        /\ m \in gone => Cleared[m].scan = "pending" /\ Cleared[m].by = 0
        /\ m \notin gone => Cleared[m].scan = row[m].scan /\ Cleared[m].by = row[m].by
    BY <1>2, <2>1 DEF Requeued, Row
  <2>3. /\ IF m \in Unmasked THEN StoreRemasked[m].subject = Scanner
           ELSE StoreRemasked[m].subject = row[m].subject /\ StoreRemasked[m].masked = row[m].masked
        /\ StoreRemasked[m].scan = Cleared[m].scan /\ StoreRemasked[m].by = Cleared[m].by
    BY <1>3, <2>1, <2>2 DEF Remasked, Row
  <2>4. /\ row'[m].subject = StoreRemasked[m].subject /\ row'[m].masked = StoreRemasked[m].masked
        /\ m \in Overturned => row'[m].scan = "pending" /\ row'[m].by = 0
        /\ m \notin Overturned => row'[m].scan = StoreRemasked[m].scan /\ row'[m].by = StoreRemasked[m].by
    BY <1>5, <2>1 DEF Requeued, Row
  <2>5. QED BY <1>1, <2>2, <2>3, <2>4
<1>7. ASSUME NEW m \in Back PROVE row[m].scan # "none"
  <2>1. CASE m \in gone BY <2>1 DEF StaleVerdicts, StaleRefusals
  <2>2. CASE m \in Overturned \ gone
    <3>1. m \in Message /\ StoreRemasked[m].scan = "skipped_gate" BY <2>2 DEF Overturned
    <3>2. row[m].scan = StoreRemasked[m].scan BY <1>1, <1>2, <1>3, <2>2, <3>1 DEF Remasked, Row
    <3>3. QED BY <3>1, <3>2
  <2>3. QED BY <1>1, <2>1, <2>2
<1>8. QED BY <1>1, <1>5, <1>6, <1>7

LEMMA ApplyRow ==
    ASSUME TypeOK, NEW m \in Message, Apply(m)
    PROVE  /\ row' \in [Message -> Row]
           /\ \A n \in Message \ {m} : row'[n] = row[n]
           /\ row'[m] = IF mail[m] = "gone" THEN NoRow ELSE IF row[m].scan = "none" THEN Added(m) ELSE row[m]
BY RowType, RowFacts DEF Apply

\* The rows a comparison, the other requeuing and a tick's comparison return to waiting.
LEMMA RequeueRow ==
    ASSUME TypeOK, NEW ms, row' = Requeue(row, ms)
    PROVE  /\ row' \in [Message -> Row]
           /\ \A m \in Message :
                /\ row'[m].subject = row[m].subject /\ row'[m].masked = row[m].masked
                /\ m \in ms => row'[m].scan = "pending" /\ row'[m].by = 0
                /\ m \notin ms => row'[m] = row[m]
<1>1. row \in [Message -> Row] BY RowType
<1>2. /\ row' \in [Message -> Row]
      /\ \A m \in Message : row'[m] = IF m \in ms THEN Requeued(row[m]) ELSE row[m]
  BY <1>1, RequeueFacts
<1>3. ASSUME NEW r \in Row
      PROVE  /\ Requeued(r).subject = r.subject /\ Requeued(r).masked = r.masked
             /\ Requeued(r).scan = "pending" /\ Requeued(r).by = 0
  BY DEF Requeued, Row
<1>4. QED BY <1>1, <1>2, <1>3

-----------------------------------------------------------------------------
\* The type invariant, with what a read holds.

LEMMA InitType == Init => TypeOK /\ ReadInv
<1> SUFFICES ASSUME Init PROVE TypeOK /\ ReadInv OBVIOUS
<1>1. row \in [Message -> [scan: ScanState, by: Nat, subject: Nat, masked: BOOLEAN]]
  BY DEF Init, NoRow, ScanState
<1>2. /\ {hits, lost, unseen} \subseteq [Sender -> Nat] /\ counted \in [Sender -> Nat \cup {NotYet}]
      /\ meanwhile \in [Sender -> [flagged: Nat, lost: Nat]]
  BY DEF Init, NoCount, Nothing
<1>3. /\ listing \in [run: RunState, token: Message \cup {Top, End}]
      /\ walk \in [run: RunState, after: Message \cup {Top}]
      /\ list \in [found: SUBSET Message, next: Message \cup {Top, End}]
  BY DEF Init, RunState, NoList
<1>4. mail \in [Message -> {"coming", "held", "gone"}] /\ told = mail BY DEF Init
<1>5. page = <<>> /\ tpage = <<>> /\ job = "idle" /\ tick = "idle" BY DEF Init
<1>6. page \in Seq(Input) /\ tpage \in Seq(Input) /\ Len(page) = 0 /\ Len(tpage) = 0 BY <1>5
<1>7. TypeOK
  <2>1. stops \in 0..MaxStops /\ fails \in 0..MaxFails /\ edits \in 0..MaxEdits BY BoundAssumption DEF Init
  <2>2. QED BY <1>1, <1>2, <1>3, <1>4, <1>5, <1>6, <2>1 DEF Init, TypeOK
<1>8. ReadInv BY <1>5, <1>6 DEF ReadInv, Distinct
<1>9. QED BY <1>7, <1>8

\* The parts of it that only one of the jobs, the tick and the rest change.
RowPart ==
    /\ row \in [Message -> Row] /\ hits \in [Sender -> Nat] /\ lost \in [Sender -> Nat]
    /\ unseen \in [Sender -> Nat] /\ meanwhile \in [Sender -> [flagged: Nat, lost: Nat]]
    /\ due \subseteq Message
MailPart == {mail, told} \subseteq [Message -> {"coming", "held", "gone"}]
PassPart ==
    /\ {first, second, restart} \subseteq BOOLEAN
    /\ listing \in [run: RunState, token: Message \cup {Top, End}]
    /\ walk \in [run: RunState, after: Message \cup {Top}]
JobPart ==
    /\ {started, resumed} \subseteq BOOLEAN /\ counted \in [Sender -> Nat \cup {NotYet}]
    /\ job \in {"idle", "opening"} \cup FirstAt \cup SecondAt
    /\ list \in [found: SUBSET Message, next: Message \cup {Top, End}]
    /\ compared \subseteq Sender /\ page \in Seq(Input)
    /\ Distinct(page) /\ (job = "scanning" => page # <<>>)
TickPart ==
    /\ scans \in BOOLEAN /\ {after, tafter} \subseteq Message \cup {Top} /\ tpolicy \subseteq Sender
    /\ tick \in {"idle", "changes", "delisting", "reading", "scanning", "ending"}
    /\ decided \in Nat /\ tpage \in Seq(Input)
    /\ Distinct(tpage) /\ (tick = "scanning" => tpage # <<>>)
ConfigPart ==
    /\ policy \subseteq Sender /\ release \in Release
    /\ stops \in 0..MaxStops /\ fails \in 0..MaxFails /\ edits \in 0..MaxEdits

LEMMA Parts == TypeOK /\ ReadInv <=> RowPart /\ MailPart /\ PassPart /\ JobPart /\ TickPart /\ ConfigPart
BY DEF TypeOK, ReadInv, RowPart, MailPart, PassPart, JobPart, TickPart, ConfigPart, Row

LEMMA PartsNext ==
    TypeOK' /\ ReadInv' <=> RowPart' /\ MailPart' /\ PassPart' /\ JobPart' /\ TickPart' /\ ConfigPart'
BY DEF TypeOK, ReadInv, RowPart, MailPart, PassPart, JobPart, TickPart, ConfigPart, Row

LEMMA NewHitsType ==
    ASSUME NEW n \in Nat, NEW es, NEW out, NEW s PROVE NewHits(es, out, n, s) \in Nat
<1> DEFINE I == {i \in 1..n : SenderOf[es[i].id] = s /\ out[i] = "flagged"}
<1>1. IsFiniteSet(1..n) BY FS_Interval
<1>2. I \in SUBSET (1..n) OBVIOUS
<1>3. IsFiniteSet(I) /\ Cardinality(I) \in Nat BY <1>1, <1>2, FS_Subset, FS_CardinalityType
<1>4. QED BY <1>3 DEF NewHits

LEMMA DecideType ==
    ASSUME TypeOK, NEW es \in Seq(Input), Distinct(es), NEW n \in 0..Len(es),
           NEW restricted, NEW absent, NEW out, out = Outcomes(restricted, es, absent),
           Waited(es, out, n), Decide(es, out, n)
    PROVE  row' \in [Message -> Row] /\ hits' \in [Sender -> Nat]
<1>1. row' \in [Message -> Row] BY DecideFacts
<1>2. \A s \in Sender : NewHits(es, out, n, s) \in Nat BY NewHitsType, ReadFacts
<1>3. hits \in [Sender -> Nat] BY RowType
<1>4. hits' = [s \in Sender |-> hits[s] + NewHits(es, out, n, s)] BY DEF Decide
<1>5. hits' \in [Sender -> Nat] BY <1>2, <1>3, <1>4
<1>6. QED BY <1>1, <1>5

LEMMA NothingCounted ==
    NoCount \in [Sender -> Nat \cup {NotYet}] /\ Nothing \in [Sender -> [flagged: Nat, lost: Nat]]
BY DEF NoCount, Nothing

LEMMA JobType == TypeOK /\ ReadInv /\ JobStep /\ fails' \in 0..MaxFails => TypeOK' /\ ReadInv'
<1> SUFFICES ASSUME TypeOK, ReadInv, JobStep, fails' \in 0..MaxFails
             PROVE  RowPart' /\ MailPart' /\ PassPart' /\ JobPart' /\ TickPart' /\ ConfigPart'
  BY PartsNext
<1>1. RowPart /\ MailPart /\ PassPart /\ JobPart /\ TickPart /\ ConfigPart BY Parts
<1>2. UNCHANGED JobKeeps
  BY DEF JobStep, JobStart, Recount, Reopen, FirstOpen, FetchPage, RefuseToken, CommitPage, Refetch, FirstFinish,
         SecondOpen, Compare, RequeueSkips, ReadPage, DecidePage, SecondFinish, JobFail, RunFails
<1>3. MailPart' /\ TickPart' /\ ConfigPart'
  BY <1>1, <1>2 DEF JobKeeps, mailbox, tickVars, MailPart, TickPart, ConfigPart, Distinct
<1> SUFFICES RowPart' /\ PassPart' /\ JobPart' BY <1>3
<1>4. Distinct(<<>>) /\ <<>> \in Seq(Input) BY DEF Distinct
<1>5. ASSUME RunFails PROVE RowPart' /\ PassPart' /\ JobPart'
  <2>1. RowPart' BY <1>1, <1>5, NothingCounted DEF RunFails, RowPart
  <2>2. PassPart' BY <1>1, <1>5 DEF RunFails, PassPart, RunState
  <2>3. JobPart' BY <1>1, <1>4, <1>5, NothingCounted DEF RunFails, JobPart, NoList
  <2>4. QED BY <2>1, <2>2, <2>3
<1>6. CASE JobStart
  BY <1>1, <1>6 DEF JobStart, passes, hand1, hand2, tally, RowPart, PassPart, opening, JobPart, Distinct, FirstAt
<1>6a. ASSUME NEW s \in Sender PROVE Cardinality(FlaggedIn(Cleared, s)) \in Nat
  <2>1. FlaggedIn(Cleared, s) \in SUBSET Message BY DEF FlaggedIn, From
  <2>2. QED BY <2>1, Cardinal
<1>6b. ASSUME NEW s \in Sender, Recount(s) PROVE RowPart' /\ PassPart' /\ JobPart'
  <2>1. RowPart' /\ PassPart' BY <1>1, <1>6b DEF Recount, passes, tally, RowPart, PassPart
  <2>2. counted' \in [Sender -> Nat \cup {NotYet}] BY <1>1, <1>6a, <1>6b DEF Recount, JobPart
  <2>3. QED BY <1>1, <1>6b, <2>1, <2>2 DEF Recount, hand1, hand2, JobPart, Distinct
<1>7. CASE Reopen
  <2>1. row' \in [Message -> Row] /\ Back \in SUBSET Message BY <1>7, ReopenRow
  <2>2. due' = due \cup Back /\ first' = first BY <1>7 DEF Reopen, Back
  <2>3. hits' \in [Sender -> Nat]
    <3>1. \A s \in StaleSenders : s \in Sender => counted[s] \in Nat
      BY <1>1, <1>7 DEF Reopen, JobPart
    <3>2. hits' = Recounted BY <1>7 DEF Reopen
    <3>3. QED BY <1>1, <3>1, <3>2 DEF Recounted, RowPart
  <2>4. /\ {lost', unseen'} \subseteq [Sender -> Nat] /\ counted' \in [Sender -> Nat \cup {NotYet}]
        /\ meanwhile' \in [Sender -> [flagged: Nat, lost: Nat]]
    BY <1>1, <1>7 DEF Reopen, RowPart, NoCount, Nothing
  <2>5. PassPart'
    <3>1. UNCHANGED <<first, listing, walk>> /\ {second', restart'} \subseteq BOOLEAN
      BY <1>1, <1>7 DEF Reopen, PassPart
    <3>2. QED BY <1>1, <3>1 DEF PassPart
  <2>6. JobPart' BY <1>1, <1>7, <2>4 DEF Reopen, JobPart, hand1, hand2, Distinct, FirstAt
  <2>7. QED BY <1>1, <2>1, <2>2, <2>3, <2>4, <2>5, <2>6 DEF tally, RowPart
<1>8. CASE FirstOpen
  <2>1. RowPart' BY <1>1, <1>8 DEF FirstOpen, tally, RowPart
  <2>2. \A t \in Message \cup {Top, End} :
          [run |-> "running", token |-> t] \in [run: RunState, token: Message \cup {Top, End}]
    BY DEF RunState
  <2>3. listing.token \in Message \cup {Top, End} BY <1>1 DEF PassPart
  <2>4. /\ first' \in BOOLEAN /\ UNCHANGED <<second, restart, walk>>
        /\ listing' = listing \/ \E t \in {Top, listing.token} : listing' = [run |-> "running", token |-> t]
    BY <1>1, <1>8 DEF FirstOpen, PassPart
  <2>5. PassPart' BY <1>1, <2>2, <2>3, <2>4 DEF PassPart
  <2>6. JobPart' BY <1>1, <1>8 DEF FirstOpen, opening, JobPart, hand2, Distinct, FirstAt, SecondAt
  <2>7. QED BY <2>1, <2>5, <2>6
<1>9. ASSUME NEW token \in Message \cup {Top, End}, NEW l \in Fetch(token)
      PROVE  l \in [found: SUBSET Message, next: Message \cup {Top, End}]
  <2>1. PICK s \in Newest(Held(token), ListSize) :
          l = [found |-> Members(s), next |-> IF Members(s) = Held(token) THEN End ELSE s[Len(s)]]
    BY DEF Fetch
  <2>2. Held(token) \in SUBSET Message /\ ListSize \in Nat \ {0} BY SizeAssumption DEF Held, Older
  <2>3. /\ s = <<>> <=> Held(token) = {}
        /\ s \in Seq(Held(token)) /\ Members(s) \in SUBSET Message
    BY <2>2, LeadingFacts
  <2>4. CASE Members(s) = Held(token) BY <2>1, <2>3, <2>4
  <2>5. CASE Members(s) # Held(token)
    <3>1. s # <<>> BY <2>3, <2>5 DEF Members
    <3>2. s[Len(s)] \in Message BY <2>2, <3>1, NewestFirst
    <3>3. QED BY <2>1, <2>3, <2>5, <3>2
  <2>6. QED BY <2>4, <2>5
<1>10. CASE FetchPage
  <2>1. list' \in [found: SUBSET Message, next: Message \cup {Top, End}]
    BY <1>1, <1>9, <1>10 DEF FetchPage, PassPart
  <2>2. QED BY <1>1, <1>10, <2>1 DEF FetchPage, passes, hand2, tally, RowPart, PassPart, opening, JobPart, Distinct, FirstAt
<1>11. CASE RefuseToken
  <2>1. list' \in [found: SUBSET Message, next: Message \cup {Top, End}]
    BY <1>9, <1>11 DEF RefuseToken
  <2>2. QED BY <1>1, <1>11, <2>1 DEF RefuseToken, passes, hand2, tally, RowPart, PassPart, opening, JobPart, Distinct, FirstAt
<1>12. CASE CommitPage
  <2>1. row' \in [Message -> Row] BY <1>12, CommitRow
  <2>2. RowPart' BY <1>1, <1>12, <2>1 DEF CommitPage, tally, RowPart
  <2>3. PassPart' BY <1>1, <1>12 DEF CommitPage, PassPart, opening, JobPart
  <2>4. JobPart' BY <1>1, <1>12 DEF CommitPage, opening, JobPart, hand2, Distinct, FirstAt, NoList
  <2>5. QED BY <2>2, <2>3, <2>4
<1>13. CASE Refetch
  <2>1. row' \in [Message -> Row] BY <1>13, RefetchRow
  <2>2. QED BY <1>1, <1>13, <2>1 DEF Refetch, passes, hand1, hand2, tally, RowPart, PassPart, opening, JobPart, Distinct
<1>14. CASE FirstFinish
  <2>1. PassPart' BY <1>1, <1>14 DEF FirstFinish, PassPart, RunState
  <2>2. QED BY <1>1, <1>14, <2>1 DEF FirstFinish, hand2, tally, RowPart, opening, JobPart, Distinct, SecondAt
<1>15. CASE SecondOpen
  <2>1. Waiting \subseteq Message BY DEF Waiting
  <2>2. RowPart' BY <1>1, <1>15, <2>1 DEF SecondOpen, tally, RowPart
  <2>3. \A m \in Message \cup {Top} :
          [run |-> "running", after |-> m] \in [run: RunState, after: Message \cup {Top}]
    BY DEF RunState
  <2>4. walk.after \in Message \cup {Top} BY <1>1 DEF PassPart
  <2>5. /\ restart' \in BOOLEAN /\ UNCHANGED <<first, second, listing>>
        /\ walk' = walk \/ \E m \in {Top, walk.after} : walk' = [run |-> "running", after |-> m]
    BY <1>1, <1>15 DEF SecondOpen, PassPart
  <2>6. PassPart' BY <1>1, <2>3, <2>4, <2>5 DEF PassPart
  <2>7. JobPart' BY <1>1, <1>15 DEF SecondOpen, opening, JobPart, hand1, hand2, Distinct, SecondAt
  <2>8. QED BY <2>2, <2>6, <2>7
<1>16. CASE Compare
  <2>1. row' \in [Message -> Row] BY <1>16, RequeueRow DEF Compare
  <2>2. Delisted(policy) \subseteq Message BY DEF Delisted
  <2>3. RowPart' BY <1>1, <1>16, <2>1, <2>2 DEF Compare, tally, RowPart
  <2>4. PassPart'
    <3>1. walk' \in [run: RunState, after: Message \cup {Top}] BY <1>1, <1>16 DEF Compare, PassPart
    <3>2. QED BY <1>1, <1>16, <3>1 DEF Compare, PassPart
  <2>5. JobPart' BY <1>1, <1>16 DEF Compare, opening, JobPart, ConfigPart, hand1, Distinct, SecondAt
  <2>6. QED BY <2>3, <2>4, <2>5
<1>17. CASE RequeueSkips
  <2>1. row' \in [Message -> Row] BY <1>17, RequeueRow DEF RequeueSkips
  <2>2. QED BY <1>1, <1>17, <2>1 DEF RequeueSkips, passes, hand1, hand2, tally, RowPart, PassPart, opening, JobPart, Distinct, SecondAt
<1>18. CASE ReadPage
  <2> DEFINE ms == Older(Waiting, walk.after)
  <2>1. ms \in SUBSET Message /\ PageSize \in Nat \ {0} BY SizeAssumption DEF Older, Waiting
  <2>2. PICK s \in Newest(ms, PageSize) : page' = Read(s) BY <1>18 DEF ReadPage
  <2>3. page' \in Seq(Input) /\ Distinct(page') BY <2>1, <2>2, ReadResult
  <2>4. job' = IF page' = <<>> THEN "ending" ELSE "scanning" BY <1>18 DEF ReadPage
  <2>5. JobPart' BY <1>1, <1>18, <2>3, <2>4 DEF ReadPage, hand1, opening, JobPart, SecondAt, Distinct
  <2>6. QED BY <1>1, <1>18, <2>5 DEF ReadPage, passes, tally, RowPart, PassPart
<1>19. ASSUME NEW absent \in SUBSET Message, DecidePage(absent) PROVE RowPart' /\ PassPart' /\ JobPart'
  <2> DEFINE out == Outcomes(compared, page, absent)
  <2>1. CASE RunFails BY <1>5, <2>1
  <2>2. CASE ~RunFails
    <3>1. /\ Waited(page, out, Len(page)) /\ Decide(page, out, Len(page)) /\ job = "scanning"
          /\ walk' = [walk EXCEPT !.after = page[Len(page)].id] /\ due' = due \ Ids(page)
          /\ job' = "paging" /\ page' = <<>>
          /\ UNCHANGED <<first, second, restart, listing, opening, hand1, compared, tally, JobKeeps>>
      BY <1>19, <2>2 DEF DecidePage
    <3>2. page \in Seq(Input) /\ Distinct(page) /\ page # <<>> BY <1>1, <3>1 DEF opening, JobPart
    <3>3. Len(page) \in 0..Len(page) /\ Len(page) \in 1..Len(page) BY <3>2
    <3>4. page[Len(page)].id \in Message BY <3>2, <3>3, ReadFacts
    <3>5. row' \in [Message -> Row] /\ hits' \in [Sender -> Nat]
      BY <3>1, <3>2, <3>3, DecideType
    <3>6. RowPart' BY <1>1, <3>1, <3>5 DEF tally, RowPart
    <3>7. PassPart' BY <1>1, <3>1, <3>4 DEF PassPart
    <3>8. JobPart' BY <1>1, <1>4, <3>1 DEF opening, JobPart, hand1, SecondAt
    <3>9. QED BY <3>6, <3>7, <3>8
  <2>3. QED BY <2>1, <2>2
<1>20. CASE SecondFinish
  <2>1. PassPart' BY <1>1, <1>20 DEF SecondFinish, PassPart, RunState
  <2>2. QED BY <1>1, <1>4, <1>20, <2>1 DEF SecondFinish, hand1, tally, RowPart, opening, JobPart
<1>21. QED
  BY <1>5, <1>6, <1>7, <1>8, <1>10, <1>11, <1>12, <1>13, <1>14, <1>15, <1>16, <1>17, <1>18, <1>19, <1>20,
     <1>6b
  DEF JobStep, JobFail

\* A tick's messages decided, or the tick that fails.
TickDecides(n, out) ==
    /\ tick = "scanning" /\ Waited(tpage, out, n) /\ Decide(tpage, out, n)
    /\ due' = due \ {tpage[i].id : i \in {i \in 1..n : out[i] # "left"}}
    /\ tafter' = (IF n = 0 THEN tafter ELSE tpage[n].id) /\ after' = tafter'
    /\ tick' = (IF n < Len(tpage) THEN "ending" ELSE "reading")
    /\ decided' = decided + Len(tpage) /\ tpage' = <<>>
    /\ meanwhile' = [s \in Sender |-> IF counted[s] = NotYet THEN meanwhile[s]
                       ELSE [meanwhile[s] EXCEPT !.flagged = @ + NewHits(tpage, out, n, s)]]
    /\ UNCHANGED <<told, scans, tpolicy, lost, unseen, TickKeeps>>

LEMMA TickDecideCases ==
    ASSUME NEW n, NEW absent, TickDecide(n, absent)
    PROVE  TickDecides(n, Outcomes(tpolicy, tpage, absent)) \/ TickFails
BY DEF TickDecide, TickDecides

LEMMA TickType == TypeOK /\ ReadInv /\ TickStep /\ fails' \in 0..MaxFails => TypeOK' /\ ReadInv'
<1> SUFFICES ASSUME TypeOK, ReadInv, TickStep, fails' \in 0..MaxFails
             PROVE  RowPart' /\ MailPart' /\ PassPart' /\ JobPart' /\ TickPart' /\ ConfigPart'
  BY PartsNext
<1>1. RowPart /\ MailPart /\ PassPart /\ JobPart /\ TickPart /\ ConfigPart BY Parts
<1>2. UNCHANGED TickKeeps
  BY DEF TickStep, TickStart, Apply, TickDelist, TickRead, TickDecide, TickFinish, TickFail, TickFails
<1>3. PassPart' /\ JobPart' /\ ConfigPart'
  BY <1>1, <1>2 DEF TickKeeps, passes, jobVars, hand1, hand2, PassPart, opening, JobPart, ConfigPart, Distinct
<1>4. UNCHANGED mail BY <1>2 DEF TickKeeps
<1> SUFFICES RowPart' /\ told' \in [Message -> {"coming", "held", "gone"}] /\ TickPart'
  BY <1>1, <1>3, <1>4 DEF MailPart
<1>5. told \in [Message -> {"coming", "held", "gone"}] BY <1>1 DEF MailPart
<1>6. Distinct(<<>>) /\ <<>> \in Seq(Input) BY DEF Distinct
<1>7. CASE TickFails
  BY <1>1, <1>5, <1>6, <1>7 DEF TickFails, TickGone, tally, RowPart, TickPart
<1>8. CASE TickStart
  BY <1>1, <1>5, <1>8 DEF TickStart, tally, RowPart, TickPart, PassPart, ConfigPart, Distinct
<1>9. ASSUME NEW m \in Message, Apply(m)
      PROVE  RowPart' /\ told' \in [Message -> {"coming", "held", "gone"}] /\ TickPart'
  <2>1. row' \in [Message -> Row] BY <1>9, ApplyRow
  <2>2. told' \in [Message -> {"coming", "held", "gone"}] BY <1>1, <1>9 DEF Apply, MailPart
  <2>3. Cardinality(FlaggedIn(row, SenderOf[m]) \ Stored') \in Nat
    <3>1. FlaggedIn(row, SenderOf[m]) \ Stored' \in SUBSET Message BY DEF FlaggedIn, From
    <3>2. QED BY <3>1, Cardinal
  <2>4. hits' \in [Sender -> Nat] BY <1>1, <1>9 DEF Apply, tally, RowPart
  <2>5. /\ {lost', unseen'} \subseteq [Sender -> Nat]
        /\ meanwhile' \in [Sender -> [flagged: Nat, lost: Nat]]
    <3> DEFINE more == Cardinality(FlaggedIn(row, SenderOf[m]) \ Stored')
    <3>1. /\ \/ lost' = [lost EXCEPT ![SenderOf[m]] = 0]
             \/ lost' = [lost EXCEPT ![SenderOf[m]] = @ + more]
          /\ unseen' = [unseen EXCEPT ![SenderOf[m]] = 0] \/ unseen' = unseen
          /\ meanwhile' = [meanwhile EXCEPT ![SenderOf[m]].lost = @ + more] \/ meanwhile' = meanwhile
      BY <1>1, <1>9 DEF Apply, RowPart
    <3>2. more \in Nat BY <2>3
    <3> HIDE DEF more
    <3>3. /\ lost \in [Sender -> Nat] /\ unseen \in [Sender -> Nat]
          /\ meanwhile \in [Sender -> [flagged: Nat, lost: Nat]]
      BY <1>1 DEF RowPart
    <3>4. QED BY <3>1, <3>2, <3>3
  <2>6. due' \subseteq Message BY <1>1, <1>9 DEF Apply, tally, RowPart
  <2>7. TickPart' BY <1>1, <1>9 DEF Apply, TickPart, Distinct
  <2>8. QED BY <2>1, <2>2, <2>4, <2>5, <2>6, <2>7 DEF tally, RowPart
<1>10. CASE TickDelist
  <2>1. row' \in [Message -> Row] BY <1>10, RequeueRow DEF TickDelist
  <2>2. QED BY <1>1, <1>5, <1>10, <2>1 DEF TickDelist, tally, RowPart, TickPart, Distinct
<1>11. CASE TickRead
  <2> DEFINE ms == {m \in Waiting : m > tafter}
             n == IF TickSize < Decisions - decided THEN TickSize ELSE Decisions - decided
  <2>1. ms \in SUBSET Message BY DEF Waiting
  <2>2. n \in Nat \ {0} BY <1>1, <1>11, SizeAssumption DEF TickRead, TickPart
  <2>3. PICK s \in Lowest(ms, n) : tpage' = Read(s) BY <1>11 DEF TickRead
  <2>4. tpage' \in Seq(Input) /\ Distinct(tpage') BY <2>1, <2>2, <2>3, ReadResult
  <2>5. /\ tick' = IF tpage' = <<>> THEN "ending" ELSE "scanning"
        /\ tafter' = IF tpage' = <<>> THEN Top ELSE tafter
        /\ UNCHANGED <<told, row, hits, after, scans, tpolicy, decided, due, tally>>
    BY <1>11 DEF TickRead
  <2>6. QED BY <1>1, <1>5, <2>4, <2>5 DEF tally, RowPart, TickPart
<1>12. ASSUME NEW n \in 0..Len(tpage), NEW absent, TickDecide(n, absent)
       PROVE  RowPart' /\ told' \in [Message -> {"coming", "held", "gone"}] /\ TickPart'
  <2> DEFINE out == Outcomes(tpolicy, tpage, absent)
  <2>1. CASE TickFails BY <1>7, <2>1
  <2>2. CASE TickDecides(n, out)
    <3>1. tpage \in Seq(Input) /\ Distinct(tpage) /\ Len(tpage) \in Nat BY <1>1 DEF TickPart
    <3>2. Waited(tpage, out, n) /\ Decide(tpage, out, n) BY <2>2 DEF TickDecides
    <3>3. row' \in [Message -> Row] /\ hits' \in [Sender -> Nat] BY <3>1, <3>2, DecideType
    <3>4. RowPart'
      <4>1. \A s \in Sender : NewHits(tpage, out, n, s) \in Nat BY <3>1, NewHitsType
      <4> HIDE DEF out
      <4>2. meanwhile' \in [Sender -> [flagged: Nat, lost: Nat]]
        <5> DEFINE new(s) == IF counted[s] = NotYet THEN meanwhile[s]
                             ELSE [meanwhile[s] EXCEPT !.flagged = @ + NewHits(tpage, out, n, s)]
        <5>1. meanwhile' = [s \in Sender |-> new(s)] BY <2>2 DEF TickDecides
        <5>2. ASSUME NEW s \in Sender PROVE new(s) \in [flagged: Nat, lost: Nat]
          <6>1. NewHits(tpage, out, n, s) \in Nat BY <4>1
          <6>2. meanwhile[s] \in [flagged: Nat, lost: Nat] BY <1>1 DEF RowPart
          <6>3. QED BY <6>1, <6>2
        <5> HIDE DEF new
        <5>3. QED BY <5>1, <5>2
      <4>3. QED BY <1>1, <2>2, <3>3, <4>2 DEF TickDecides, RowPart
    <3>5. n # 0 => tpage[n].id \in Message
      <4>1. n # 0 => n \in 1..Len(tpage) BY <3>1
      <4>2. QED BY <3>1, <4>1, ReadFacts
    <3>6. tafter' \in Message \cup {Top} BY <1>1, <2>2, <3>5 DEF TickDecides, TickPart
    <3>7. TickPart' BY <1>1, <1>6, <2>2, <3>1, <3>6 DEF TickDecides, TickPart
    <3>8. QED BY <1>5, <2>2, <3>4, <3>7 DEF TickDecides
  <2>3. QED BY <1>12, <2>1, <2>2, TickDecideCases
<1>13. CASE TickFinish
  BY <1>1, <1>5, <1>6, <1>13 DEF TickFinish, TickGone, tally, RowPart, TickPart
<1>14. QED
  BY <1>7, <1>8, <1>9, <1>10, <1>11, <1>12, <1>13 DEF TickStep, TickFail

LEMMA OutsideType == TypeOK /\ ReadInv /\ Outside /\ fails' \in 0..MaxFails => TypeOK' /\ ReadInv'
<1> SUFFICES ASSUME TypeOK, ReadInv, Outside, fails' \in 0..MaxFails
             PROVE  RowPart' /\ MailPart' /\ PassPart' /\ JobPart' /\ TickPart' /\ ConfigPart'
  BY PartsNext
<1>1. RowPart /\ MailPart /\ PassPart /\ JobPart /\ TickPart /\ ConfigPart BY Parts
<1>2. Distinct(<<>>) /\ <<>> \in Seq(Input) BY DEF Distinct
<1>3. RowPart' /\ PassPart'
  BY <1>1, NothingCounted DEF Outside, Edit, Stop, Arrive, Leave, passes, tally, RowPart, PassPart
<1>4. MailPart'
  BY <1>1 DEF Outside, Edit, Stop, Arrive, Leave, mailbox, MailPart
<1>5. JobPart' /\ TickPart'
  <2>1. CASE Stop
    BY <1>1, <1>2, <2>1, NothingCounted DEF Stop, TickGone, JobPart, TickPart, NoList
  <2>2. CASE UNCHANGED <<jobVars, after, tickVars>>
    BY <1>1, <2>2 DEF jobVars, hand1, hand2, tickVars, opening, JobPart, TickPart, Distinct
  <2>3. QED BY <2>1, <2>2 DEF Outside, Edit, Arrive, Leave
<1>6. ConfigPart'
  <2>1. CASE Edit
    <3>1. edits \in 0..MaxEdits /\ MaxEdits \in Nat /\ stops \in 0..MaxStops BY <1>1, BoundAssumption DEF ConfigPart
    <3>2. QED BY <1>1, <2>1, <3>1 DEF Edit, ConfigPart
  <2>2. CASE Stop
    <3>1. edits \in 0..MaxEdits /\ MaxStops \in Nat /\ stops \in 0..MaxStops BY <1>1, BoundAssumption DEF ConfigPart
    <3>2. QED BY <1>1, <2>2, <3>1 DEF Stop, ConfigPart
  <2>3. CASE UNCHANGED <<policy, release, stops, edits>> BY <1>1, <2>3 DEF ConfigPart
  <2>4. QED BY <2>1, <2>2, <2>3 DEF Outside, Arrive, Leave
<1>7. QED BY <1>3, <1>4, <1>5, <1>6

LEMMA TypeStep == TypeOK /\ ReadInv /\ [Next]_vars => TypeOK' /\ ReadInv'
<1> SUFFICES ASSUME TypeOK, ReadInv, [Next]_vars PROVE TypeOK' /\ ReadInv' OBVIOUS
<1>1. CASE UNCHANGED vars
  BY <1>1 DEF vars, mailbox, passes, jobVars, opening, hand1, hand2, tickVars, tally, TypeOK, ReadInv, Distinct
<1>2. QED BY <1>1, Steps, JobType, TickType, OutsideType

-----------------------------------------------------------------------------
\* How a step changes a message's row.

\* Its subject is as it was or masked by the scanner.
Masked(m) ==
    \/ row'[m].subject = Scanner
    \/ row'[m].subject = row[m].subject /\ row'[m].masked = row[m].masked

\* It stays as decided, is removed with its message, waits, or waited and is decided.
Move(m) ==
    \/ /\ row'[m].scan = row[m].scan /\ row'[m].by = row[m].by
       /\ Masked(m)
    \/ row'[m].scan = "none" /\ mail[m] = "gone"
    \/ /\ row'[m].scan = "pending"
       /\ row'[m].subject = Scanner \/ (row[m].scan # "none" /\ Masked(m))
    \/ /\ row[m].scan = "pending" /\ row'[m].scan \notin {"none", "pending"}
       /\ row'[m].scan = "scanned" => row'[m].by = Scanner
       /\ row'[m].scan = "refused" => row'[m].by = release.bound
       /\ Masked(m)

LEMMA DecideMoves ==
    ASSUME TypeOK, NEW es \in Seq(Input), Distinct(es), NEW n \in 0..Len(es),
           NEW restricted, NEW absent, NEW out, out = Outcomes(restricted, es, absent),
           Waited(es, out, n), Decide(es, out, n)
    PROVE  \A m \in Message : Move(m)
<1> SUFFICES ASSUME NEW m \in Message PROVE Move(m) OBVIOUS
<1>1. CASE \A i \in 1..n : es[i].id = m => out[i] = "left"
  <2>1. row'[m] = row[m] BY <1>1, DecideFacts
  <2>2. QED BY <2>1 DEF Move, Masked
<1>2. CASE \E i \in 1..n : es[i].id = m /\ out[i] # "left"
  <2>1. PICK i \in 1..n : es[i].id = m /\ out[i] # "left" BY <1>2
  <2>2. DecidedAs(m, out[i]) BY <2>1, DecideFacts
  <2>3. /\ out[i] \in Outcome \ {"left"} /\ m \in Waiting /\ row[m] \in Row
        /\ row'[m] = [row[m] EXCEPT !.scan = StateOf(out[i]), !.by = StampOf(out[i])]
    BY <2>2, RowType DEF DecidedAs
  <2>4. /\ row'[m].scan = StateOf(out[i]) /\ row'[m].by = StampOf(out[i])
        /\ row'[m].subject = row[m].subject /\ row'[m].masked = row[m].masked /\ row[m].scan = "pending"
    BY <2>3 DEF Row, Waiting
  <2>5. /\ StateOf(out[i]) \notin {"none", "pending"}
        /\ StateOf(out[i]) = "scanned" => StampOf(out[i]) = Scanner
        /\ StateOf(out[i]) = "refused" => StampOf(out[i]) = release.bound
    BY <2>3 DEF StateOf, StampOf, Outcome
  <2>6. QED BY <2>4, <2>5 DEF Move, Masked
<1>3. QED BY <1>1, <1>2

LEMMA RequeueMoves ==
    ASSUME TypeOK, NEW ms, \A m \in ms : row[m].scan # "none", row' = Requeue(row, ms)
    PROVE  \A m \in Message : Move(m)
<1> SUFFICES ASSUME NEW m \in Message PROVE Move(m) OBVIOUS
<1>1. /\ row'[m].subject = row[m].subject /\ row'[m].masked = row[m].masked
      /\ m \in ms => row'[m].scan = "pending"
      /\ m \notin ms => row'[m] = row[m]
  BY RequeueRow
<1>2. QED BY <1>1 DEF Move, Masked

LEMMA RowMoves == TypeOK /\ ReadInv /\ [Next]_vars => \A m \in Message : Move(m)
<1> SUFFICES ASSUME TypeOK, ReadInv, [Next]_vars PROVE \A m \in Message : Move(m) OBVIOUS
<1>1. CASE UNCHANGED row BY <1>1 DEF Move, Masked
<1>2. CASE Reopen
  <2> SUFFICES ASSUME NEW m \in Message PROVE Move(m) OBVIOUS
  <2>1. /\ Masked(m)
        /\ m \in Back => row[m].scan # "none" /\ row'[m].scan = "pending"
        /\ m \notin Back => row'[m].scan = row[m].scan /\ row'[m].by = row[m].by
    BY <1>2, ReopenRow DEF Masked
  <2>2. QED BY <2>1 DEF Move, Masked
<1>3. CASE CommitPage
  <2> SUFFICES ASSUME NEW m \in Message PROVE Move(m) OBVIOUS
  <2>1. row'[m] = IF m \notin list.found THEN row[m]
                  ELSE IF row[m].scan = "none" THEN Added(m)
                  ELSE IF m \in Stale(row) THEN Remasked(row[m], m) ELSE row[m]
    BY <1>3, CommitRow
  <2>2. /\ Added(m).scan = "pending" /\ Added(m).subject = Scanner
        /\ Remasked(row[m], m).scan = row[m].scan /\ Remasked(row[m], m).by = row[m].by
        /\ Remasked(row[m], m).subject = Scanner
    <3>1. row[m] \in Row BY RowType
    <3>2. QED BY <3>1 DEF Added, Remasked, Row
  <2>3. QED BY <2>1, <2>2 DEF Move, Masked
<1>4. CASE Refetch BY <1>4, RefetchRow DEF Move, Masked
<1>5. CASE Compare
  <2>1. row' = Requeue(row, Delisted(policy)) /\ \A m \in Delisted(policy) : row[m].scan # "none"
    BY <1>5 DEF Compare, Delisted
  <2>2. QED BY <2>1, RequeueMoves
<1>6. CASE RequeueSkips
  <2> DEFINE ms == {m \in Message : row[m].scan = "skipped_gate" /\ row[m].masked}
  <2>1. row' = Requeue(row, ms) /\ \A m \in ms : row[m].scan # "none" BY <1>6 DEF RequeueSkips
  <2> HIDE DEF ms
  <2>2. QED BY <2>1, RequeueMoves
<1>7. ASSUME NEW absent \in SUBSET Message, DecidePage(absent) PROVE \A m \in Message : Move(m)
  <2>1. CASE RunFails BY <1>1, <2>1 DEF RunFails
  <2>2. CASE ~RunFails
    <3> DEFINE out == Outcomes(compared, page, absent)
    <3>1. page \in Seq(Input) /\ Distinct(page) /\ Len(page) \in 0..Len(page) BY DEF TypeOK, ReadInv
    <3>2. Waited(page, out, Len(page)) /\ Decide(page, out, Len(page)) BY <1>7, <2>2 DEF DecidePage
    <3>3. QED BY <3>1, <3>2, DecideMoves
  <2>3. QED BY <2>1, <2>2
<1>8. ASSUME NEW m \in Message, Apply(m) PROVE \A n \in Message : Move(n)
  <2>1. \A n \in Message \ {m} : row'[n] = row[n] BY <1>8, ApplyRow
  <2>2. row'[m] = IF mail[m] = "gone" THEN NoRow ELSE IF row[m].scan = "none" THEN Added(m) ELSE row[m]
    BY <1>8, ApplyRow
  <2>3. Added(m).scan = "pending" /\ Added(m).subject = Scanner /\ NoRow.scan = "none" BY DEF Added, NoRow
  <2>4. QED BY <2>1, <2>2, <2>3 DEF Move, Masked
<1>9. CASE TickDelist
  <2>1. row' = Requeue(row, Delisted(tpolicy)) /\ \A m \in Delisted(tpolicy) : row[m].scan # "none"
    BY <1>9 DEF TickDelist, Delisted
  <2>2. QED BY <2>1, RequeueMoves
<1>10. ASSUME NEW n \in 0..Len(tpage), NEW absent, TickDecide(n, absent) PROVE \A m \in Message : Move(m)
  <2> DEFINE out == Outcomes(tpolicy, tpage, absent)
  <2>1. CASE TickFails BY <1>1, <2>1 DEF TickFails
  <2>2. CASE TickDecides(n, out)
    <3>1. tpage \in Seq(Input) /\ Distinct(tpage) BY DEF TypeOK, ReadInv
    <3>2. Waited(tpage, out, n) /\ Decide(tpage, out, n) BY <2>2 DEF TickDecides
    <3>3. QED BY <3>1, <3>2, DecideMoves
  <2>3. QED BY <1>10, <2>1, <2>2, TickDecideCases
<1>11. UNCHANGED vars => UNCHANGED row BY DEF vars
<1>12. Outside => UNCHANGED row BY DEF Outside, Edit, Stop, Arrive, Leave
<1>13. JobStep => \/ UNCHANGED row \/ Reopen \/ CommitPage \/ Refetch \/ Compare \/ RequeueSkips
                  \/ \E absent \in SUBSET Message : DecidePage(absent)
  BY DEF JobStep, JobStart, Recount, FirstOpen, FetchPage, RefuseToken, FirstFinish, SecondOpen, ReadPage, SecondFinish,
         JobFail, RunFails
<1>14. TickStep => \/ UNCHANGED row \/ (\E m \in Message : Apply(m)) \/ TickDelist
                   \/ \E n \in 0..Len(tpage), absent \in SUBSET Message : TickDecide(n, absent)
  BY DEF TickStep, TickStart, TickRead, TickFinish, TickFail, TickFails
<1>15. QED
  BY Steps, <1>1, <1>2, <1>3, <1>4, <1>5, <1>6, <1>7, <1>8, <1>9, <1>10, <1>11, <1>12, <1>13, <1>14

\* What one workload has decided the other never decides over.
LEMMA DecidedStep ==
    TypeOK /\ ReadInv /\ [Next]_vars =>
      \A m \in Message :
        row[m].scan \notin {"none", "pending"} /\ row'[m].scan \notin {"none", "pending"}
          => <<row'[m].scan, row'[m].by>> = <<row[m].scan, row[m].by>>
BY RowMoves DEF Move

-----------------------------------------------------------------------------
\* Nothing another scanner produced is used.

LEMMA ScannerStep == TypeOK /\ ReadInv /\ ScannerCurrent /\ [Next]_vars => ScannerCurrent'
<1> SUFFICES ASSUME TypeOK, ReadInv, ScannerCurrent, [Next]_vars PROVE ScannerCurrent' OBVIOUS
<1>1. CASE Stop
  BY <1>1 DEF Stop, ScannerCurrent, SecondAt
<1>2. CASE ~Stop
  <2>1. release' = release
    BY <1>2, Steps
    DEF Outside, Edit, Arrive, Leave, JobStep, JobStart, Recount, Reopen, FirstOpen, FetchPage, RefuseToken, CommitPage,
        Refetch, FirstFinish, SecondOpen, Compare, RequeueSkips, ReadPage, DecidePage, SecondFinish, JobFail,
        RunFails, JobKeeps, TickStep, TickStart, Apply, TickDelist, TickRead, TickDecide, TickFinish, TickFail,
        TickFails, TickKeeps, vars
  <2>2. Scanner' = Scanner /\ release'.bound = release.bound BY <2>1 DEF Scanner
  <2>3. \A m \in Message : Move(m) BY RowMoves
  <2>4. Stale(row) = {} => Stale(row)' = {}
    BY <2>2, <2>3 DEF Move, Masked, Stale
  <2>5. UNION {StaleVerdicts, StaleRefusals, Unmasked} = {} => UNION {StaleVerdicts, StaleRefusals, Unmasked}' = {}
    BY <2>2, <2>3 DEF Move, Masked, StaleVerdicts, StaleRefusals, Unmasked, Stale
  <2>6. /\ started' = started \/ (Reopen /\ started')
        /\ job' \in SecondAt => \/ job \in SecondAt /\ first' = first
                                \/ first' /\ Stale(row) = {}
    <3>1. CASE UNCHANGED <<job, started, first>> BY <3>1
    <3>2. CASE JobStep
      BY <3>2
      DEF JobStep, JobStart, Recount, Reopen, FirstOpen, FetchPage, RefuseToken, CommitPage, Refetch, FirstFinish,
          SecondOpen, Compare, RequeueSkips, ReadPage, DecidePage, SecondFinish, JobFail, RunFails,
          JobKeeps, passes, opening, SecondAt
    <3>3. QED
      BY <1>2, <3>1, <3>2, Steps
      DEF Outside, Edit, Arrive, Leave, TickStep, TickStart, Apply, TickDelist, TickRead, TickDecide, TickFinish,
          TickFail, TickFails, TickKeeps, passes, jobVars, opening, vars
  <2>7. Reopen => UNION {StaleVerdicts, StaleRefusals, Unmasked}' = {}
    <3> SUFFICES ASSUME Reopen PROVE UNION {StaleVerdicts, StaleRefusals, Unmasked}' = {} OBVIOUS
    <3>1. \A m \in Message :
            /\ IF m \in Back THEN row[m].scan # "none" /\ row'[m].scan = "pending"
               ELSE row'[m].scan = row[m].scan /\ row'[m].by = row[m].by
            /\ IF m \in Unmasked THEN row'[m].subject = Scanner
               ELSE row'[m].subject = row[m].subject /\ row'[m].masked = row[m].masked
      BY ReopenRow
    <3>2. QED BY <2>2, <3>1 DEF Back, StaleVerdicts, StaleRefusals, Unmasked, Stale
  <2>8. job' \in SecondAt => Stale(row)' = {} /\ first'
    BY <2>4, <2>6 DEF ScannerCurrent
  <2>9. started' => UNION {StaleVerdicts, StaleRefusals, Unmasked}' = {}
    BY <2>5, <2>6, <2>7 DEF ScannerCurrent
  <2>10. QED BY <2>8, <2>9 DEF ScannerCurrent
<1>3. QED BY <1>1, <1>2

-----------------------------------------------------------------------------
\* The first pass ends with the mailbox in the index.

\* A fetched page holds what the provider holds from its token to the next one.
LEMMA FetchFacts ==
    ASSUME NEW token \in Message \cup {Top, End}, NEW l \in Fetch(token)
    PROVE  \A m \in Message : mail[m] = "held" /\ Covered(m, l.next) => m \in l.found \/ Covered(m, token)
<1>1. PICK s \in Newest(Held(token), ListSize) :
        l = [found |-> Members(s), next |-> IF Members(s) = Held(token) THEN End ELSE s[Len(s)]]
  BY DEF Fetch
<1>2. Held(token) \in SUBSET Message /\ ListSize \in Nat \ {0} BY SizeAssumption DEF Held, Older
<1>3. (s = <<>> <=> Held(token) = {}) /\ Members(s) \in SUBSET Held(token) BY <1>2, LeadingFacts
<1>4. SUFFICES ASSUME NEW m \in Message, mail[m] = "held", Covered(m, l.next), ~Covered(m, token)
               PROVE  m \in l.found
  OBVIOUS
<1>5. m \in Held(token)
  <2>1. token # End /\ (token \in Message => ~(SentAt[m] >= SentAt[token])) BY <1>4 DEF Covered
  <2>2. token # Top => SentAt[m] < SentAt[token] BY <2>1, MessageFacts
  <2>3. QED BY <1>4, <2>2 DEF Held, Older
<1>6. CASE Members(s) = Held(token) BY <1>1, <1>5, <1>6
<1>7. CASE Members(s) # Held(token)
  <2>1. s # <<>> BY <1>3, <1>7
  <2>2. /\ s[Len(s)] \in Held(token)
        /\ \A n \in Held(token) \ Members(s) : SentAt[n] < SentAt[s[Len(s)]]
    BY <1>2, <2>1, NewestFirst
  <2>3. l.next = s[Len(s)] /\ l.found = Members(s) BY <1>1, <1>7
  <2>4. s[Len(s)] \in Message BY <1>2, <2>2
  <2>5. SentAt[m] >= SentAt[s[Len(s)]] BY <1>4, <2>3, <2>4, MessageFacts DEF Covered
  <2>6. SentAt[m] \in Int /\ SentAt[s[Len(s)]] \in Int BY <2>4, MessageFacts
  <2>7. m \in Members(s)
    <3>1. SUFFICES ASSUME m \notin Members(s) PROVE FALSE OBVIOUS
    <3>2. SentAt[m] < SentAt[s[Len(s)]] BY <1>5, <2>2, <3>1
    <3>3. QED BY <2>5, <2>6, <3>2
  <2>8. QED BY <2>3, <2>7
<1>8. QED BY <1>6, <1>7

\* What is stored of the mailbox stays, and nothing of it held before comes.
LEMMA MailSteps ==
    ASSUME TypeOK, ReadInv, [Next]_vars
    PROVE  \A m \in Message :
             /\ mail'[m] = "held" => mail[m] = "held" \/ mail[m] = "coming"
             /\ mail[m] # "coming" => mail'[m] # "coming"
             /\ mail'[m] = "held" /\ m \in Stored => m \in Stored'
<1>1. mail' = mail \/ \E m \in Message : Arrive(m) \/ Leave(m)
  BY Steps
  DEF Outside, Edit, Stop, JobStep, JobStart, Recount, Reopen, FirstOpen, FetchPage, RefuseToken, CommitPage,
      Refetch, FirstFinish, SecondOpen, Compare, RequeueSkips, ReadPage, DecidePage, SecondFinish, JobFail,
      RunFails, JobKeeps, TickStep, TickStart, Apply, TickDelist, TickRead, TickDecide, TickFinish, TickFail,
      TickFails, TickKeeps, vars, mailbox
<1>2. SUFFICES ASSUME NEW m \in Message
               PROVE  /\ mail'[m] = "held" => mail[m] \in {"held", "coming"}
                      /\ mail[m] # "coming" => mail'[m] # "coming"
                      /\ mail'[m] = "held" /\ m \in Stored => m \in Stored'
  OBVIOUS
<1>3. mail \in [Message -> {"coming", "held", "gone"}] BY DEF TypeOK
<1>4. CASE mail' = mail
  <2>1. Move(m) BY RowMoves
  <2>2. mail[m] = "held" /\ row[m].scan # "none" => row'[m].scan # "none" BY <2>1 DEF Move
  <2>3. QED BY <1>3, <1>4, <2>2 DEF Stored
<1>5. ASSUME NEW n \in Message, Arrive(n) \/ Leave(n)
      PROVE  /\ mail'[m] = "held" => mail[m] \in {"held", "coming"}
             /\ mail[m] # "coming" => mail'[m] # "coming"
             /\ mail'[m] = "held" /\ m \in Stored => m \in Stored'
  <2>1. row' = row BY <1>5 DEF Arrive, Leave
  <2>2. Stored' = Stored BY <2>1 DEF Stored
  <2>3. QED BY <1>3, <1>5, <2>2 DEF Arrive, Leave
<1>6. QED BY <1>1, <1>4, <1>5

LEMMA ListingStep ==
    TypeOK /\ ReadInv /\ ListingInv /\ FirstPassComplete /\ [Next]_vars => ListingInv' /\ FirstPassComplete'
<1> SUFFICES ASSUME TypeOK, ReadInv, ListingInv, FirstPassComplete, [Next]_vars
             PROVE  ListingInv' /\ FirstPassComplete'
  OBVIOUS
<1>1. Old \subseteq Message BY MessageAssumption
<1>2. SUFFICES ASSUME NEW m \in Old
               PROVE  /\ mail'[m] # "coming"
                      /\ mail'[m] = "held" /\ Covered(m, listing'.token) => m \in Stored'
                      /\ job' = "listed" /\ mail'[m] = "held" /\ Covered(m, list'.next) => m \in list'.found \cup Stored'
                      /\ first' /\ mail'[m] = "held" => m \in Stored'
  BY DEF ListingInv, FirstPassComplete, Covered
<1>3. /\ mail[m] # "coming"
      /\ mail[m] = "held" /\ Covered(m, listing.token) => m \in Stored
      /\ job = "listed" /\ mail[m] = "held" /\ Covered(m, list.next) => m \in list.found \cup Stored
      /\ first /\ mail[m] = "held" => m \in Stored
  BY DEF ListingInv, FirstPassComplete
<1>4. /\ mail'[m] # "coming" /\ (mail'[m] = "held" => mail[m] = "held")
      /\ mail'[m] = "held" /\ m \in Stored => m \in Stored'
  BY <1>1, <1>3, MailSteps
<1>5. CASE UNCHANGED <<first, listing>> /\ (job' = "listed" => job = "listed" /\ list' = list)
  BY <1>3, <1>4, <1>5
<1>6. CASE FirstOpen
  <2>1. listing' = listing \/ listing'.token \in {listing.token, Top} BY <1>6 DEF FirstOpen
  <2>2. ~Covered(m, Top) BY MessageFacts DEF Covered, Top, End
  <2>3. job' # "listed" /\ (first' => first) BY <1>6 DEF FirstOpen
  <2>4. QED BY <1>3, <1>4, <2>1, <2>2, <2>3
<1>7. CASE FetchPage \/ RefuseToken
  <2>1. /\ first' = first /\ listing' = listing
        /\ \E token \in {listing.token, Top} : list' \in Fetch(token)
    BY <1>7 DEF FetchPage, RefuseToken, passes
  <2>2. PICK token \in {listing.token, Top} : list' \in Fetch(token) BY <2>1
  <2>3. token \in Message \cup {Top, End} BY DEF TypeOK
  <2>4. mail[m] = "held" /\ Covered(m, list'.next) => m \in list'.found \/ Covered(m, token)
    BY <1>1, <2>2, <2>3, FetchFacts
  <2>5. ~Covered(m, Top) BY MessageFacts DEF Covered, Top, End
  <2>6. QED BY <1>3, <1>4, <2>1, <2>4, <2>5
<1>8. CASE CommitPage
  <2>1. /\ job = "listed" /\ job' = "listing" /\ first' = first
        /\ listing'.token = list.next
    BY <1>8 DEF CommitPage, TypeOK
  <2>2. m \in list.found => m \in Stored'
    <3>1. row'[m] = IF m \notin list.found THEN row[m]
                    ELSE IF row[m].scan = "none" THEN Added(m)
                    ELSE IF m \in Stale(row) THEN Remasked(row[m], m) ELSE row[m]
      BY <1>1, <1>8, CommitRow
    <3>2. /\ Added(m).scan = "pending" /\ Remasked(row[m], m).scan = row[m].scan
      <4>1. row[m] \in Row BY <1>1, RowType
      <4>2. QED BY <4>1 DEF Added, Remasked, Row
    <3>3. QED BY <1>1, <3>1, <3>2 DEF Stored
  <2>3. QED BY <1>3, <1>4, <2>1, <2>2
<1>9. CASE FirstFinish
  <2>1. listing.token = End /\ listing'.token = End /\ job' # "listed" BY <1>9 DEF FirstFinish, TypeOK
  <2>2. Covered(m, End) BY DEF Covered
  <2>3. QED BY <1>3, <1>4, <2>1, <2>2
<1>10. CASE RunFails
  <2>1. listing'.token = listing.token /\ job' = "idle" /\ first' = first BY <1>10 DEF RunFails, TypeOK
  <2>2. QED BY <1>3, <1>4, <2>1
<1>11. JobStep =>
         \/ UNCHANGED <<first, listing>> /\ (job' = "listed" => job = "listed" /\ list' = list)
         \/ FirstOpen \/ FetchPage \/ RefuseToken \/ CommitPage \/ FirstFinish \/ RunFails
  BY DEF JobStep, JobStart, Recount, Reopen, Refetch, SecondOpen, Compare, RequeueSkips, ReadPage, DecidePage,
         SecondFinish, JobFail, passes, hand1
<1>12. Outside \/ TickStep \/ UNCHANGED vars =>
         UNCHANGED <<first, listing>> /\ (job' = "listed" => job = "listed" /\ list' = list)
  BY DEF Outside, Edit, Stop, Arrive, Leave, TickStep, TickStart, Apply, TickDelist, TickRead, TickDecide,
         TickFinish, TickFail, TickFails, TickKeeps, passes, jobVars, hand1, vars
<1>13. QED BY Steps, <1>5, <1>6, <1>7, <1>8, <1>9, <1>10, <1>11, <1>12

-----------------------------------------------------------------------------
\* The second pass comes by all that waited when it started over.

\* The steps of the tick and of the rest take from what the pass has to come by, and
\* leave where it is.
LEMMA WalkKept ==
    ASSUME TypeOK, TickStep \/ Outside \/ UNCHANGED vars
    PROVE  /\ due' \subseteq due /\ UNCHANGED passes
           /\ job' = "idle" \/ UNCHANGED <<job, page>>
<1>1. UNCHANGED passes /\ (job' = "idle" \/ UNCHANGED <<job, page>>)
  BY DEF Outside, Edit, Stop, Arrive, Leave, TickStep, TickStart, Apply, TickDelist, TickRead, TickDecide,
         TickFinish, TickFail, TickFails, TickKeeps, jobVars, hand2, vars
<1>2. due' \subseteq due
  BY DEF Outside, Edit, Stop, Arrive, Leave, TickStep, TickStart, Apply, TickDelist, TickRead, TickDecide,
         TickFinish, TickFail, TickFails, vars
<1>3. QED BY <1>1, <1>2

LEMMA RequeueWaits ==
    ASSUME TypeOK, NEW ms, row' = Requeue(row, ms)
    PROVE  Waiting \subseteq Waiting' /\ \A m \in Message : m \in ms => m \in Waiting'
BY RequeueRow DEF Waiting

LEMMA DueStep == TypeOK /\ ReadInv /\ due \subseteq Waiting /\ [Next]_vars => due' \subseteq Waiting'
<1> SUFFICES ASSUME TypeOK, ReadInv, due \subseteq Waiting, [Next]_vars PROVE due' \subseteq Waiting' OBVIOUS
<1>1. CASE UNCHANGED row /\ (due' \subseteq due \/ due' = Waiting)
  <2>1. Waiting' = Waiting BY <1>1 DEF Waiting
  <2>2. QED BY <1>1, <2>1
<1>2. CASE Reopen
  <2>1. \A m \in Message : IF m \in Back THEN row'[m].scan = "pending" ELSE row'[m].scan = row[m].scan
    BY <1>2, ReopenRow
  <2>2. due' = due \cup Back /\ Back \in SUBSET Message BY <1>2, ReopenRow DEF Reopen, Back
  <2>3. QED BY <2>1, <2>2 DEF Waiting
<1>3. CASE CommitPage
  <2>1. \A m \in Waiting : row'[m].scan = "pending"
    <3>1. SUFFICES ASSUME NEW m \in Waiting PROVE row'[m].scan = "pending" OBVIOUS
    <3>2. m \in Message /\ row[m] \in Row /\ row[m].scan = "pending" BY RowType DEF Waiting
    <3>3. Remasked(row[m], m).scan = "pending" BY <3>2 DEF Remasked, Row
    <3>4. QED BY <1>3, <3>2, <3>3, CommitRow
  <2>2. due' = due BY <1>3 DEF CommitPage
  <2>3. QED BY <2>1, <2>2 DEF Waiting
<1>4. CASE Refetch
  <2>1. due' = due BY <1>4 DEF Refetch
  <2>2. QED BY <1>4, <2>1, RefetchRow DEF Waiting
<1>5. CASE Compare
  <2>1. row' = Requeue(row, Delisted(policy)) /\ due' = due \cup Delisted(policy) BY <1>5 DEF Compare
  <2>2. Delisted(policy) \subseteq Message BY DEF Delisted
  <2>3. QED BY <2>1, <2>2, RequeueWaits
<1>6. CASE RequeueSkips
  <2>1. due' = due BY <1>6 DEF RequeueSkips
  <2>2. Waiting \subseteq Waiting' BY <1>6, RequeueWaits DEF RequeueSkips
  <2>3. QED BY <2>1, <2>2
<1>7. ASSUME NEW absent \in SUBSET Message, DecidePage(absent) PROVE due' \subseteq Waiting'
  <2>1. CASE RunFails BY <1>1, <2>1 DEF RunFails
  <2>2. CASE ~RunFails
    <3> DEFINE out == Outcomes(compared, page, absent)
    <3>1. page \in Seq(Input) /\ Distinct(page) /\ Len(page) \in 0..Len(page) BY DEF TypeOK, ReadInv
    <3>2. Waited(page, out, Len(page)) /\ Decide(page, out, Len(page)) /\ due' = due \ Ids(page)
      BY <1>7, <2>2 DEF DecidePage
    <3>3. DOMAIN page = 1..Len(page) BY <3>1
    <3>4. \A m \in Message : (\A i \in 1..Len(page) : page[i].id = m => out[i] = "left") => row'[m] = row[m]
      BY <3>1, <3>2, DecideFacts
    <3> HIDE DEF out
    <3>5. QED BY <3>2, <3>3, <3>4 DEF Ids, Waiting
  <2>3. QED BY <2>1, <2>2
<1>8. ASSUME NEW m \in Message, Apply(m) PROVE due' \subseteq Waiting'
  <2>1. \A n \in Message \ {m} : row'[n] = row[n] BY <1>8, ApplyRow
  <2>2. row'[m] = IF mail[m] = "gone" THEN NoRow ELSE IF row[m].scan = "none" THEN Added(m) ELSE row[m]
    BY <1>8, ApplyRow
  <2>3. NoRow.scan = "none" BY DEF NoRow
  <2>4. due' = due \cap Stored' BY <1>8 DEF Apply
  <2>5. QED BY <2>1, <2>2, <2>3, <2>4 DEF Waiting, Stored
<1>9. CASE TickDelist
  <2>1. due' = due BY <1>9 DEF TickDelist
  <2>2. Waiting \subseteq Waiting' BY <1>9, RequeueWaits DEF TickDelist
  <2>3. QED BY <2>1, <2>2
<1>10. ASSUME NEW n \in 0..Len(tpage), NEW absent, TickDecide(n, absent) PROVE due' \subseteq Waiting'
  <2> DEFINE out == Outcomes(tpolicy, tpage, absent)
  <2>1. CASE TickFails BY <1>1, <2>1 DEF TickFails
  <2>2. CASE TickDecides(n, out)
    <3>1. tpage \in Seq(Input) /\ Distinct(tpage) BY DEF TypeOK, ReadInv
    <3>2. /\ Waited(tpage, out, n) /\ Decide(tpage, out, n)
          /\ due' = due \ {tpage[i].id : i \in {i \in 1..n : out[i] # "left"}}
      BY <2>2 DEF TickDecides
    <3>3. \A m \in Message : (\A i \in 1..n : tpage[i].id = m => out[i] = "left") => row'[m] = row[m]
      BY <3>1, <3>2, DecideFacts
    <3> HIDE DEF out
    <3>4. QED BY <3>2, <3>3 DEF Waiting
  <2>3. QED BY <1>10, <2>1, <2>2, TickDecideCases
<1>11. Outside \/ UNCHANGED vars => UNCHANGED row /\ due' \subseteq due
  BY DEF Outside, Edit, Stop, Arrive, Leave, vars
<1>12. JobStep => \/ UNCHANGED row /\ (due' \subseteq due \/ due' = Waiting)
                  \/ Reopen \/ CommitPage \/ Refetch \/ Compare \/ RequeueSkips
                  \/ \E absent \in SUBSET Message : DecidePage(absent)
  BY DEF JobStep, JobStart, Recount, FirstOpen, FetchPage, RefuseToken, FirstFinish, SecondOpen, ReadPage, SecondFinish,
         JobFail, RunFails
<1>13. TickStep => \/ (UNCHANGED row /\ due' = due) \/ (\E m \in Message : Apply(m)) \/ TickDelist
                   \/ \E n \in 0..Len(tpage), absent \in SUBSET Message : TickDecide(n, absent)
  BY DEF TickStep, TickStart, TickRead, TickFinish, TickFail, TickFails
<1>14. QED
  BY Steps, <1>1, <1>2, <1>3, <1>4, <1>5, <1>6, <1>7, <1>8, <1>9, <1>10, <1>11, <1>12, <1>13

\* The walk's own clauses of WalkInv.
Ahead == walk.run \in {"running", "failed"} /\ ~restart => due \subseteq Older(Message, walk.after)
Marked == job \in SecondAt \ {"second"} => ~restart /\ walk.run = "running"
PastPage ==
    /\ job = "scanning" => \A m \in due \ Ids(page) : SentAt[m] < SentAt[page[Len(page)].id]
    /\ job = "ending" => due = {}

LEMMA AheadStep ==
    ASSUME TypeOK, ReadInv, WalkInv, [Next]_vars PROVE Ahead' /\ Marked' /\ PastPage'
<1>1. /\ Ahead /\ Marked /\ PastPage /\ due \subseteq Waiting BY DEF WalkInv, Ahead, Marked, PastPage
<1>2. walk.after \in Message \cup {Top} BY DEF TypeOK
<1>3. Waiting \in SUBSET Message /\ due \in SUBSET Message BY DEF Waiting, TypeOK
<1>4. CASE TickStep \/ Outside \/ UNCHANGED vars
  <2>1. /\ due' \subseteq due /\ UNCHANGED <<walk, restart>>
        /\ job' = "idle" \/ UNCHANGED <<job, page>>
    BY <1>4, WalkKept DEF passes
  <2>2. Ahead' BY <1>1, <2>1 DEF Ahead
  <2>3. Marked' BY <1>1, <2>1 DEF Marked, SecondAt
  <2>4. PastPage' BY <1>1, <2>1 DEF PastPage, Ids
  <2>5. QED BY <2>2, <2>3, <2>4
<1>5. ASSUME RunFails PROVE Ahead' /\ Marked' /\ PastPage'
  <2>1. /\ due' = due /\ restart' = restart /\ job' = "idle"
        /\ walk' = IF job \in SecondAt \ {"second"} THEN [walk EXCEPT !.run = "failed"] ELSE walk
    BY <1>5 DEF RunFails
  <2>2. /\ walk'.after = walk.after
        /\ walk'.run \in {"running", "failed"} => walk.run \in {"running", "failed"}
    BY <1>1, <2>1 DEF Marked, TypeOK
  <2>3. Ahead' BY <1>1, <2>1, <2>2 DEF Ahead, Older
  <2>4. QED BY <2>1, <2>3 DEF Marked, PastPage, SecondAt
<1>6. CASE UNCHANGED <<due, walk, restart>> /\ job' \notin SecondAt \ {"second"}
  BY <1>1, <1>6 DEF Ahead, Marked, PastPage, SecondAt
<1>7. CASE Reopen
  <2> DEFINE any == (Back \cup Unmasked # {}) \/ (Stale(StoreRemasked) # {})
  <2>1. /\ due' = due \cup Back /\ restart' = (restart \/ any) /\ walk' = walk /\ job' = "first"
    BY <1>7 DEF Reopen, Back
  <2>2. restart \in BOOLEAN /\ any \in BOOLEAN BY DEF TypeOK
  <2>3. ~any => Back = {} OBVIOUS
  <2> HIDE DEF any
  <2>4. Ahead' BY <1>1, <2>1, <2>2, <2>3 DEF Ahead
  <2>5. QED BY <2>1, <2>4 DEF Marked, PastPage, SecondAt
<1>8. CASE SecondOpen
  <2>1. CASE job' = "idle" /\ UNCHANGED <<restart, walk, due>>
    BY <1>6, <2>1 DEF SecondAt
  <2>2. CASE job' = "delisting"
    <3>1. PICK from : /\ from = IF walk.run \in {"running", "failed"} /\ ~restart THEN walk.after ELSE Top
                      /\ restart' = FALSE /\ walk' = [run |-> "running", after |-> from]
                      /\ due' = IF from = Top THEN Waiting ELSE due
      BY <1>8, <2>2 DEF SecondOpen
    <3>2. Older(Message, Top) = Message BY DEF Older
    <3>3. Ahead'
      <4>1. CASE from = Top BY <1>3, <3>1, <3>2, <4>1 DEF Ahead
      <4>2. CASE from # Top BY <1>1, <3>1, <4>2 DEF Ahead
      <4>3. QED BY <4>1, <4>2
    <3>4. QED BY <2>2, <3>1, <3>3 DEF Marked, PastPage
  <2>3. QED BY <1>8, <2>1, <2>2 DEF SecondOpen
<1>9. CASE Compare
  <2>1. /\ job \in SecondAt \ {"second"} /\ job' \in {"requeuing", "reading"} /\ restart' = restart
        /\ due' = due \cup Delisted(policy) /\ walk'.run = walk.run
        /\ walk'.after = IF Delisted(policy) = {} THEN walk.after ELSE Top
    BY <1>9 DEF Compare, SecondAt, TypeOK
  <2>2. Delisted(policy) \in SUBSET Message BY DEF Delisted
  <2>3. Older(Message, Top) = Message BY DEF Older
  <2>4. Ahead' BY <1>1, <1>3, <2>1, <2>2, <2>3 DEF Ahead
  <2>5. QED BY <1>1, <2>1, <2>4 DEF Marked, PastPage
<1>10. CASE RequeueSkips
  <2>1. /\ job = "requeuing" /\ job' = "paging" /\ UNCHANGED <<due, walk, restart>>
    BY <1>10 DEF RequeueSkips, passes
  <2>2. QED BY <1>1, <2>1 DEF Ahead, Marked, PastPage, SecondAt
<1>11. CASE ReadPage
  <2> DEFINE ms == Older(Waiting, walk.after)
  <2>1. ms \in SUBSET Message /\ PageSize \in Nat \ {0} BY <1>3, SizeAssumption DEF Older
  <2>2. PICK s \in Newest(ms, PageSize) : page' = Read(s) BY <1>11 DEF ReadPage
  <2>3. /\ Ids(page') = Members(s) /\ Len(page') = Len(s)
        /\ \A i \in 1..Len(s) : page'[i].id = s[i]
        /\ page' = <<>> <=> ms = {}
    <3>1. /\ Ids(Read(s)) = Members(s) /\ Len(Read(s)) = Len(s)
          /\ \A i \in 1..Len(s) : Read(s)[i].id = s[i]
          /\ Read(s) = <<>> <=> ms = {}
      <4> HIDE DEF ms
      <4>1. Ids(Read(s)) = Members(s) BY <2>1, <2>2, ReadResult
      <4>2. Len(Read(s)) = Len(s) BY <2>1, <2>2, ReadResult
      <4>3. Read(s) = <<>> <=> ms = {} BY <2>1, <2>2, ReadResult
      <4>4. \A i \in 1..Len(s) : Read(s)[i].id = s[i] BY <2>1, <2>2, ReadResult
      <4>5. QED BY <4>1, <4>2, <4>3, <4>4
    <3> HIDE DEF ms
    <3>2. QED BY <2>2, <3>1
  <2>4. /\ UNCHANGED <<due, walk, restart>> /\ job \in SecondAt \ {"second"}
        /\ job' = IF page' = <<>> THEN "ending" ELSE "scanning"
    BY <1>11 DEF ReadPage, passes, SecondAt
  <2>5. due \subseteq ms BY <1>1, <2>4 DEF Ahead, Marked, Older
  <2>6. Ahead' /\ Marked' BY <1>1, <2>4 DEF Ahead, Marked, SecondAt
  <2>7. CASE page' = <<>> BY <2>3, <2>4, <2>5, <2>6, <2>7 DEF PastPage
  <2>8. CASE page' # <<>>
    <3>1. s # <<>>
      <4>1. s = <<>> <=> ms = {} BY <2>1, <2>2, LeadingFacts
      <4>2. QED BY <2>3, <2>8, <4>1
    <3>2. /\ Len(s) \in 1..Len(s) /\ \A m \in ms \ Members(s) : SentAt[m] < SentAt[s[Len(s)]]
      BY <2>1, <2>2, <3>1, NewestFirst
    <3>3. page'[Len(page')].id = s[Len(s)] BY <2>3, <3>2
    <3>4. \A m \in due' \ Ids(page') : SentAt[m] < SentAt[page'[Len(page')].id]
      BY <2>3, <2>4, <2>5, <3>2, <3>3
    <3>5. Ids(page)' = Ids(page') BY DEF Ids
    <3>6. QED BY <2>4, <2>6, <2>8, <3>4, <3>5 DEF PastPage
  <2>9. QED BY <2>7, <2>8
<1>12. ASSUME NEW absent \in SUBSET Message, DecidePage(absent) PROVE Ahead' /\ Marked' /\ PastPage'
  <2>1. CASE RunFails BY <1>5, <2>1
  <2>2. CASE ~RunFails
    <3>1. /\ job = "scanning" /\ job' = "paging" /\ restart' = restart
          /\ walk' = [walk EXCEPT !.after = page[Len(page)].id]
          /\ due' = due \ Ids(page)
      BY <1>12, <2>2 DEF DecidePage
    <3>2. walk'.run = walk.run /\ walk'.after = page[Len(page)].id BY <3>1 DEF TypeOK
    <3>3. page[Len(page)].id \in Message
      <4>1. page \in Seq(Input) /\ page # <<>> BY <3>1 DEF TypeOK, ReadInv
      <4>2. Len(page) \in 1..Len(page) BY <4>1
      <4>3. QED BY <4>1, <4>2, ReadFacts
    <3>4. \A m \in due' : SentAt[m] < SentAt[walk'.after] BY <1>1, <3>1, <3>2 DEF PastPage
    <3>5. Ahead' BY <1>3, <3>1, <3>2, <3>3, <3>4, MessageFacts DEF Ahead, Older
    <3>6. QED BY <1>1, <3>1, <3>2, <3>5 DEF Marked, PastPage, SecondAt
  <2>3. QED BY <2>1, <2>2
<1>13. CASE SecondFinish
  <2>1. walk'.run = "succeeded" /\ job' = "idle" BY <1>13 DEF SecondFinish, TypeOK
  <2>2. QED BY <2>1 DEF Ahead, Marked, PastPage, SecondAt
<1>14. JobStep => \/ UNCHANGED <<due, walk, restart>> /\ job' \notin SecondAt \ {"second"}
                  \/ RunFails \/ Reopen \/ SecondOpen \/ Compare \/ RequeueSkips \/ ReadPage
                  \/ (\E absent \in SUBSET Message : DecidePage(absent)) \/ SecondFinish
  BY DEF JobStep, JobStart, Recount, FirstOpen, FetchPage, RefuseToken, CommitPage, Refetch, FirstFinish, JobFail,
         passes, SecondAt, FirstAt
<1>15. QED
  BY Steps, <1>4, <1>5, <1>6, <1>7, <1>8, <1>9, <1>10, <1>11, <1>12, <1>13, <1>14

LEMMA WalkStep == TypeOK /\ ReadInv /\ WalkInv /\ [Next]_vars => WalkInv'
<1> SUFFICES ASSUME TypeOK, ReadInv, WalkInv, [Next]_vars PROVE WalkInv' OBVIOUS
<1>1. due' \subseteq Waiting' BY DueStep DEF WalkInv
<1>2. QED BY <1>1, AheadStep DEF WalkInv, Ahead, Marked, PastPage

LEMMA EndStep == TypeOK /\ WalkInv /\ [Next]_vars => (second' /\ ~second => due = {})
<1> SUFFICES ASSUME TypeOK, WalkInv, [Next]_vars, second', ~second PROVE due = {} OBVIOUS
<1>1. UNCHANGED passes => FALSE BY DEF passes
<1>2. JobStep BY <1>1, Steps, WalkKept
<1>3. SecondFinish
  BY <1>1, <1>2
  DEF JobStep, JobStart, Recount, Reopen, FirstOpen, FetchPage, RefuseToken, CommitPage, Refetch, FirstFinish,
      SecondOpen, Compare, RequeueSkips, ReadPage, DecidePage, JobFail, RunFails, passes
<1>4. QED BY <1>3 DEF SecondFinish, WalkInv

-----------------------------------------------------------------------------
\* What a sender's hits are.

LEMMA FlaggedFacts ==
    ASSUME NEW rows, NEW s
    PROVE  /\ IsFiniteSet(FlaggedIn(rows, s)) /\ Cardinality(FlaggedIn(rows, s)) \in Nat
           /\ FlaggedIn(rows, s) \in SUBSET Message
           /\ IsFiniteSet(KeptIn(rows, s)) /\ Cardinality(KeptIn(rows, s)) \in Nat
           /\ KeptIn(rows, s) \in SUBSET FlaggedIn(rows, s)
<1>1. FlaggedIn(rows, s) \in SUBSET Message /\ KeptIn(rows, s) \in SUBSET FlaggedIn(rows, s)
  BY DEF FlaggedIn, From, KeptIn
<1>2. KeptIn(rows, s) \in SUBSET Message BY <1>1
<1>3. QED BY <1>1, <1>2, Cardinal

\* The verdicts of a sender's mail are the same, and so are the flagged of it.
LEMMA SameVerdicts ==
    ASSUME NEW rows, NEW s,
           \A m \in From(s) : /\ row'[m].scan = "scanned" <=> rows[m].scan = "scanned"
                              /\ rows[m].scan = "scanned" => row'[m].by = rows[m].by
    PROVE  FlaggedIn(row', s) = FlaggedIn(rows, s) /\ KeptIn(row', s) = KeptIn(rows, s)
BY DEF FlaggedIn, KeptIn

\* The rows the run-start step counts have the verdicts it keeps.
LEMMA ClearedFlagged ==
    ASSUME TypeOK, NEW s \in Sender PROVE FlaggedIn(Cleared, s) = KeptIn(row, s)
<1> DEFINE gone == StaleVerdicts \cup StaleRefusals
<1>1. row \in [Message -> Row] BY RowType
<1>2. \A m \in Message : Cleared[m] = IF m \in gone THEN Requeued(row[m]) ELSE row[m]
  BY <1>1, RequeueFacts DEF Cleared
<1>3. ASSUME NEW m \in Message
      PROVE  /\ Cleared[m].scan = "scanned" <=> row[m].scan = "scanned" /\ row[m].by = Scanner
             /\ Cleared[m].scan = "scanned" => Cleared[m].by = row[m].by
  <2>1. Requeued(row[m]).scan = "pending"
    <3>1. row[m] \in Row BY <1>1
    <3>2. QED BY <3>1 DEF Requeued, Row
  <2>2. m \in StaleRefusals => row[m].scan # "scanned" BY DEF StaleRefusals
  <2>3. m \in StaleVerdicts <=> row[m].scan = "scanned" /\ row[m].by # Scanner BY DEF StaleVerdicts
  <2>4. QED BY <1>2, <2>1, <2>2, <2>3
<1>4. QED BY <1>3 DEF FlaggedIn, KeptIn, From

\* And so have those it leaves.
LEMMA ReopenFlagged ==
    ASSUME TypeOK, Reopen, NEW s \in Sender PROVE FlaggedIn(row', s) = KeptIn(row, s)
<1> DEFINE gone == StaleVerdicts \cup StaleRefusals
<1>1. row \in [Message -> Row] BY RowType
<1>2. \A m \in Message : Cleared[m] = IF m \in gone THEN Requeued(row[m]) ELSE row[m]
  BY <1>1, RequeueFacts DEF Cleared
<1>3. ASSUME NEW m \in Message
      PROVE  /\ row'[m].scan = "scanned" <=> row[m].scan = "scanned" /\ row[m].by = Scanner
             /\ row'[m].scan = "scanned" => row'[m].by = row[m].by
  <2>1. IF m \in Back THEN row'[m].scan = "pending" ELSE row'[m].scan = row[m].scan /\ row'[m].by = row[m].by
    BY ReopenRow
  <2>2. m \in StaleRefusals => row[m].scan # "scanned" BY DEF StaleRefusals
  <2>3. m \in Overturned \ gone => row[m].scan # "scanned"
    <3>1. SUFFICES ASSUME m \in Overturned, m \notin gone PROVE row[m].scan # "scanned" OBVIOUS
    <3>2. StoreRemasked[m].scan = "skipped_gate" BY <3>1 DEF Overturned
    <3>3. StoreRemasked[m] = IF m \in Unmasked THEN Remasked(Cleared[m], m) ELSE Cleared[m]
      BY DEF StoreRemasked, Each
    <3>4. Cleared[m] = row[m] /\ row[m] \in Row BY <1>1, <1>2, <3>1
    <3>5. QED BY <3>2, <3>3, <3>4 DEF Remasked, Row
  <2>4. m \in StaleVerdicts <=> row[m].scan = "scanned" /\ row[m].by # Scanner BY DEF StaleVerdicts
  <2>5. QED BY <2>1, <2>2, <2>3, <2>4 DEF Back
<1>4. QED BY <1>3 DEF FlaggedIn, KeptIn, From

\* A decision adds as many flagged messages of a sender as it counts, the scanner's own.
LEMMA DecideHits ==
    ASSUME TypeOK, NEW es \in Seq(Input), Distinct(es), NEW n \in 0..Len(es),
           NEW restricted, NEW absent, NEW out, out = Outcomes(restricted, es, absent),
           Waited(es, out, n), Decide(es, out, n), NEW s \in Sender
    PROVE  /\ NewHits(es, out, n, s) \in Nat
           /\ hits'[s] = hits[s] + NewHits(es, out, n, s)
           /\ Cardinality(FlaggedIn(row', s)) = Cardinality(FlaggedIn(row, s)) + NewHits(es, out, n, s)
           /\ Cardinality(KeptIn(row', s)) = Cardinality(KeptIn(row, s)) + NewHits(es, out, n, s)
<1> DEFINE I == {i \in 1..n : SenderOf[es[i].id] = s /\ out[i] = "flagged"}
           New == {es[i].id : i \in I}
           f == [i \in I |-> es[i].id]
<1>1. /\ Len(es) \in Nat /\ n \in Nat /\ 1..n \subseteq 1..Len(es)
      /\ \A i \in 1..n : es[i].id \in Message
  <2>1. Len(es) \in Nat /\ \A i \in 1..Len(es) : es[i].id \in Message BY ReadFacts
  <2>2. n \in Nat /\ 1..n \subseteq 1..Len(es) BY <2>1
  <2>3. QED BY <2>1, <2>2
<1>2. IsFiniteSet(I) /\ Cardinality(I) \in Nat
  <2>1. IsFiniteSet(1..n) BY <1>1, FS_Interval
  <2>2. I \in SUBSET (1..n) OBVIOUS
  <2>3. QED BY <2>1, <2>2, FS_Subset, FS_CardinalityType
<1>3. IsFiniteSet(New) /\ Cardinality(New) = Cardinality(I)
  <2>1. f \in [I -> New] OBVIOUS
  <2>2. \A i, j \in I : f[i] = f[j] => i = j BY <1>1 DEF Distinct
  <2>3. \A t \in New : \E i \in I : f[i] = t OBVIOUS
  <2>4. f \in Bijection(I, New) BY <2>1, <2>2, <2>3 DEF Bijection, Injection, Surjection, IsInjective
  <2>5. ExistsBijection(I, New) BY <2>4 DEF ExistsBijection
  <2>6. QED BY <1>2, <2>5, FS_Bijection
<1>4. NewHits(es, out, n, s) = Cardinality(I) /\ hits'[s] = hits[s] + NewHits(es, out, n, s)
  BY DEF Decide, NewHits
<1>5. ASSUME NEW m \in Message
      PROVE  /\ m \in FlaggedIn(row', s) <=> m \in FlaggedIn(row, s) \/ m \in New
             /\ m \in New => m \notin FlaggedIn(row, s) /\ row'[m].by = Scanner
             /\ m \in FlaggedIn(row, s) => row'[m].by = row[m].by
  <2>1. CASE \A i \in 1..n : es[i].id = m => out[i] = "left"
    <3>1. row'[m] = row[m] BY <2>1, DecideFacts
    <3>2. m \notin New BY <2>1
    <3>3. QED BY <3>1, <3>2 DEF FlaggedIn
  <2>2. CASE \E i \in 1..n : es[i].id = m /\ out[i] # "left"
    <3>1. PICK i \in 1..n : es[i].id = m /\ out[i] # "left" BY <2>2
    <3>2. DecidedAs(m, out[i]) BY <3>1, DecideFacts
    <3>3. /\ out[i] \in Outcome \ {"left"} /\ row[m] \in Row /\ row[m].scan = "pending"
          /\ row'[m].scan = StateOf(out[i]) /\ row'[m].by = StampOf(out[i])
      BY <3>2, RowType DEF DecidedAs, Row, Waiting
    <3>4. m \notin FlaggedIn(row, s) BY <3>3 DEF FlaggedIn
    <3>5. /\ out[i] = "flagged" => <<Scanner, m>> \in Flags
          /\ out[i] = "clean" => <<Scanner, m>> \notin Flags
      BY <1>1, <3>1, OutcomeFacts
    <3>6. /\ row'[m].scan = "scanned" /\ <<row'[m].by, m>> \in Flags <=> out[i] = "flagged"
          /\ out[i] = "flagged" => row'[m].by = Scanner
      BY <3>3, <3>5 DEF StateOf, StampOf, Outcome
    <3>7. m \in New <=> out[i] = "flagged" /\ SenderOf[m] = s
      <4>1. \A j \in 1..n : es[j].id = m => j = i BY <1>1, <3>1 DEF Distinct
      <4>2. QED BY <3>1, <4>1
    <3>8. m \in FlaggedIn(row', s) <=> out[i] = "flagged" /\ SenderOf[m] = s BY <3>6 DEF FlaggedIn, From
    <3>9. QED BY <3>4, <3>6, <3>7, <3>8
  <2>3. QED BY <2>1, <2>2
<1>6. New \subseteq Message BY <1>1
<1> DEFINE k == NewHits(es, out, n, s)
<1>7. ASSUME NEW A, NEW B, IsFiniteSet(A), Cardinality(A) \in Nat, B = A \cup New, A \cap New = {}
      PROVE  Cardinality(B) = Cardinality(A) + k
  <2> HIDE DEF New
  <2>1. Cardinality(A \cup New) = Cardinality(A) + Cardinality(New) - Cardinality(A \cap New)
    BY <1>3, <1>7, FS_Union
  <2>2. Cardinality(A \cap New) = 0 BY <1>7, FS_EmptySet
  <2>3. Cardinality(New) = k /\ k \in Nat BY <1>2, <1>3, <1>4
  <2> HIDE DEF k
  <2>4. QED BY <1>7, <2>1, <2>2, <2>3
<1> HIDE DEF New, I
<1>8. FlaggedIn(row', s) = FlaggedIn(row, s) \cup New /\ FlaggedIn(row, s) \cap New = {}
  BY <1>5, <1>6, FlaggedFacts
<1>9. KeptIn(row', s) = KeptIn(row, s) \cup New /\ KeptIn(row, s) \cap New = {}
  BY <1>5, <1>6, <1>8, FlaggedFacts DEF KeptIn
<1>10. Cardinality(FlaggedIn(row', s)) = Cardinality(FlaggedIn(row, s)) + k BY <1>7, <1>8, FlaggedFacts
<1>11. Cardinality(KeptIn(row', s)) = Cardinality(KeptIn(row, s)) + k BY <1>7, <1>9, FlaggedFacts
<1>12. QED BY <1>2, <1>4, <1>10, <1>11

\* A change set leaves of a sender's flagged messages those it does not remove, and
\* removes no verdict the run-start step has locked.
LEMMA ApplyFlagged ==
    ASSUME TypeOK, NEW m \in Message, Apply(m), NEW s \in Sender
    PROVE  LET gone == Cardinality(FlaggedIn(row, s) \ Stored') IN
           /\ gone \in Nat /\ (s # SenderOf[m] => gone = 0)
           /\ Cardinality(FlaggedIn(row', s)) + gone = Cardinality(FlaggedIn(row, s))
           /\ counted[s] # NotYet => Cardinality(KeptIn(row', s)) + gone = Cardinality(KeptIn(row, s))
<1> DEFINE A == FlaggedIn(row, s)
           K == KeptIn(row, s)
<1>1. /\ IsFiniteSet(A) /\ Cardinality(A) \in Nat /\ A \in SUBSET Message
      /\ IsFiniteSet(K) /\ Cardinality(K) \in Nat /\ K \in SUBSET A
  BY FlaggedFacts
<1>2. /\ \A n \in Message \ {m} : row'[n] = row[n]
      /\ row'[m] = IF mail[m] = "gone" THEN NoRow ELSE IF row[m].scan = "none" THEN Added(m) ELSE row[m]
      /\ NoRow.scan = "none" /\ Added(m).scan = "pending"
  BY ApplyRow DEF NoRow, Added
<1>3. ASSUME NEW n \in Message
      PROVE  /\ n \in A /\ row'[n].scan # "none" => row'[n] = row[n]
             /\ row'[n].scan = "scanned" => row'[n] = row[n]
             /\ n \in A /\ row'[n].scan = "none" => n = m
  <2>1. CASE n # m BY <1>2, <2>1 DEF FlaggedIn
  <2>2. CASE n = m BY <1>2, <2>2 DEF FlaggedIn
  <2>3. QED BY <2>1, <2>2
<1>4. FlaggedIn(row', s) = A \cap Stored' /\ KeptIn(row', s) = K \cap Stored'
  BY <1>1, <1>3 DEF FlaggedIn, KeptIn, From, Stored
<1>5. A \ Stored' \subseteq {m} BY <1>1, <1>3 DEF Stored
<1>6. s # SenderOf[m] => A \ Stored' = {} BY <1>5 DEF FlaggedIn, From
<1>7. counted[s] # NotYet => A \ Stored' = K \ Stored'
  <2>1. SUFFICES ASSUME counted[s] # NotYet, m \in A PROVE m \in K BY <1>1, <1>5
  <2>2. m \notin StaleVerdicts BY <2>1 DEF Apply, Locked, NoCount
  <2>3. SenderOf[m] = s /\ row[m].scan = "scanned" BY <2>1 DEF FlaggedIn, From
  <2>4. row[m].by = Scanner BY <2>1, <2>2, <2>3 DEF StaleVerdicts
  <2>5. QED BY <2>1, <2>4 DEF KeptIn
<1> HIDE DEF A, K
<1>8. /\ Cardinality(A \ Stored') = Cardinality(A) - Cardinality(A \cap Stored')
      /\ Cardinality(K \ Stored') = Cardinality(K) - Cardinality(K \cap Stored')
      /\ IsFiniteSet(A \cap Stored') /\ IsFiniteSet(K \cap Stored') /\ IsFiniteSet(A \ Stored')
  BY <1>1, FS_Difference, FS_Subset
<1>9. /\ Cardinality(A \cap Stored') \in Nat /\ Cardinality(K \cap Stored') \in Nat
      /\ Cardinality(A \ Stored') \in Nat
  BY <1>8, FS_CardinalityType
<1>10. s # SenderOf[m] => Cardinality(A \ Stored') = 0 BY <1>6, FS_EmptySet
<1>11. /\ Cardinality(FlaggedIn(row', s)) + Cardinality(A \ Stored') = Cardinality(A)
       /\ counted[s] # NotYet =>
            Cardinality(KeptIn(row', s)) + Cardinality(A \ Stored') = Cardinality(K)
  <2>1. Cardinality(FlaggedIn(row', s)) = Cardinality(A \cap Stored') BY <1>4
  <2>2. Cardinality(KeptIn(row', s)) = Cardinality(K \cap Stored') BY <1>4
  <2>3. counted[s] # NotYet => Cardinality(A \ Stored') = Cardinality(K \ Stored') BY <1>7
  <2>4. Cardinality(A) \in Nat /\ Cardinality(K) \in Nat BY <1>1
  <2>5. QED BY <1>8, <1>9, <2>1, <2>2, <2>3, <2>4
<1>12. QED BY <1>9, <1>10, <1>11 DEF A, K

\* The verdicts no step but these change, and what it leaves of them.
Verdicts ==
    \A m \in Message : /\ row'[m].scan = "scanned" <=> row[m].scan = "scanned"
                       /\ row[m].scan = "scanned" => row'[m].by = row[m].by

LEMMA VerdictSteps ==
    ASSUME TypeOK, ReadInv, [Next]_vars
    PROVE  \/ Verdicts
           \/ Reopen \/ (\E absent \in SUBSET Message : DecidePage(absent) /\ ~RunFails)
           \/ (\E m \in Message : Apply(m))
           \/ \E n \in 0..Len(tpage), absent \in SUBSET Message :
                TickDecides(n, Outcomes(tpolicy, tpage, absent))
<1>1. UNCHANGED row => Verdicts BY DEF Verdicts
<1>2. CommitPage => Verdicts
  <2> SUFFICES ASSUME CommitPage, NEW m \in Message
               PROVE  /\ row'[m].scan = "scanned" <=> row[m].scan = "scanned"
                      /\ row[m].scan = "scanned" => row'[m].by = row[m].by
    BY DEF Verdicts
  <2>1. row[m] \in Row BY RowType
  <2>2. /\ Added(m).scan = "pending" /\ Remasked(row[m], m).scan = row[m].scan
        /\ Remasked(row[m], m).by = row[m].by
    BY <2>1 DEF Added, Remasked, Row
  <2>3. QED BY <2>2, CommitRow
<1>3. Refetch => Verdicts BY RefetchRow DEF Verdicts
<1>4. ASSUME NEW ms, row' = Requeue(row, ms), \A m \in ms : row[m].scan # "scanned" PROVE Verdicts
  <2>1. \A m \in Message : /\ m \in ms => row'[m].scan = "pending"
                           /\ m \notin ms => row'[m] = row[m]
    BY <1>4, RequeueRow
  <2>2. QED BY <1>4, <2>1 DEF Verdicts
<1>5. Compare \/ TickDelist => Verdicts
  <2>1. \A p : \A m \in Delisted(p) : row[m].scan # "scanned" BY DEF Delisted
  <2>2. QED BY <1>4, <2>1 DEF Compare, TickDelist
<1>6. RequeueSkips => Verdicts
  <2> DEFINE ms == {m \in Message : row[m].scan = "skipped_gate" /\ row[m].masked}
  <2>1. \A m \in ms : row[m].scan # "scanned" OBVIOUS
  <2>2. RequeueSkips => row' = Requeue(row, ms) BY DEF RequeueSkips
  <2> HIDE DEF ms
  <2>3. QED BY <1>4, <2>1, <2>2
<1>7. RunFails \/ TickFails => UNCHANGED row BY DEF RunFails, TickFails
<1>8. Outside \/ UNCHANGED vars => UNCHANGED row BY DEF Outside, Edit, Stop, Arrive, Leave, vars
<1>9. JobStep => \/ UNCHANGED row \/ Reopen \/ CommitPage \/ Refetch \/ Compare \/ RequeueSkips
                 \/ \E absent \in SUBSET Message : DecidePage(absent)
  BY DEF JobStep, JobStart, Recount, FirstOpen, FetchPage, RefuseToken, FirstFinish, SecondOpen, ReadPage,
         SecondFinish, JobFail, RunFails
<1>10. TickStep => \/ UNCHANGED row \/ (\E m \in Message : Apply(m)) \/ TickDelist
                   \/ \E n \in 0..Len(tpage), absent \in SUBSET Message : TickDecide(n, absent)
  BY DEF TickStep, TickStart, TickRead, TickFinish, TickFail, TickFails
<1>11. \A n \in 0..Len(tpage), absent \in SUBSET Message :
         TickDecide(n, absent) => TickDecides(n, Outcomes(tpolicy, tpage, absent)) \/ TickFails
  BY TickDecideCases
<1>12. QED
  BY Steps, <1>1, <1>2, <1>3, <1>5, <1>6, <1>7, <1>8, <1>9, <1>10, <1>11

\* Who changes the counts, the sums and where the job is.
LEMMA CountSteps ==
    ASSUME TypeOK, [Next]_vars
    PROVE  \/ counted' = NoCount /\ meanwhile' = Nothing /\ (Reopen \/ UNCHANGED <<hits, lost, unseen>>)
           \/ (\E t \in Sender : Recount(t))
           \/ /\ UNCHANGED <<counted, lost, unseen, meanwhile>>
              /\ job # "opening"
              /\ hits' = hits \/ \E absent \in SUBSET Message : DecidePage(absent) /\ ~RunFails
           \/ /\ UNCHANGED <<counted, job, release>>
              /\ \/ UNCHANGED <<hits, lost, unseen, meanwhile>>
                 \/ (\E m \in Message : Apply(m))
                 \/ \E n \in 0..Len(tpage), absent \in SUBSET Message :
                      TickDecides(n, Outcomes(tpolicy, tpage, absent))
<1>1. CASE Outside \/ UNCHANGED vars
  BY <1>1 DEF Outside, Edit, Stop, Arrive, Leave, jobVars, opening, tally, vars
<1>2. CASE JobStep
  <2>1. RunFails => counted' = NoCount /\ meanwhile' = Nothing /\ UNCHANGED <<hits, lost, unseen>>
    BY DEF RunFails
  <2>2. ASSUME NEW absent \in SUBSET Message, DecidePage(absent), ~RunFails
        PROVE  UNCHANGED <<counted, lost, unseen, meanwhile>> /\ job # "opening"
    BY <2>2 DEF DecidePage, opening, tally
  <2>3. QED
    BY <1>2, <2>1, <2>2
    DEF JobStep, JobStart, Reopen, FirstOpen, FetchPage, RefuseToken, CommitPage, Refetch, FirstFinish,
        SecondOpen, Compare, RequeueSkips, ReadPage, SecondFinish, JobFail, opening, tally
<1>3. CASE TickStep
  <2>1. UNCHANGED <<counted, job, release>>
    BY <1>3
    DEF TickStep, TickStart, Apply, TickDelist, TickRead, TickDecide, TickFinish, TickFail, TickFails,
        TickKeeps, jobVars, opening
  <2>2. \/ UNCHANGED <<hits, lost, unseen, meanwhile>> \/ (\E m \in Message : Apply(m))
        \/ \E n \in 0..Len(tpage), absent \in SUBSET Message : TickDecide(n, absent)
    BY <1>3 DEF TickStep, TickStart, TickDelist, TickRead, TickFinish, TickFail, TickFails, tally
  <2>3. TickFails => UNCHANGED <<hits, lost, unseen, meanwhile>> BY DEF TickFails, tally
  <2>4. QED BY <2>1, <2>2, <2>3, TickDecideCases
<1>4. QED BY Steps, <1>1, <1>2, <1>3

LEMMA CountStep == TypeOK /\ ReadInv /\ CountInv /\ [Next]_vars => CountInv'
<1> SUFFICES ASSUME TypeOK, ReadInv, CountInv, [Next]_vars, NEW s \in Sender PROVE CountOf(s)'
  BY DEF CountInv
<1>1. /\ CountOf(s) /\ counted \in [Sender -> Nat \cup {NotYet}]
      /\ meanwhile \in [Sender -> [flagged: Nat, lost: Nat]]
  BY DEF CountInv, TypeOK
<1> DEFINE k == Cardinality(KeptIn(row, s))
           k1 == Cardinality(KeptIn(row', s))
<1>2. k \in Nat /\ k1 \in Nat BY FlaggedFacts
<1>3. release' = release => KeptIn(row, s)' = KeptIn(row', s)
  BY DEF KeptIn, FlaggedIn, From, Scanner
<1>4. CASE counted' = NoCount /\ meanwhile' = Nothing
  BY <1>4 DEF CountOf, NoCount, Nothing
<1>5. ASSUME NEW t \in Sender, Recount(t) PROVE CountOf(s)'
  <2>1. /\ counted' = [counted EXCEPT ![t] = Cardinality(FlaggedIn(Cleared, t))]
        /\ counted[t] = NotYet /\ UNCHANGED <<row, job, meanwhile, release>> /\ job = "opening"
    BY <1>5 DEF Recount, JobKeeps, tally
  <2>2. KeptIn(row, s)' = KeptIn(row, s) BY <1>3, <2>1
  <2>3. CASE s = t
    <3>1. counted'[s] = k BY <1>1, <2>1, <2>3, ClearedFlagged
    <3>2. meanwhile[s] = [flagged |-> 0, lost |-> 0] BY <1>1, <2>1, <2>3 DEF CountOf
    <3>3. counted'[s] # NotYet BY <1>2, <3>1 DEF NotYet
    <3>4. QED BY <1>2, <2>1, <2>2, <3>1, <3>2, <3>3 DEF CountOf
  <2>4. CASE s # t
    <3>1. counted'[s] = counted[s] BY <1>1, <2>1, <2>4
    <3>2. QED BY <1>1, <2>1, <2>2, <3>1 DEF CountOf
  <2>5. QED BY <2>3, <2>4
<1>6. CASE UNCHANGED <<counted, meanwhile>> /\ job # "opening"
  BY <1>1, <1>6 DEF CountOf
<1>7. ASSUME UNCHANGED <<counted, job, release>>, counted[s] = NotYet, meanwhile'[s] = meanwhile[s]
      PROVE  CountOf(s)'
  BY <1>1, <1>7 DEF CountOf
<1>8. ASSUME UNCHANGED <<counted, job, release>>, counted[s] # NotYet,
             k1 - k = (meanwhile'[s].flagged - meanwhile[s].flagged) - (meanwhile'[s].lost - meanwhile[s].lost)
      PROVE  CountOf(s)'
  <2>1. /\ job = "opening" /\ counted[s] \in Nat /\ meanwhile[s].flagged \in Nat /\ meanwhile[s].lost \in Nat
        /\ counted[s] + meanwhile[s].flagged = k + meanwhile[s].lost
    BY <1>1, <1>8 DEF CountOf
  <2>2. meanwhile'[s].flagged \in Nat /\ meanwhile'[s].lost \in Nat
    <3>1. TypeOK' BY TypeStep
    <3>2. QED BY <3>1 DEF TypeOK
  <2>3. KeptIn(row, s)' = KeptIn(row', s) BY <1>3, <1>8
  <2> HIDE DEF k, k1
  <2>4. counted[s] + meanwhile'[s].flagged = k1 + meanwhile'[s].lost BY <1>2, <1>8, <2>1, <2>2
  <2>5. QED BY <1>8, <2>1, <2>3, <2>4 DEF CountOf, k1
<1>9. CASE UNCHANGED <<counted, job, release, meanwhile>> /\ Verdicts
  <2>1. k1 = k
    <3>1. From(s) \subseteq Message BY DEF From
    <3>2. QED BY <1>9, <3>1, SameVerdicts DEF Verdicts
  <2>2. k1 - k = (meanwhile'[s].flagged - meanwhile[s].flagged) - (meanwhile'[s].lost - meanwhile[s].lost)
    <3>1. meanwhile[s].flagged \in Nat /\ meanwhile[s].lost \in Nat BY <1>1
    <3> HIDE DEF k, k1
    <3>2. QED BY <1>2, <1>9, <2>1, <3>1
  <2>3. QED BY <1>7, <1>8, <1>9, <2>2
<1>10. ASSUME NEW m \in Message, Apply(m), UNCHANGED <<counted, job, release>> PROVE CountOf(s)'
  <2> DEFINE gone == Cardinality(FlaggedIn(row, SenderOf[m]) \ Stored')
  <2>1. /\ gone \in Nat
        /\ counted[s] # NotYet /\ s = SenderOf[m] => k1 + gone = k
        /\ counted[s] # NotYet /\ s # SenderOf[m] => k1 = k
    <3> DEFINE g == Cardinality(FlaggedIn(row, s) \ Stored')
    <3>1. SenderOf[m] \in Sender BY MessageFacts
    <3>2. gone \in Nat BY <1>10, <3>1, ApplyFlagged
    <3>3. /\ g \in Nat /\ (s # SenderOf[m] => g = 0)
          /\ counted[s] # NotYet => k1 + g = k
      BY <1>10, ApplyFlagged
    <3>4. s = SenderOf[m] => g = gone OBVIOUS
    <3> HIDE DEF g, gone, k, k1
    <3>5. QED BY <1>2, <3>2, <3>3, <3>4
  <2>2. meanwhile' = IF counted[SenderOf[m]] = NotYet THEN meanwhile
                     ELSE [meanwhile EXCEPT ![SenderOf[m]].lost = @ + gone]
    BY <1>10 DEF Apply
  <2> HIDE DEF gone, k, k1
  <2>3. /\ counted[s] = NotYet => meanwhile'[s] = meanwhile[s]
        /\ counted[s] # NotYet =>
             /\ meanwhile'[s].flagged = meanwhile[s].flagged
             /\ meanwhile'[s].lost = meanwhile[s].lost + (IF s = SenderOf[m] THEN gone ELSE 0)
    BY <1>1, <2>1, <2>2
  <2>4. meanwhile[s].flagged \in Nat /\ meanwhile[s].lost \in Nat BY <1>1
  <2>5. counted[s] # NotYet =>
          k1 - k = (meanwhile'[s].flagged - meanwhile[s].flagged) - (meanwhile'[s].lost - meanwhile[s].lost)
    BY <1>2, <2>1, <2>3, <2>4
  <2>6. QED BY <1>7, <1>8, <1>10, <2>3, <2>5
<1>11. ASSUME NEW n \in 0..Len(tpage), NEW absent, TickDecides(n, Outcomes(tpolicy, tpage, absent)),
              UNCHANGED <<counted, job, release>>
       PROVE  CountOf(s)'
  <2> DEFINE out == Outcomes(tpolicy, tpage, absent)
             more == NewHits(tpage, out, n, s)
  <2>1. tpage \in Seq(Input) /\ Distinct(tpage) BY DEF TypeOK, ReadInv
  <2>2. Waited(tpage, out, n) /\ Decide(tpage, out, n) BY <1>11 DEF TickDecides
  <2>3. more \in Nat /\ k1 = k + more BY <2>1, <2>2, DecideHits
  <2>4. meanwhile'[s] = IF counted[s] = NotYet THEN meanwhile[s]
                        ELSE [meanwhile[s] EXCEPT !.flagged = @ + more]
    BY <1>11 DEF TickDecides
  <2> HIDE DEF out, more, k, k1
  <2>5. meanwhile[s] \in [flagged: Nat, lost: Nat] BY <1>1
  <2>6. counted[s] # NotYet =>
          k1 - k = (meanwhile'[s].flagged - meanwhile[s].flagged) - (meanwhile'[s].lost - meanwhile[s].lost)
    BY <1>2, <2>3, <2>4, <2>5
  <2>7. QED BY <1>7, <1>8, <1>11, <2>4, <2>6
<1>12. CASE UNCHANGED <<counted, job, release, meanwhile>>
  <2>1. Reopen \/ (\E absent \in SUBSET Message : DecidePage(absent) /\ ~RunFails) => job' # job
    BY DEF Reopen, DecidePage
  <2>2. QED BY <1>9, <1>10, <1>11, <1>12, <2>1, VerdictSteps
<1>13. QED BY CountSteps, <1>4, <1>5, <1>6, <1>10, <1>11, <1>12

LEMMA HitsStep == TypeOK /\ ReadInv /\ CountInv /\ HitsExact /\ [Next]_vars => HitsExact'
<1> SUFFICES ASSUME TypeOK, ReadInv, CountInv, HitsExact, [Next]_vars, NEW s \in Sender
             PROVE  hits'[s] + unseen'[s] = Cardinality(FlaggedIn(row', s)) + lost'[s]
  BY DEF HitsExact, FlaggedIn, From
<1> DEFINE f == Cardinality(FlaggedIn(row, s))
           f1 == Cardinality(FlaggedIn(row', s))
           Goal == hits'[s] + unseen'[s] = f1 + lost'[s]
<1>1. /\ hits[s] + unseen[s] = f + lost[s]
      /\ hits \in [Sender -> Nat] /\ unseen \in [Sender -> Nat] /\ lost \in [Sender -> Nat]
      /\ f \in Nat /\ f1 \in Nat
  BY FlaggedFacts DEF HitsExact, TypeOK
<1>2. CASE UNCHANGED <<hits, lost, unseen>> /\ Verdicts
  <2>1. From(s) \subseteq Message BY DEF From
  <2>2. f1 = f BY <1>2, <2>1, SameVerdicts DEF Verdicts
  <2>3. QED BY <1>1, <1>2, <2>2
<1>3. CASE Reopen
  <2>1. f1 = Cardinality(KeptIn(row, s)) BY <1>3, ReopenFlagged
  <2>2. CASE s \in StaleSenders
    <3>1. /\ hits'[s] = counted[s] /\ unseen'[s] = meanwhile[s].flagged /\ lost'[s] = meanwhile[s].lost
          /\ counted[s] # NotYet
      BY <1>3, <2>2 DEF Reopen, Recounted
    <3>2. counted[s] + meanwhile[s].flagged = Cardinality(KeptIn(row, s)) + meanwhile[s].lost
      BY <3>1 DEF CountInv, CountOf
    <3>3. QED BY <2>1, <3>1, <3>2
  <2>3. CASE s \notin StaleSenders
    <3>1. hits'[s] = hits[s] /\ unseen'[s] = unseen[s] /\ lost'[s] = lost[s]
      BY <1>3, <2>3 DEF Reopen, Recounted
    <3>2. KeptIn(row, s) = FlaggedIn(row, s)
      BY <2>3 DEF StaleSenders, StaleVerdicts, KeptIn, FlaggedIn, From
    <3>3. QED BY <1>1, <2>1, <3>1, <3>2
  <2>4. QED BY <2>2, <2>3
<1>4. ASSUME NEW m \in Message, Apply(m) PROVE Goal
  <2> DEFINE g == Cardinality(FlaggedIn(row, s) \ Stored')
             last == \A n \in From(s) : row'[n].scan = "none"
  <2>1. /\ g \in Nat /\ (s # SenderOf[m] => g = 0) /\ f1 + g = f
    BY <1>4, ApplyFlagged
  <2>2. CASE s # SenderOf[m]
    <3>1. hits'[s] = hits[s] /\ lost'[s] = lost[s] /\ unseen'[s] = unseen[s] BY <1>1, <1>4, <2>2 DEF Apply
    <3>2. f1 = f
      <4> HIDE DEF f, f1, g
      <4>1. QED BY <1>1, <2>1, <2>2
    <3>3. QED BY <1>1, <3>1, <3>2
  <2>3. CASE s = SenderOf[m] /\ last
    <3>1. hits'[s] = 0 /\ lost'[s] = 0 /\ unseen'[s] = 0 BY <1>1, <1>4, <2>3 DEF Apply
    <3>2. FlaggedIn(row', s) = {} BY <2>3 DEF FlaggedIn
    <3>3. f1 = 0 BY <3>2, FS_EmptySet
    <3>4. QED BY <3>1, <3>3
  <2>4. CASE s = SenderOf[m] /\ ~last
    <3>1. hits'[s] = hits[s] /\ unseen'[s] = unseen[s] /\ lost'[s] = lost[s] + g
      BY <1>1, <1>4, <2>4 DEF Apply
    <3>2. hits[s] \in Nat /\ unseen[s] \in Nat /\ lost[s] \in Nat BY <1>1
    <3> HIDE DEF f, f1, g
    <3>3. QED BY <1>1, <2>1, <3>1, <3>2
  <2>5. QED BY <2>2, <2>3, <2>4
<1>5. ASSUME NEW more \in Nat, hits'[s] = hits[s] + more, f1 = f + more, UNCHANGED <<lost, unseen>>
      PROVE  Goal
  <2>1. hits[s] \in Nat /\ unseen[s] \in Nat /\ lost[s] \in Nat BY <1>1
  <2> HIDE DEF f, f1
  <2>2. QED BY <1>1, <1>5, <2>1
<1>6. ASSUME NEW absent \in SUBSET Message, DecidePage(absent), ~RunFails PROVE Goal
  <2> DEFINE out == Outcomes(compared, page, absent)
  <2>1. page \in Seq(Input) /\ Distinct(page) /\ Len(page) \in 0..Len(page) BY DEF TypeOK, ReadInv
  <2>2. Waited(page, out, Len(page)) /\ Decide(page, out, Len(page)) /\ UNCHANGED <<lost, unseen>>
    BY <1>6 DEF DecidePage, tally
  <2>3. QED BY <1>5, <2>1, <2>2, DecideHits
<1>7. ASSUME NEW n \in 0..Len(tpage), NEW absent, TickDecides(n, Outcomes(tpolicy, tpage, absent)) PROVE Goal
  <2> DEFINE out == Outcomes(tpolicy, tpage, absent)
  <2>1. tpage \in Seq(Input) /\ Distinct(tpage) BY DEF TypeOK, ReadInv
  <2>2. Waited(tpage, out, n) /\ Decide(tpage, out, n) /\ UNCHANGED <<lost, unseen>>
    BY <1>7 DEF TickDecides
  <2>3. QED BY <1>5, <2>1, <2>2, DecideHits
<1>8. \/ UNCHANGED <<hits, lost, unseen>> \/ Reopen \/ (\E m \in Message : Apply(m))
      \/ (\E absent \in SUBSET Message : DecidePage(absent) /\ ~RunFails)
      \/ \E n \in 0..Len(tpage), absent \in SUBSET Message :
           TickDecides(n, Outcomes(tpolicy, tpage, absent))
  BY CountSteps DEF Recount, tally
<1>9. QED BY <1>2, <1>3, <1>4, <1>6, <1>7, <1>8, VerdictSteps

-----------------------------------------------------------------------------
\* The theorems.

LEMMA InitInv == Init => Inv
<1> SUFFICES ASSUME Init PROVE Inv OBVIOUS
<1>1. TypeOK /\ ReadInv BY InitType
<1>2. ScannerCurrent BY DEF Init, ScannerCurrent, SecondAt
<1>3. CountInv /\ HitsExact
  <2>1. SUFFICES ASSUME NEW s \in Sender
                 PROVE  CountOf(s) /\ hits[s] + unseen[s] = Cardinality(FlaggedIn(row, s)) + lost[s]
    BY DEF CountInv, HitsExact
  <2>2. FlaggedIn(row, s) = {} BY DEF Init, FlaggedIn, From, NoRow
  <2>3. hits[s] = 0 /\ lost[s] = 0 /\ unseen[s] = 0 BY DEF Init
  <2>4. CountOf(s) BY DEF Init, CountOf, NoCount, Nothing
  <2>5. QED BY <2>2, <2>3, <2>4, FS_EmptySet
<1>4. ListingInv /\ FirstPassComplete
  <2>1. ~first /\ listing.token = Top /\ job = "idle" BY DEF Init
  <2>2. \A m \in Old : mail[m] = "held" BY MessageAssumption DEF Init
  <2>3. \A m \in Message : ~Covered(m, Top) BY MessageFacts DEF Covered, Top, End
  <2>4. QED BY <2>1, <2>2, <2>3, MessageAssumption DEF ListingInv, FirstPassComplete
<1>5. WalkInv BY DEF Init, WalkInv, SecondAt
<1>6. QED BY <1>1, <1>2, <1>3, <1>4, <1>5 DEF Inv

LEMMA Step == Inv /\ [Next]_vars => Inv'
BY TypeStep, ScannerStep, CountStep, HitsStep, ListingStep, WalkStep DEF Inv

LEMMA Invariant == Spec => []Inv
BY InitInv, Step, PTL DEF Spec

\* Every variable keeps its type, whatever the mailbox, the releases of the worker, the
\* sizes of the pages and the budget of a tick (pass1.go, pass2.go, tick.go).
THEOREM TypeCorrect == Spec => []TypeOK
<1>1. Inv => TypeOK BY DEF Inv
<1>2. QED BY <1>1, Invariant, PTL

\* The second pass never runs over a subject that another scanner masked, and a process
\* that has made its run-start step holds no other scanner's verdict and no other bound's
\* refusal (pass2/postgres.go:187-236, pass1.go:268-366).
THEOREM ScannerCorrect == Spec => []ScannerCurrent
<1>1. Inv => ScannerCurrent BY DEF Inv
<1>2. QED BY <1>1, Invariant, PTL

\* A sender's prior hits count the flagged messages stored and those removed since they
\* were last counted, each once, but not what a tick flagged after a run-start step took
\* the count it then commits (statistics.sql:52-74, pass2/postgres.go:187-209 and 376-458,
\* tick/postgres.go:139-196 and 375-392).
THEOREM HitsCorrect == Spec => []HitsExact
<1>1. Inv => HitsExact BY DEF Inv
<1>2. QED BY <1>1, Invariant, PTL

\* A first pass that has ended, over any runs that failed, tokens refused and processes
\* stopped, has every message in the index that the mailbox held throughout
\* (pass1.go:226-266, pass1/postgres.go:157-217).
THEOREM FirstPassCorrect == Spec => []FirstPassComplete
<1>1. Inv => FirstPassComplete BY DEF Inv
<1>2. QED BY <1>1, Invariant, PTL

\* The second pass ends having come by everything that waited when it last started over,
\* and everything returned to pending since (pass2.go:159-289, pass2/postgres.go:149-236).
THEOREM NothingPassedOverCorrect == Spec => NothingPassedOver
<1>1. Inv /\ [Next]_vars => (second' /\ ~second => due = {}) BY EndStep DEF Inv
<1>2. [Next]_vars /\ Inv => [second' /\ ~second => due = {}]_vars BY <1>1
<1>3. QED BY <1>2, Invariant, PTL DEF Spec, NothingPassedOver

\* A verdict, a skip or a refusal is never replaced by another without the message having
\* waited again in between, whichever of the two workloads stores it (scan.sql:51-78).
THEOREM DecidedOnceCorrect == Spec => DecidedOnce
<1> DEFINE Keeps ==
      \A m \in Message :
        row[m].scan \notin {"none", "pending"} /\ row'[m].scan \notin {"none", "pending"}
          => <<row'[m].scan, row'[m].by>> = <<row[m].scan, row[m].by>>
<1>1. Inv /\ [Next]_vars => Keeps BY DecidedStep DEF Inv
<1> HIDE DEF Keeps
<1>2. Spec => [][Keeps]_vars BY <1>1, Invariant, PTL DEF Spec
<1>3. QED BY <1>2 DEF Keeps, DecidedOnce

=============================================================================
