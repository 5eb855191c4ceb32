-------------------------- MODULE DeltaSync_proofs --------------------------
(***************************************************************************)
(* Proofs about DeltaSync, for any messages, bounds, retention of the       *)
(* provider and drift of dates: no run is left recorded as running, nothing *)
(* the mailbox holds leaves the index, the index follows the feed, and no   *)
(* mail is lost while each gap is found at a fresh cursor.                  *)
(***************************************************************************)
EXTENDS DeltaSync, TLAPS, WellFoundedInduction

-----------------------------------------------------------------------------
(* The inductive invariant. *)

Listing == {"listing", "storing", "comparing", "removing", "recovered"}

\* Where a tick is tells which runs are open, that there is a cursor, and what it
\* holds in its hand.
ControlInv ==
    /\ OneRunOpen
    /\ step # "idle" => open["tick"].latest
    /\ step \in {"taking", "opening"} \cup Listing /\ cursor # Never => open["gap_recovery"].latest
    /\ step \in {"asking", "fetching", "applying"} => ~open["gap_recovery"].latest
    /\ step \in {"asking", "fetching", "applying", "comparing", "removing", "recovered"} => cursor # Never
    /\ step \notin {"applying", "storing"} => held = None
    /\ step \notin Listing /\ ~(step = "ending" /\ cursor = Never) => window.listed = {}

\* What the tick or the index knows of has come, and what is being removed is gone.
KnownInv ==
    /\ \A m \in Message : index[m] # 0 \/ held[m] # 0 \/ m \in window.listed => Came(m, Len(feed))
    /\ step = "removing" => \A m \in asked : Gone(m, Len(feed))

\* Since the feed's end was read, or a fresh cursor, mail has come dated no earlier
\* than the drift, or the overlap, allows.
DatedSince(from, instant) == \A m \in Message : Came(m, Len(feed)) /\ ~Came(m, from) => date[m] >= instant

CursorInv ==
    /\ read.whole => DatedSince(read.upto, read.at - Drift)
    /\ fresh => cursor # Never /\ Drift <= Overlap /\ DatedSince(cursor, written - Overlap)

\* What a tick read at its start is no later than what it has stored since, and is as
\* fresh as it was then for any cursor after it.
StartInv ==
    /\ began.written <= written
    /\ began.fresh => cursor # Never /\ Drift <= Overlap /\ DatedSince(cursor, began.written - Overlap)
    /\ step \in {"fetching", "applying"} => cursor <= read.upto

\* What a tick has fetched, and what its window still has to list or has listed.
HandInv ==
    /\ step = "applying" => \A m \in Fetched \cap Live : held[m] # 0
    /\ step \in Listing \/ (step = "ending" /\ cursor = Never) =>
          \A m \in Live \ Hidden : Came(m, read.upto) /\ date[m] >= window.start =>
              m \in window.left \cup window.listed
    /\ step \notin {"listing", "storing"} => window.left = {}
    /\ \A m \in window.listed \cap Live : index[m] # 0 \/ held[m] # 0
    /\ step \in Listing /\ cursor # Never => window.start = began.written - Overlap /\ (fresh \/ began.fresh \/ lagged)

KindInv == \A i \in 1..Len(feed) : feed[i].msg \in Message => feed[i].kind # "unshown"

\* A message that has gone changes no more.
LastInv ==
    \A i, j \in 1..Len(feed) :
        feed[i].msg \in Message /\ feed[i].kind = "removed" /\ feed[j].msg = feed[i].msg => j <= i

\* What a tick holds and has listed is as new as the cursor and as what it read, and of
\* what went before that in the window it leaves nothing in the index.
FollowInv ==
    /\ \A m \in Message : held[m] # 0 =>
          ~Gone(m, Through) /\ held[m] >= Latest(m, Through) /\ held[m] >= Latest(m, read.upto)
    /\ step = "applying" => \A m \in Message : held[m] # 0 => m \in Fetched
    /\ step \in {"fetching", "applying", "opening"} \cup Listing /\ cursor # Never => cursor <= read.upto
    /\ \A m \in window.listed :
          ~Gone(m, read.upto) /\ (m \in Live => held[m] # 0 \/ index[m] >= Latest(m, read.upto))
    /\ step \in {"removing", "recovered"} =>
          \A m \in Message \ window.listed :
             Gone(m, read.upto) /\ date[m] >= window.start /\ index[m] # 0 => step = "removing" /\ m \in asked
    /\ IndexFollows

Safe == ControlInv /\ KnownInv /\ CursorInv /\ StartInv /\ HandInv /\ KindInv /\ MailKept
Inv == TypeOK /\ Safe

-----------------------------------------------------------------------------
(* Lemmas about the feed. *)

\* A nonempty set of positions has a greatest one.
LEMMA GreatestExists ==
    ASSUME NEW n \in Nat, NEW S, S \subseteq 1..n, S # {}
    PROVE  \E i \in S : \A j \in S : j <= i
<1> DEFINE T == {t \in Nat : \E i \in S : t = n - i}
<1>1. T \subseteq Nat /\ T # {}
  <2>1. PICK i \in S : i \in 1..n
    OBVIOUS
  <2>2. n - i \in T
    BY <2>1
  <2> QED
    BY <2>2
<1>2. \E x \in T : \A y \in T : ~(<<y, x>> \in OpToRel(<, Nat))
  BY <1>1, WFMin, NatLessThanWellFounded
<1>3. PICK x \in T : \A y \in T : ~(<<y, x>> \in OpToRel(<, Nat))
  BY <1>2
<1>4. \A y \in T : ~(y < x)
  BY <1>1, <1>3 DEF OpToRel
<1>5. PICK i \in S : x = n - i
  BY <1>3
<1>6. ASSUME NEW j \in S PROVE j <= i
  <2>1. n - j \in T
    OBVIOUS
  <2> QED
    BY <1>4, <1>5, <2>1
<1> QED
  BY <1>6

\* A message's latest change is one of its changes, the greatest, and none before it has
\* come.
LEMMA LatestIsChange ==
    ASSUME NEW m, NEW upto \in Nat
    PROVE  /\ Latest(m, upto) \in 0..upto
           /\ Came(m, upto) <=> Latest(m, upto) # 0
           /\ \A i \in ChangesOf(m, upto) : i <= Latest(m, upto)
<1>1. ChangesOf(m, upto) \subseteq 1..upto
  BY DEF ChangesOf
<1>2. CASE ChangesOf(m, upto) = {}
  BY <1>2 DEF Latest, Came, ChangesOf
<1>3. CASE ChangesOf(m, upto) # {}
  <2>1. \E i \in ChangesOf(m, upto) : \A j \in ChangesOf(m, upto) : j <= i
    BY <1>1, <1>3, GreatestExists
  <2>2. /\ Latest(m, upto) \in ChangesOf(m, upto)
        /\ \A j \in ChangesOf(m, upto) : j <= Latest(m, upto)
    BY <1>3, <2>1 DEF Latest
  <2>3. Came(m, upto)
    BY <1>3 DEF Came, ChangesOf
  <2> QED
    BY <1>1, <2>2, <2>3
<1> QED
  BY <1>2, <1>3

\* What has come, gone and changed by a position has by a later one, and nothing differs
\* between two that have no change of the message between them.
LEMMA LatestGrows ==
    ASSUME NEW m, NEW a \in Nat, NEW b \in Nat, a <= b
    PROVE  /\ Latest(m, a) <= Latest(m, b) /\ (Gone(m, a) => Gone(m, b)) /\ (Came(m, a) => Came(m, b))
           /\ ChangesOf(m, b) = ChangesOf(m, a) =>
                  Latest(m, b) = Latest(m, a) /\ (Gone(m, b) <=> Gone(m, a)) /\ (Came(m, b) <=> Came(m, a))
           /\ Latest(m, b) <= a => ChangesOf(m, b) = ChangesOf(m, a)
<1>1. 1..a \subseteq 1..b /\ ChangesOf(m, a) \subseteq ChangesOf(m, b)
  BY DEF ChangesOf
<1>2. (Gone(m, a) => Gone(m, b)) /\ (Came(m, a) => Came(m, b))
  BY <1>1 DEF Gone, Came
<1>3. /\ Latest(m, a) \in 0..a /\ Latest(m, b) \in 0..b
      /\ \A i \in ChangesOf(m, b) : i <= Latest(m, b)
      /\ \A i \in ChangesOf(m, a) : i <= Latest(m, a)
  BY LatestIsChange
<1>4. Latest(m, a) <= Latest(m, b)
  <2>1. CASE ChangesOf(m, a) = {}
    BY <1>3, <2>1 DEF Latest
  <2>2. CASE ChangesOf(m, a) # {}
    <3>1. \E i \in ChangesOf(m, a) : \A j \in ChangesOf(m, a) : j <= i
      BY <2>2, GreatestExists DEF ChangesOf
    <3>2. Latest(m, a) \in ChangesOf(m, a)
      BY <2>2, <3>1 DEF Latest
    <3> QED
      BY <1>1, <1>3, <3>2
  <2> QED
    BY <2>1, <2>2
<1>5. ASSUME ChangesOf(m, b) = ChangesOf(m, a)
      PROVE  Latest(m, b) = Latest(m, a) /\ (Gone(m, b) <=> Gone(m, a)) /\ (Came(m, b) <=> Came(m, a))
  <2>1. Latest(m, b) = Latest(m, a) /\ (Gone(m, b) <=> Gone(m, a))
    BY <1>5 DEF Latest, Gone
  <2>2. Came(m, b) <=> Came(m, a)
    BY <2>1, LatestIsChange
  <2> QED
    BY <2>1, <2>2
<1>6. ASSUME Latest(m, b) <= a PROVE ChangesOf(m, b) = ChangesOf(m, a)
  <2>1. \A i \in ChangesOf(m, b) : i \in 1..a
    BY <1>3, <1>6 DEF ChangesOf
  <2> QED
    BY <1>1, <2>1 DEF ChangesOf
<1> QED
  BY <1>2, <1>4, <1>5, <1>6

\* A message that has gone by a position has no change after it.
LEMMA GoneLast ==
    ASSUME TypeOK, LastInv, NEW m \in Message, NEW a \in 0..Len(feed), NEW b \in 0..Len(feed), a <= b, Gone(m, a)
    PROVE  ChangesOf(m, b) = ChangesOf(m, a)
<1>1. Len(feed) \in Nat
  BY DEF TypeOK
<1>2. PICK i \in 1..a : feed[i].msg = m /\ feed[i].kind = "removed"
  BY DEF Gone, ChangesOf
<1>3. ASSUME NEW j \in 1..b, feed[j].msg = m PROVE j \in 1..a
  <2>1. i \in 1..Len(feed) /\ j \in 1..Len(feed)
    BY <1>1
  <2>2. j <= i
    BY <1>2, <1>3, <2>1 DEF LastInv
  <2> QED
    BY <1>1, <2>2
<1> QED
  BY <1>1, <1>3 DEF ChangesOf

-----------------------------------------------------------------------------
(* Types. *)

LEMMA TimeNat ==
    /\ Overlap \in Nat /\ FirstWindow \in Nat /\ Drift \in Nat
    /\ Retention \in Nat /\ LongestRead \in Nat /\ MaxTime \in Nat
BY TimeAssumption

LEMMA TypeInit == Init => TypeOK
<1> SUFFICES ASSUME Init PROVE TypeOK
  OBVIOUS
<1>1. 0 \in Time /\ 0 \in Position /\ 0 \in 0..MaxTime /\ 0 \in 0..MaxStops
  BY TimeAssumption, CountAssumption DEF Time, Position
<1>2. feed = <<>> /\ Len(feed) = 0
  BY DEF Init
<1>3. feed \in Seq([msg: Message \cup {Nobody}, kind: Kind, at: 0..MaxTime])
  BY <1>2
<1>4. date \in [Message -> Time] /\ index \in [Message -> 0..0] /\ held \in [Message -> 0..0]
  BY <1>1 DEF Init, None
<1>5. open \in [Pass -> [runs: Nat, latest: BOOLEAN]] /\ step \in Steps
  BY DEF Init, Steps
<1>6. /\ read \in [upto: 0..0, at: 0..0, whole: BOOLEAN]
      /\ window \in [start: Time, left: SUBSET Message, listed: SUBSET Message]
  BY <1>1 DEF Init, NoRead, NoWindow
<1>7. /\ Len(feed) \in Position
      /\ index \in [Message -> 0..Len(feed)] /\ held \in [Message -> 0..Len(feed)]
      /\ horizon \in 0..Len(feed) /\ cursor \in 0..Len(feed) \cup {Never}
  BY <1>1, <1>2, <1>4 DEF Init
<1>8. /\ now \in 0..MaxTime /\ written \in 0..now /\ stops \in 0..MaxStops
      /\ began \in [written: 0..now, fresh: BOOLEAN]
  BY <1>1 DEF Init, NoStart
<1>9. read \in [upto: 0..Len(feed), at: 0..now, whole: BOOLEAN]
  <2>1. Len(feed) = 0 /\ now = 0
    BY <1>2 DEF Init
  <2> QED
    BY <1>6, <2>1
<1>10. /\ asked \subseteq Message /\ since \in Time /\ missed \subseteq Message
       /\ fresh \in BOOLEAN /\ lagged \in BOOLEAN
  BY <1>1 DEF Init
<1> QED
  BY <1>3, <1>4, <1>5, <1>6, <1>7, <1>8, <1>9, <1>10 DEF TypeOK

\* A change of the mailbox leaves all else as it was.
LEMMA ChangeType ==
    ASSUME TypeOK, NEW m \in Message \cup {Nobody}, NEW kind \in Kind, Change(m, kind),
           date' \in [Message -> Time]
    PROVE  TypeOK'
<1> DEFINE R == [msg: Message \cup {Nobody}, kind: Kind, at: 0..MaxTime]
<1> DEFINE c == [msg |-> m, kind |-> kind, at |-> Stamp]
<1>1. c \in R
  BY TimeAssumption DEF TypeOK, Stamp
<1>2. feed \in Seq(R) /\ feed' = Append(feed, c)
  BY DEF TypeOK, Change
<1>3. feed' \in Seq(R) /\ Len(feed') = Len(feed) + 1
  <2> HIDE DEF R, c
  <2> QED
    BY <1>1, <1>2
<1>4. Len(feed) \in Nat /\ Len(feed) < MaxFeed
  BY CountAssumption DEF TypeOK, Change, Position
<1>5. Len(feed') \in Position
  BY <1>3, <1>4, CountAssumption DEF Position
<1>6. UNCHANGED <<horizon, now, cursor, written, index, open, step, began, read, held, window, asked, stops, since,
                  missed, fresh, lagged>>
  BY DEF Change, store, hand, seen
<1>7. 0..Len(feed) \subseteq 0..Len(feed')
  BY <1>3, <1>4
<1>8. horizon' \in 0..Len(feed') /\ cursor' \in 0..Len(feed') \cup {Never}
  BY <1>6, <1>7 DEF TypeOK
<1>9. index' \in [Message -> 0..Len(feed')] /\ held' \in [Message -> 0..Len(feed')]
  BY <1>6, <1>7 DEF TypeOK
<1>10. read' \in [upto: 0..Len(feed'), at: 0..now', whole: BOOLEAN]
  BY <1>6, <1>7 DEF TypeOK
<1> QED
  BY <1>3, <1>5, <1>6, <1>8, <1>9, <1>10 DEF TypeOK

\* What the operators of a tick return.
LEMMA MetadataType ==
    ASSUME TypeOK, NEW ids
    PROVE  /\ Metadata(ids) \in [Message -> 0..Len(feed)]
           /\ \A m \in ids \cap Live : m \in Message => Metadata(ids)[m] # 0
<1>1. Len(feed) \in Nat
  BY DEF TypeOK
<1>2. \A m \in Message : Latest(m, Len(feed)) \in 0..Len(feed)
  BY <1>1, LatestIsChange
<1>3. \A m \in Live : Latest(m, Len(feed)) # 0
  BY <1>1, LatestIsChange DEF Live
<1> QED
  BY <1>1, <1>2, <1>3 DEF Metadata

LEMMA AppliedType ==
    ASSUME TypeOK, NEW gone, NEW metadata \in [Message -> 0..Len(feed)]
    PROVE  Applied(gone, metadata) \in [Message -> 0..Len(feed)]
BY DEF TypeOK, Applied

LEMMA RunsType ==
    ASSUME TypeOK, OneRunOpen
    PROVE  /\ EndStopped(open) \in [Pass -> [runs: Nat, latest: BOOLEAN]]
           /\ \A p \in Pass : EndStopped(open)[p] = [runs |-> 0, latest |-> FALSE]
           /\ \A p \in Pass : open[p] = [runs |-> IF open[p].latest THEN 1 ELSE 0, latest |-> open[p].latest]
<1>1. \A p \in Pass : open[p] = [runs |-> IF open[p].latest THEN 1 ELSE 0, latest |-> open[p].latest]
  BY DEF TypeOK, OneRunOpen
<1>2. \A p \in Pass : EndStopped(open)[p] = [runs |-> 0, latest |-> FALSE]
  <2> SUFFICES ASSUME NEW p \in Pass PROVE EndStopped(open)[p] = [runs |-> 0, latest |-> FALSE]
    OBVIOUS
  <2>1. EndStopped(open)[p] = IF open[p].latest THEN [runs |-> open[p].runs - 1, latest |-> FALSE] ELSE open[p]
    BY DEF EndStopped
  <2>2. open[p].latest \in BOOLEAN
    BY DEF TypeOK
  <2>3. CASE open[p].latest
    <3>1. open[p].runs = 1
      BY <2>3 DEF OneRunOpen
    <3> QED
      BY <2>1, <2>3, <3>1
  <2>4. CASE ~open[p].latest
    <3>1. open[p] = [runs |-> 0, latest |-> FALSE]
      BY <1>1, <2>2, <2>4
    <3> QED
      BY <2>1, <2>4, <3>1
  <2> QED
    BY <2>3, <2>4
<1>3. EndStopped(open) \in [Pass -> [runs: Nat, latest: BOOLEAN]]
  <2>1. EndStopped(open) = [p \in Pass |-> EndStopped(open)[p]]
    BY DEF EndStopped
  <2>2. [runs |-> 0, latest |-> FALSE] \in [runs: Nat, latest: BOOLEAN]
    OBVIOUS
  <2> QED
    BY <1>2, <2>1, <2>2
<1> QED
  BY <1>1, <1>2, <1>3

LEMMA MailType ==
    ASSUME TypeOK, Mail
    PROVE  TypeOK'
<1>1. ASSUME NEW m \in Message, Arrive(m) PROVE TypeOK'
  <2>1. \A late \in 0..Drift : now - late \in Time
    BY TimeNat DEF TypeOK, Time
  <2>2. date' \in [Message -> Time]
    BY <1>1, <2>1 DEF TypeOK, Arrive
  <2> QED
    BY <1>1, <2>2, ChangeType DEF Arrive, Kind
<1>2. ASSUME NEW m \in Message, Modify(m) \/ Remove(m) PROVE TypeOK'
  <2>1. date' \in [Message -> Time]
    BY <1>2 DEF TypeOK, Modify, Remove
  <2> QED
    BY <1>2, <2>1, ChangeType DEF Modify, Remove, Kind
<1>3. ASSUME ChangeUnshown PROVE TypeOK'
  <2>1. date' \in [Message -> Time]
    BY <1>3 DEF TypeOK, ChangeUnshown
  <2> QED
    BY <1>3, <2>1, ChangeType DEF ChangeUnshown, Kind
<1> QED
  BY <1>1, <1>2, <1>3 DEF Mail

LEMMA TickType ==
    ASSUME TypeOK, Tick
    PROVE  TypeOK'
<1>1. now' \in 0..MaxTime /\ 0..now \subseteq 0..now'
  BY TimeAssumption DEF TypeOK, Tick
<1>2. UNCHANGED <<feed, date, horizon, cursor, written, index, open, step, began, read, held, window, asked, stops,
                  since, missed, fresh, lagged>>
  BY DEF Tick, mailbox, store, hand, seen
<1>3. /\ written' \in 0..now' /\ read' \in [upto: 0..Len(feed'), at: 0..now', whole: BOOLEAN]
      /\ began' \in [written: 0..now', fresh: BOOLEAN]
  BY <1>1, <1>2 DEF TypeOK
<1> QED
  BY <1>1, <1>2, <1>3 DEF TypeOK

LEMMA ForgetType ==
    ASSUME TypeOK, Forget
    PROVE  TypeOK'
<1>1. horizon' \in 0..Len(feed)
  BY DEF TypeOK, Forget
<1>2. UNCHANGED <<feed, date, now, cursor, written, index, open, step, began, read, held, window, asked, stops,
                  since, missed, fresh, lagged>>
  BY DEF Forget, store, hand, seen
<1> QED
  BY <1>1, <1>2 DEF TypeOK

\* What a run's start and end leave of the record of runs.
LEMMA OpenedRuns ==
    ASSUME NEW runs \in [Pass -> [runs: Nat, latest: BOOLEAN]], NEW p \in Pass
    PROVE  /\ Opened(runs, p) \in [Pass -> [runs: Nat, latest: BOOLEAN]]
           /\ Opened(runs, p)[p] = [runs |-> runs[p].runs + 1, latest |-> TRUE]
           /\ \A q \in Pass \ {p} : Opened(runs, p)[q] = runs[q]
BY DEF Opened

LEMMA EndedRuns ==
    ASSUME NEW runs \in [Pass -> [runs: Nat, latest: BOOLEAN]], NEW p \in Pass, runs[p].runs = 1
    PROVE  /\ Ended(runs, p) \in [Pass -> [runs: Nat, latest: BOOLEAN]]
           /\ Ended(runs, p)[p] = [runs |-> 0, latest |-> FALSE]
           /\ \A q \in Pass \ {p} : Ended(runs, p)[q] = runs[q]
BY DEF Ended

LEMMA CursorType ==
    ASSUME TypeOK, NEW upto \in 0..Len(feed)
    PROVE  Cursor(upto) \in [upto: 0..Len(feed), at: 0..now, whole: BOOLEAN]
BY DEF TypeOK, Cursor

LEMMA PutDownType ==
    ASSUME TypeOK, PutDown
    PROVE  /\ read' \in [upto: 0..Len(feed), at: 0..now, whole: BOOLEAN]
           /\ held' \in [Message -> 0..Len(feed)]
           /\ window' \in [start: Time, left: SUBSET Message, listed: SUBSET Message]
           /\ asked' \subseteq Message /\ began' \in [written: 0..now, fresh: BOOLEAN]
<1>1. 0 \in Time /\ 0 \in 0..now /\ 0 \in 0..Len(feed)
  BY TimeNat DEF TypeOK, Time
<1> QED
  BY <1>1 DEF PutDown, NoStart, NoRead, None, NoWindow

LEMMA StartType ==
    ASSUME TypeOK
    PROVE  Start \in Time
<1>1. CASE cursor = Never
  BY <1>1, TimeNat DEF TypeOK, Start, Time
<1>2. CASE cursor # Never
  BY <1>2, TimeNat DEF TypeOK, Start, Time
<1> QED
  BY <1>1, <1>2

LEMMA StoreCursorType ==
    ASSUME TypeOK, StoreCursor
    PROVE  cursor' \in 0..Len(feed) \cup {Never} /\ written' \in 0..now /\ fresh' \in BOOLEAN
BY DEF TypeOK, StoreCursor

LEMMA ProceedType ==
    ASSUME TypeOK, ControlInv, Proceed
    PROVE  TypeOK'
<1> USE DEF mailbox, store, hand, seen, GoTo
<1>1. CASE StartTick
  <2>1. open' \in [Pass -> [runs: Nat, latest: BOOLEAN]]
    BY <1>1, RunsType, OpenedRuns DEF StartTick, ControlInv, Pass
  <2>2. began' \in [written: 0..now, fresh: BOOLEAN]
    BY <1>1 DEF StartTick, TypeOK
  <2> QED
    BY <1>1, <2>1, <2>2 DEF StartTick, TypeOK, Steps
<1>2. CASE AskChanges
  <2>1. read' \in [upto: 0..Len(feed), at: 0..now, whole: BOOLEAN]
    <3>1. CASE cursor = Len(feed)
      BY <1>2, <3>1 DEF AskChanges, TypeOK
    <3>2. CASE cursor # Len(feed)
      <4>1. cursor \in 0..Len(feed)
        BY <1>2 DEF AskChanges, TypeOK, ControlInv
      <4>2. PICK upto \in cursor + 1..Len(feed) : read' = Cursor(upto)
        BY <1>2, <3>2 DEF AskChanges
      <4>3. upto \in 0..Len(feed)
        BY <4>1 DEF TypeOK
      <4> QED
        BY <4>2, <4>3, CursorType
    <3> QED
      BY <3>1, <3>2
  <2> QED
    BY <1>2, <2>1 DEF AskChanges, TypeOK, Steps
<1>3. CASE FetchMetadata
  BY <1>3, MetadataType DEF FetchMetadata, TypeOK, Steps
<1>4. CASE ApplyChanges
  <2>1. index' \in [Message -> 0..Len(feed)]
    BY <1>4, AppliedType DEF ApplyChanges, TypeOK
  <2>2. cursor' \in 0..Len(feed) \cup {Never} /\ written' \in 0..now /\ fresh' \in BOOLEAN
    BY <1>4, StoreCursorType DEF ApplyChanges
  <2>3. held' \in [Message -> 0..Len(feed)] /\ read' \in [upto: 0..Len(feed), at: 0..now, whole: BOOLEAN]
    BY <1>4 DEF ApplyChanges, TypeOK, None, NoRead
  <2> QED
    BY <1>4, <2>1, <2>2, <2>3 DEF ApplyChanges, TypeOK, Steps
<1>5. CASE FindGap
  <2>1. open' \in [Pass -> [runs: Nat, latest: BOOLEAN]]
    <3>1. open \in [Pass -> [runs: Nat, latest: BOOLEAN]] /\ "gap_recovery" \in Pass
      BY DEF TypeOK, Pass
    <3> QED
      BY <1>5, <3>1, OpenedRuns DEF FindGap
  <2> QED
    BY <1>5, <2>1 DEF FindGap, TypeOK, Steps
<1>6. CASE TakeCursor
  <2>1. read' \in [upto: 0..Len(feed), at: 0..now, whole: BOOLEAN]
    <3>1. Len(feed) \in 0..Len(feed)
      BY DEF TypeOK
    <3> QED
      BY <1>6, <3>1, CursorType DEF TakeCursor
  <2> QED
    BY <1>6, <2>1 DEF TakeCursor, TypeOK, Steps
<1>7. CASE OpenWindow
  <2>1. window' \in [start: Time, left: SUBSET Message, listed: SUBSET Message]
    BY <1>7, StartType DEF OpenWindow, InWindow, Live
  <2> QED
    BY <1>7, <2>1 DEF OpenWindow, TypeOK, Steps
<1>8. CASE ReadPage
  <2>1. PICK page \in SUBSET InWindow(window.start) :
            /\ held' = Metadata(page)
            /\ window' = [window EXCEPT !.left = (@ \cap Live) \ page, !.listed = @ \cup page]
    BY <1>8 DEF ReadPage
  <2>2. page \subseteq Message
    BY <2>1 DEF InWindow, Live
  <2>3. window' \in [start: Time, left: SUBSET Message, listed: SUBSET Message]
    BY <2>1, <2>2 DEF TypeOK
  <2>4. held' \in [Message -> 0..Len(feed)]
    BY <2>1, MetadataType
  <2> QED
    BY <1>8, <2>3, <2>4 DEF ReadPage, TypeOK, Steps
<1>9. CASE ApplyPage
  <2>1. index' \in [Message -> 0..Len(feed)]
    BY <1>9, AppliedType DEF ApplyPage, TypeOK
  <2>2. held' \in [Message -> 0..Len(feed)]
    BY <1>9 DEF ApplyPage, TypeOK, None
  <2> QED
    BY <1>9, <2>1, <2>2 DEF ApplyPage, TypeOK, Steps
<1>10. CASE AskHeld
  BY <1>10 DEF AskHeld, TypeOK, Steps, Unlisted
<1>11. CASE RemoveGone
  <2>1. None \in [Message -> 0..Len(feed)]
    BY DEF None, TypeOK
  <2>2. index' \in [Message -> 0..Len(feed)]
    BY <1>11, <2>1, AppliedType DEF RemoveGone
  <2> QED
    BY <1>11, <2>2 DEF RemoveGone, TypeOK, Steps
<1>12. CASE FinishRecovery
  <2>1. open["gap_recovery"].latest /\ open["gap_recovery"].runs = 1
    BY <1>12 DEF FinishRecovery, ControlInv, OneRunOpen, Listing, Pass
  <2>2. open' \in [Pass -> [runs: Nat, latest: BOOLEAN]]
    <3>1. open \in [Pass -> [runs: Nat, latest: BOOLEAN]] /\ "gap_recovery" \in Pass
      BY DEF TypeOK, Pass
    <3>2. Ended(open, "gap_recovery") \in [Pass -> [runs: Nat, latest: BOOLEAN]]
      BY <2>1, <3>1, EndedRuns
    <3> QED
      BY <1>12, <3>2 DEF FinishRecovery
  <2>3. missed' \subseteq Message
    BY <1>12 DEF FinishRecovery, Miss, Overlooked, TypeOK
  <2>4. cursor' \in 0..Len(feed) \cup {Never} /\ written' \in 0..now /\ fresh' \in BOOLEAN
    BY <1>12, StoreCursorType DEF FinishRecovery
  <2> QED
    BY <1>12, <2>2, <2>3, <2>4, PutDownType DEF FinishRecovery, TypeOK, Steps
<1>13. CASE FinishTick
  <2>1. open["tick"].latest /\ open["tick"].runs = 1
    BY <1>13 DEF FinishTick, ControlInv, OneRunOpen, Pass
  <2>2. open' \in [Pass -> [runs: Nat, latest: BOOLEAN]]
    <3>1. open \in [Pass -> [runs: Nat, latest: BOOLEAN]] /\ "tick" \in Pass
      BY DEF TypeOK, Pass
    <3>2. Ended(open, "tick") \in [Pass -> [runs: Nat, latest: BOOLEAN]]
      BY <2>1, <3>1, EndedRuns
    <3> QED
      BY <1>13, <3>2 DEF FinishTick
  <2>3. since' \in Time /\ missed' \subseteq Message /\ lagged' \in BOOLEAN
    BY <1>13 DEF FinishTick, Miss, Overlooked, TypeOK
  <2>4. cursor' \in 0..Len(feed) \cup {Never} /\ written' \in 0..now /\ fresh' \in BOOLEAN
    BY <1>13, StoreCursorType DEF FinishTick, TypeOK
  <2> QED
    BY <1>13, <2>2, <2>3, <2>4, PutDownType DEF FinishTick, TypeOK, Steps
<1> QED
  BY <1>1, <1>2, <1>3, <1>4, <1>5, <1>6, <1>7, <1>8, <1>9, <1>10, <1>11, <1>12, <1>13 DEF Proceed

LEMMA StopType ==
    ASSUME TypeOK, ControlInv, Stop
    PROVE  TypeOK'
<1>1. open' \in [Pass -> [runs: Nat, latest: BOOLEAN]]
  <2>1. PICK failed \in SUBSET {p \in Pass : open[p].latest} :
            open' = [p \in Pass |-> IF p \in failed THEN Ended(open, p)[p] ELSE open[p]]
    BY DEF Stop
  <2>2. open \in [Pass -> [runs: Nat, latest: BOOLEAN]]
    BY DEF TypeOK
  <2>3. ASSUME NEW p \in failed PROVE Ended(open, p)[p] \in [runs: Nat, latest: BOOLEAN]
    <3>1. p \in Pass /\ open[p].runs = 1
      BY DEF ControlInv, OneRunOpen
    <3>2. Ended(open, p)[p] = [runs |-> 0, latest |-> FALSE]
      BY <2>2, <3>1, EndedRuns
    <3> QED
      BY <3>2
  <2> QED
    BY <2>1, <2>2, <2>3
<1>2. stops' \in 0..MaxStops
  BY CountAssumption DEF Stop, TypeOK
<1>3. step' \in Steps
  BY DEF Stop, GoTo, Steps
<1>4. UNCHANGED <<feed, date, horizon, now, cursor, written, index, since, missed, fresh, lagged>>
  BY DEF Stop, mailbox, seen
<1>5. PutDown
  BY DEF Stop
<1> QED
  BY <1>1, <1>2, <1>3, <1>4, <1>5, PutDownType DEF TypeOK

-----------------------------------------------------------------------------
(* The control of a tick. *)

LEMMA ControlInit == Init => ControlInv
BY DEF Init, ControlInv, OneRunOpen, Listing, NoWindow, None

\* The mailbox and the clock change nothing of it.
LEMMA ControlOutside ==
    ASSUME ControlInv, Mail \/ Forget \/ Tick
    PROVE  ControlInv'
<1>1. UNCHANGED <<cursor, open, step, held, window>>
  BY DEF Mail, Arrive, Modify, Remove, ChangeUnshown, Change, Forget, Tick, store, hand
<1> QED
  BY <1>1 DEF ControlInv, OneRunOpen

LEMMA ControlStop ==
    ASSUME TypeOK, ControlInv, Stop
    PROVE  ControlInv'
<1>1. OneRunOpen'
  <2>1. PICK failed \in SUBSET {p \in Pass : open[p].latest} :
            open' = [p \in Pass |-> IF p \in failed THEN Ended(open, p)[p] ELSE open[p]]
    BY DEF Stop
  <2> SUFFICES ASSUME NEW p \in Pass PROVE open'[p].runs = IF open'[p].latest THEN 1 ELSE 0
    BY DEF OneRunOpen
  <2>2. open \in [Pass -> [runs: Nat, latest: BOOLEAN]]
    BY DEF TypeOK
  <2>3. CASE p \in failed
    <3>1. Ended(open, p)[p] = [runs |-> 0, latest |-> FALSE]
      BY <2>2, <2>3, EndedRuns DEF ControlInv, OneRunOpen
    <3> QED
      BY <2>1, <2>3, <3>1
  <2>4. CASE p \notin failed
    BY <2>1, <2>4 DEF ControlInv, OneRunOpen
  <2> QED
    BY <2>3, <2>4
<1> QED
  BY <1>1 DEF Stop, PutDown, GoTo, ControlInv, Listing, NoWindow

LEMMA ControlProceed ==
    ASSUME TypeOK, ControlInv, Proceed
    PROVE  ControlInv'
<1> USE DEF mailbox, store, hand, seen, GoTo, Listing
<1>1. CASE StartTick
  <2>1. EndStopped(open) \in [Pass -> [runs: Nat, latest: BOOLEAN]]
        /\ \A p \in Pass : EndStopped(open)[p] = [runs |-> 0, latest |-> FALSE]
    BY RunsType DEF ControlInv
  <2>2. /\ open'["tick"] = [runs |-> 1, latest |-> TRUE]
        /\ \A q \in Pass \ {"tick"} : open'[q] = [runs |-> 0, latest |-> FALSE]
    <3>1. "tick" \in Pass
      BY DEF Pass
    <3>2. /\ Opened(EndStopped(open), "tick")["tick"] =
                 [runs |-> EndStopped(open)["tick"].runs + 1, latest |-> TRUE]
          /\ \A q \in Pass \ {"tick"} : Opened(EndStopped(open), "tick")[q] = EndStopped(open)[q]
      BY <2>1, <3>1, OpenedRuns
    <3>3. EndStopped(open)["tick"].runs + 1 = 1
      BY <2>1, <3>1
    <3> QED
      BY <1>1, <2>1, <3>2, <3>3 DEF StartTick
  <2>3. OneRunOpen'
    BY <2>2 DEF OneRunOpen
  <2> QED
    BY <1>1, <2>2, <2>3 DEF StartTick, ControlInv, Pass
<1>2. CASE AskChanges
  BY <1>2 DEF AskChanges, ControlInv, OneRunOpen
<1>3. CASE FetchMetadata
  BY <1>3 DEF FetchMetadata, ControlInv, OneRunOpen
<1>4. CASE ApplyChanges
  <2>1. cursor' # Never
    BY <1>4, CursorAssumption DEF ApplyChanges, StoreCursor, TypeOK
  <2> QED
    BY <1>4, <2>1 DEF ApplyChanges, ControlInv, OneRunOpen
<1>5. CASE FindGap
  <2>1. open \in [Pass -> [runs: Nat, latest: BOOLEAN]] /\ "gap_recovery" \in Pass
    BY DEF TypeOK, Pass
  <2>2. Opened(open, "gap_recovery")["gap_recovery"] = [runs |-> open["gap_recovery"].runs + 1, latest |-> TRUE]
        /\ \A q \in Pass \ {"gap_recovery"} : Opened(open, "gap_recovery")[q] = open[q]
    BY <2>1, OpenedRuns
  <2>3. open["gap_recovery"].runs = 0
    BY <1>5, <2>1 DEF FindGap, ControlInv, OneRunOpen
  <2>4. /\ open'["gap_recovery"] = [runs |-> 1, latest |-> TRUE]
        /\ \A q \in Pass \ {"gap_recovery"} : open'[q] = open[q]
    BY <1>5, <2>2, <2>3 DEF FindGap
  <2>5. OneRunOpen' /\ open'["tick"].latest
    BY <1>5, <2>4 DEF FindGap, OneRunOpen, ControlInv, Pass
  <2> QED
    BY <1>5, <2>4, <2>5 DEF FindGap, ControlInv
<1>6. CASE TakeCursor
  BY <1>6 DEF TakeCursor, ControlInv, OneRunOpen
<1>7. CASE OpenWindow
  BY <1>7 DEF OpenWindow, ControlInv, OneRunOpen
<1>8. CASE ReadPage
  BY <1>8 DEF ReadPage, ControlInv, OneRunOpen
<1>9. CASE ApplyPage
  BY <1>9 DEF ApplyPage, ControlInv, OneRunOpen
<1>10. CASE AskHeld
  BY <1>10 DEF AskHeld, ControlInv, OneRunOpen
<1>11. CASE RemoveGone
  BY <1>11 DEF RemoveGone, ControlInv, OneRunOpen
<1>12. CASE FinishRecovery
  <2>1. /\ open \in [Pass -> [runs: Nat, latest: BOOLEAN]] /\ "gap_recovery" \in Pass
        /\ open["gap_recovery"].runs = 1
    BY <1>12 DEF FinishRecovery, ControlInv, OneRunOpen, TypeOK, Pass
  <2>2. /\ open'["gap_recovery"] = [runs |-> 0, latest |-> FALSE]
        /\ \A q \in Pass \ {"gap_recovery"} : open'[q] = open[q]
    BY <1>12, <2>1, EndedRuns DEF FinishRecovery
  <2>3. OneRunOpen' /\ open'["tick"].latest
    BY <1>12, <2>2 DEF FinishRecovery, OneRunOpen, ControlInv, Pass
  <2> QED
    BY <1>12, <2>3 DEF FinishRecovery, ControlInv, PutDown, NoWindow
<1>13. CASE FinishTick
  <2>1. /\ open \in [Pass -> [runs: Nat, latest: BOOLEAN]] /\ "tick" \in Pass
        /\ open["tick"].runs = 1
    BY <1>13 DEF FinishTick, ControlInv, OneRunOpen, TypeOK, Pass
  <2>2. /\ open'["tick"] = [runs |-> 0, latest |-> FALSE]
        /\ \A q \in Pass \ {"tick"} : open'[q] = open[q]
    BY <1>13, <2>1, EndedRuns DEF FinishTick
  <2>3. OneRunOpen'
    BY <2>2 DEF OneRunOpen, ControlInv
  <2> QED
    BY <1>13, <2>3 DEF FinishTick, ControlInv, PutDown, NoWindow
<1> QED
  BY <1>1, <1>2, <1>3, <1>4, <1>5, <1>6, <1>7, <1>8, <1>9, <1>10, <1>11, <1>12, <1>13 DEF Proceed

-----------------------------------------------------------------------------
(* The mailbox's changes. *)

\* A change is the feed's last, and leaves those before it as they were.
LEMMA Appended ==
    ASSUME TypeOK, NEW m \in Message \cup {Nobody}, NEW kind \in Kind, Change(m, kind)
    PROVE  /\ Len(feed) \in Nat /\ Len(feed') = Len(feed) + 1
           /\ \A i \in 1..Len(feed) : feed'[i] = feed[i]
           /\ feed'[Len(feed) + 1].msg = m /\ feed'[Len(feed) + 1].kind = kind
<1> DEFINE R == [msg: Message \cup {Nobody}, kind: Kind, at: 0..MaxTime]
<1> DEFINE c == [msg |-> m, kind |-> kind, at |-> Stamp]
<1>1. c \in R
  BY TimeAssumption DEF TypeOK, Stamp
<1>2. feed \in Seq(R) /\ feed' = Append(feed, c)
  BY DEF TypeOK, Change
<1>3. /\ Len(feed) \in Nat /\ Len(feed') = Len(feed) + 1
      /\ \A i \in 1..Len(feed) : feed'[i] = feed[i]
      /\ feed'[Len(feed) + 1] = c
  <2> HIDE DEF R, c
  <2> QED
    BY <1>1, <1>2
<1> QED
  BY <1>3

\* What has come and gone before a position stays so, and only one message comes.
LEMMA ChangeComes ==
    ASSUME TypeOK, NEW m \in Message \cup {Nobody}, NEW kind \in Kind, Change(m, kind)
    PROVE  /\ \A q \in Message, u \in 0..Len(feed) :
                  (\E i \in 1..u : feed'[i].msg = q) <=> Came(q, u)
           /\ \A q \in Message :
                  (\E i \in 1..Len(feed') : feed'[i].msg = q) <=> Came(q, Len(feed)) \/ q = m
           /\ \A q \in Message :
                  (\E i \in 1..Len(feed') : feed'[i].msg = q /\ feed'[i].kind = "removed")
                      <=> Gone(q, Len(feed)) \/ (q = m /\ kind = "removed")
<1>1. /\ Len(feed) \in Nat /\ Len(feed') = Len(feed) + 1
      /\ \A i \in 1..Len(feed) : feed'[i] = feed[i]
      /\ feed'[Len(feed) + 1].msg = m /\ feed'[Len(feed) + 1].kind = kind
  BY Appended
<1>2. ASSUME NEW q \in Message, NEW u \in 0..Len(feed)
      PROVE  (\E i \in 1..u : feed'[i].msg = q) <=> Came(q, u)
  BY <1>1 DEF Came
<1>3. \A i \in 1..Len(feed') : i \in 1..Len(feed) \/ i = Len(feed) + 1
  BY <1>1
<1>4. ASSUME NEW q \in Message
      PROVE  (\E i \in 1..Len(feed') : feed'[i].msg = q) <=> Came(q, Len(feed)) \/ q = m
  BY <1>1, <1>3 DEF Came
<1>5. ASSUME NEW q \in Message
      PROVE  (\E i \in 1..Len(feed') : feed'[i].msg = q /\ feed'[i].kind = "removed")
                 <=> Gone(q, Len(feed)) \/ (q = m /\ kind = "removed")
  BY <1>1, <1>3 DEF Gone, ChangesOf
<1> QED
  BY <1>2, <1>4, <1>5

\* Mail comes with a date the drift allows, and changes neither what has come
\* nor its date; no message that had come and gone is held again.
LEMMA MailStep ==
    ASSUME TypeOK, Mail
    PROVE  /\ \A q \in Message, u \in 0..Len(feed) : (\E i \in 1..u : feed'[i].msg = q) <=> Came(q, u)
           /\ \A q \in Message : Came(q, Len(feed)) =>
                  (\E i \in 1..Len(feed') : feed'[i].msg = q) /\ date'[q] = date[q]
           /\ \A q \in Message : ~Came(q, Len(feed)) /\ (\E i \in 1..Len(feed') : feed'[i].msg = q) =>
                  date'[q] >= now - Drift
           /\ \A q \in Message : Gone(q, Len(feed)) =>
                  \E i \in 1..Len(feed') : feed'[i].msg = q /\ feed'[i].kind = "removed"
           /\ \A q \in Live' : q \in Message /\ (Came(q, Len(feed)) => q \in Live)
           /\ KindInv => KindInv'
           /\ Len(feed') \in Nat /\ Len(feed') >= Len(feed) /\ \A i \in 1..Len(feed) : feed'[i] = feed[i]
           /\ UNCHANGED <<horizon, now, cursor, written, index, open, step, began, read, held, window, asked, stops,
                          since, missed, fresh, lagged>>
<1> DEFINE P(q) == \E i \in 1..Len(feed') : feed'[i].msg = q
<1> DEFINE G(q) == \E i \in 1..Len(feed') : feed'[i].msg = q /\ feed'[i].kind = "removed"
<1>1. Live' = {q \in Message : P(q) /\ ~G(q)}
  BY DEF Live, Came, Gone, ChangesOf
<1> DEFINE OneChange == \E m \in Message \cup {Nobody}, kind \in Kind :
              /\ Change(m, kind) /\ (m \in Message => kind # "unshown")
              /\ \/ UNCHANGED date /\ (m \in Message => Came(m, Len(feed)))
                 \/ /\ m \in Message /\ ~Came(m, Len(feed)) /\ kind = "added"
                    /\ \E late \in 0..Drift : date' = [date EXCEPT ![m] = now - late]
<1>2. OneChange
  <2>1. ASSUME NEW m \in Message, Arrive(m) PROVE OneChange
    <3>1. "added" \in Kind /\ "added" # "unshown"
      BY DEF Kind
    <3> QED
      BY <2>1, <3>1 DEF Arrive
  <2>2. ASSUME NEW m \in Message, Modify(m) \/ Remove(m) PROVE OneChange
    <3>1. "modified" \in Kind /\ "removed" \in Kind
      BY DEF Kind
    <3>2. Came(m, Len(feed)) /\ UNCHANGED date /\ (Change(m, "modified") \/ Change(m, "removed"))
      BY <2>2 DEF Modify, Remove, Live
    <3> QED
      BY <3>1, <3>2
  <2>3. ASSUME ChangeUnshown PROVE OneChange
    <3>1. "unshown" \in Kind
      BY DEF Kind
    <3> QED
      BY <2>3, <3>1, MessageAssumption DEF ChangeUnshown
  <2> QED
    BY <2>1, <2>2, <2>3 DEF Mail
<1>3. PICK m \in Message \cup {Nobody}, kind \in Kind :
          /\ Change(m, kind) /\ (m \in Message => kind # "unshown")
          /\ \/ UNCHANGED date /\ (m \in Message => Came(m, Len(feed)))
             \/ /\ m \in Message /\ ~Came(m, Len(feed)) /\ kind = "added"
                /\ \E late \in 0..Drift : date' = [date EXCEPT ![m] = now - late]
  BY <1>2
<1>4. /\ \A q \in Message, u \in 0..Len(feed) : (\E i \in 1..u : feed'[i].msg = q) <=> Came(q, u)
      /\ \A q \in Message : P(q) <=> Came(q, Len(feed)) \/ q = m
      /\ \A q \in Message : G(q) <=> Gone(q, Len(feed)) \/ (q = m /\ kind = "removed")
  BY <1>3, ChangeComes
<1>5. /\ Len(feed) \in Nat /\ Len(feed') = Len(feed) + 1
      /\ \A i \in 1..Len(feed) : feed'[i] = feed[i]
      /\ feed'[Len(feed) + 1].msg = m /\ feed'[Len(feed) + 1].kind = kind
  BY <1>3, Appended
<1> HIDE DEF P, G
<1>6. \A q \in Message : Came(q, Len(feed)) => date'[q] = date[q]
  BY <1>3 DEF TypeOK
<1>7. \A q \in Message : ~Came(q, Len(feed)) /\ P(q) => date'[q] >= now - Drift
  <2> SUFFICES ASSUME NEW q \in Message, ~Came(q, Len(feed)), P(q) PROVE date'[q] >= now - Drift
    OBVIOUS
  <2>1. q = m
    BY <1>4
  <2>2. PICK late \in 0..Drift : date' = [date EXCEPT ![m] = now - late]
    BY <1>3, <2>1
  <2> QED
    BY <2>1, <2>2, TimeNat DEF TypeOK
<1>8. \A q \in Live' : q \in Message /\ (Came(q, Len(feed)) => q \in Live)
  BY <1>1, <1>4 DEF Live
<1>9. KindInv => KindInv'
  <2> SUFFICES ASSUME KindInv, NEW i \in 1..Len(feed'), feed'[i].msg \in Message PROVE feed'[i].kind # "unshown"
    BY DEF KindInv
  <2>1. CASE i \in 1..Len(feed)
    BY <1>5, <2>1 DEF KindInv
  <2>2. CASE i = Len(feed) + 1
    BY <1>3, <1>5, <2>2
  <2> QED
    BY <1>5, <2>1, <2>2
<1>10. UNCHANGED <<horizon, now, cursor, written, index, open, step, began, read, held, window, asked, stops,
                   since, missed, fresh, lagged>>
  BY <1>3 DEF Change, store, hand, seen
<1> QED
  BY <1>4, <1>5, <1>6, <1>7, <1>8, <1>9, <1>10 DEF P, G

-----------------------------------------------------------------------------
(* The invariant holds at first, and whatever the mailbox and the clock do. *)

LEMMA SafeInit == Init => Safe
<1> SUFFICES ASSUME Init PROVE Safe
  OBVIOUS
<1>1. Len(feed) = 0 /\ ControlInv
  BY ControlInit DEF Init
<1>2. Live = {}
  BY <1>1 DEF Live, Came
<1>3. KnownInv /\ CursorInv /\ KindInv
  BY <1>1 DEF Init, None, NoWindow, NoRead, KnownInv, CursorInv, KindInv
<1>4. HandInv
  BY <1>2 DEF Init, None, NoWindow, NoRead, HandInv, Listing
<1>5. MailKept
  BY <1>2 DEF MailKept, InIndex
<1>6. StartInv
  BY DEF Init, NoStart, StartInv
<1> QED
  BY <1>1, <1>3, <1>4, <1>5, <1>6 DEF Safe

LEMMA SafeMail ==
    ASSUME TypeOK, Safe, Mail
    PROVE  Safe'
<1> DEFINE Then(q, u) == \E i \in 1..u : feed'[i].msg = q
<1>1. /\ \A q \in Message, u \in 0..Len(feed) : Then(q, u) <=> Came(q, u)
      /\ \A q \in Message : Came(q, Len(feed)) => Then(q, Len(feed')) /\ date'[q] = date[q]
      /\ \A q \in Message : ~Came(q, Len(feed)) /\ Then(q, Len(feed')) => date'[q] >= now - Drift
      /\ \A q \in Message : Gone(q, Len(feed)) =>
             \E i \in 1..Len(feed') : feed'[i].msg = q /\ feed'[i].kind = "removed"
      /\ \A q \in Live' : q \in Message /\ (Came(q, Len(feed)) => q \in Live)
      /\ KindInv => KindInv'
      /\ Len(feed') \in Nat /\ Len(feed') >= Len(feed) /\ \A i \in 1..Len(feed) : feed'[i] = feed[i]
  BY MailStep
<1>2. UNCHANGED <<horizon, now, cursor, written, index, open, step, began, read, held, window, asked, stops,
                  since, missed, fresh, lagged>>
  BY MailStep
<1>3. /\ Len(feed) \in Nat /\ read.upto \in 0..Len(feed) /\ read.at \in 0..now /\ written \in 0..now
      /\ began.written \in 0..now
      /\ cursor # Never => cursor \in 0..Len(feed)
      /\ now \in Nat
  BY DEF TypeOK
<1>4. ControlInv'
  BY ControlOutside DEF Safe
<1>5. KnownInv'
  <2>1. ASSUME NEW q \in Message, index[q] # 0 \/ held[q] # 0 \/ q \in window.listed PROVE Then(q, Len(feed'))
    <3>1. Came(q, Len(feed))
      BY <2>1 DEF Safe, KnownInv
    <3> QED
      BY <1>1, <3>1
  <2>2. ASSUME step = "removing", NEW q \in asked
        PROVE  \E i \in 1..Len(feed') : feed'[i].msg = q /\ feed'[i].kind = "removed"
    <3>1. q \in Message /\ Gone(q, Len(feed))
      BY <2>2 DEF Safe, KnownInv, TypeOK
    <3> QED
      BY <1>1, <3>1
  <2> QED
    BY <1>2, <2>1, <2>2 DEF KnownInv, Came, Gone, ChangesOf
<1>6. ASSUME NEW u \in 0..Len(feed), NEW d \in Int, d <= now - Drift, DatedSince(u, d),
             NEW q \in Message, Then(q, Len(feed')), ~Then(q, u)
      PROVE  date'[q] >= d
  <2>1. ~Came(q, u)
    BY <1>1, <1>6
  <2>2. CASE Came(q, Len(feed))
    <3>1. date[q] >= d /\ date'[q] = date[q]
      BY <1>1, <1>6, <2>1, <2>2 DEF DatedSince
    <3> QED
      BY <3>1
  <2>3. CASE ~Came(q, Len(feed))
    <3>1. date'[q] >= now - Drift
      BY <1>1, <1>6, <2>3
    <3>2. date'[q] \in Int
      <4>1. TypeOK'
        BY MailType
      <4> QED
        BY <1>6, <4>1, TimeNat DEF TypeOK, Time
    <3> QED
      BY <1>3, <1>6, <3>1, <3>2, TimeNat
  <2> QED
    BY <2>2, <2>3
<1>7. CursorInv'
  <2>2. ASSUME read.whole, NEW q \in Message, Then(q, Len(feed')), ~Then(q, read.upto)
        PROVE  date'[q] >= read.at - Drift
    <3>1. read.at - Drift \in Int /\ read.at - Drift <= now - Drift
      BY <1>3, TimeNat
    <3>2. DatedSince(read.upto, read.at - Drift)
      BY <2>2 DEF Safe, CursorInv
    <3> QED
      BY <1>3, <1>6, <2>2, <3>1, <3>2
  <2>3. ASSUME fresh, NEW q \in Message, Then(q, Len(feed')), ~Then(q, cursor)
        PROVE  date'[q] >= written - Overlap
    <3>1. cursor \in 0..Len(feed) /\ Drift <= Overlap /\ DatedSince(cursor, written - Overlap)
      BY <1>3, <2>3 DEF Safe, CursorInv
    <3>2. written - Overlap \in Int /\ written - Overlap <= now - Drift
      BY <1>3, <3>1, TimeNat
    <3> QED
      BY <1>6, <2>3, <3>1, <3>2
  <2>4. fresh => cursor # Never /\ Drift <= Overlap
    BY DEF Safe, CursorInv
  <2> QED
    BY <1>2, <2>2, <2>3, <2>4 DEF CursorInv, DatedSince, Came
<1>8. StartInv'
  <2>1. ASSUME began.fresh, NEW q \in Message, Then(q, Len(feed')), ~Then(q, cursor)
        PROVE  date'[q] >= began.written - Overlap
    <3>1. cursor \in 0..Len(feed) /\ Drift <= Overlap /\ DatedSince(cursor, began.written - Overlap)
      BY <1>3, <2>1 DEF Safe, StartInv
    <3>2. began.written - Overlap \in Int /\ began.written - Overlap <= now - Drift
      BY <1>3, <3>1, TimeNat
    <3> QED
      BY <1>6, <2>1, <3>1, <3>2
  <2>2. /\ began.written <= written /\ (began.fresh => cursor # Never /\ Drift <= Overlap)
        /\ step \in {"fetching", "applying"} => cursor <= read.upto
    BY DEF Safe, StartInv
  <2> QED
    BY <1>2, <2>1, <2>2 DEF StartInv, DatedSince, Came
<1>9. HandInv'
  <2>1. ASSUME step = "applying", NEW q \in Fetched' \cap Live' PROVE held[q] # 0
    <3>1. cursor \in 0..Len(feed)
      BY <1>3, <2>1 DEF Safe, ControlInv
    <3>2. \A i \in cursor + 1..read.upto : i \in 1..Len(feed) /\ feed'[i] = feed[i]
      BY <1>1, <1>3, <3>1
    <3>3. q \in Fetched
      BY <1>2, <2>1, <3>2 DEF Fetched, Removed, Named, Changes
    <3>4. Came(q, Len(feed))
      BY <3>2, <3>3 DEF Fetched, Named, Changes, Came
    <3>5. q \in Live
      BY <1>1, <2>1, <3>4
    <3> QED
      BY <2>1, <3>3, <3>5 DEF Safe, HandInv
  <2>2. ASSUME step \in Listing \/ (step = "ending" /\ cursor = Never),
               NEW q \in Live' \ Hidden, Then(q, read.upto), date'[q] >= window.start
        PROVE  q \in window.left \cup window.listed
    <3>1. q \in Message /\ Came(q, read.upto)
      BY <1>1, <1>3, <2>2
    <3>2. Came(q, Len(feed))
      BY <1>3, <3>1 DEF Came
    <3>3. q \in Live /\ date'[q] = date[q]
      BY <1>1, <2>2, <3>1, <3>2
    <3> QED
      BY <2>2, <3>1, <3>3 DEF Safe, HandInv
  <2>3. ASSUME NEW q \in window.listed \cap Live' PROVE index[q] # 0 \/ held[q] # 0
    <3>1. q \in Message
      BY <1>1
    <3>2. Came(q, Len(feed))
      BY <3>1 DEF Safe, KnownInv
    <3>3. q \in Live
      BY <1>1, <3>2
    <3> QED
      BY <3>3 DEF Safe, HandInv
  <2>4. /\ step \notin {"listing", "storing"} => window.left = {}
        /\ step \in Listing /\ cursor # Never => window.start = began.written - Overlap /\ (fresh \/ began.fresh \/ lagged)
    BY DEF Safe, HandInv
  <2> HIDE DEF Listing
  <2> QED
    BY <1>2, <2>1, <2>2, <2>3, <2>4 DEF HandInv, Came
<1>10. KindInv'
  BY <1>1 DEF Safe
<1>11. MailKept'
  <2>1. Through' = Through /\ Through \in 0..Len(feed)
    BY <1>2, <1>3 DEF Through
  <2>2. ASSUME ~lagged, NEW q \in Live' \ Hidden, Then(q, Through), date'[q] >= since PROVE index[q] # 0
    <3>1. q \in Message /\ Came(q, Through)
      BY <1>1, <2>1, <2>2
    <3>2. Came(q, Len(feed))
      BY <1>3, <2>1, <3>1 DEF Came
    <3>3. q \in Live /\ date'[q] = date[q]
      BY <1>1, <2>2, <3>1, <3>2
    <3> QED
      BY <2>2, <3>1, <3>3 DEF Safe, MailKept, InIndex
  <2> QED
    BY <1>2, <2>1, <2>2 DEF MailKept, InIndex, Came
<1> QED
  BY <1>4, <1>5, <1>7, <1>8, <1>9, <1>10, <1>11 DEF Safe

LEMMA SafeOutside ==
    ASSUME TypeOK, Safe, Forget \/ Tick
    PROVE  Safe'
<1>1. UNCHANGED <<feed, date, cursor, written, index, open, step, began, read, held, window, asked, stops,
                  since, missed, fresh, lagged>>
  BY DEF Forget, Tick, mailbox, store, hand, seen
<1>2. Live' = Live /\ Fetched' = Fetched
  BY <1>1 DEF Live, Came, Gone, ChangesOf, Fetched, Removed, Named, Changes
<1>3. ControlInv'
  BY ControlOutside DEF Safe
<1>4. KnownInv'
  BY <1>1 DEF Safe, KnownInv, Came, Gone, ChangesOf
<1>5. CursorInv'
  BY <1>1 DEF Safe, CursorInv, DatedSince, Came
<1>6. HandInv'
  BY <1>1, <1>2 DEF Safe, HandInv, Came
<1>7. KindInv'
  BY <1>1 DEF Safe, KindInv
<1>8. MailKept'
  BY <1>1, <1>2 DEF Safe, MailKept, InIndex, Through, Came
<1>9. StartInv'
  BY <1>1 DEF Safe, StartInv, DatedSince, Came
<1> QED
  BY <1>3, <1>4, <1>5, <1>6, <1>7, <1>8, <1>9 DEF Safe

-----------------------------------------------------------------------------
(* The invariant is kept by the steps of a tick. *)

\* The mailbox does not change while a tick takes a step.
LEMMA MailboxRests ==
    ASSUME Proceed \/ Stop
    PROVE  /\ feed' = feed /\ date' = date /\ now' = now
           /\ Live' = Live
<1>1. feed' = feed /\ date' = date /\ now' = now
  BY DEF Proceed, StartTick, AskChanges, FetchMetadata, ApplyChanges, FindGap, TakeCursor, OpenWindow,
         ReadPage, ApplyPage, AskHeld, RemoveGone, FinishRecovery, FinishTick, Stop, mailbox
<1> QED
  BY <1>1 DEF Live, Came, Gone, ChangesOf

\* A transaction stores what is held, keeps what it does not remove, and stores
\* nothing else.
LEMMA AppliedIs ==
    ASSUME NEW gone, NEW metadata, NEW q \in Message
    PROVE  /\ metadata[q] # 0 => Applied(gone, metadata)[q] # 0
           /\ index[q] # 0 /\ q \notin gone => Applied(gone, metadata)[q] # 0
           /\ Applied(gone, metadata)[q] # 0 => index[q] # 0 \/ metadata[q] # 0
BY DEF Applied

\* The metadata of a message is there if and only if the mailbox holds it.
LEMMA MetadataIs ==
    ASSUME TypeOK, NEW ids, NEW q \in Message
    PROVE  Metadata(ids)[q] # 0 <=> q \in ids \cap Live
<1>1. Metadata(ids)[q] # 0 => q \in ids \cap Live
  BY DEF Metadata
<1>2. q \in ids \cap Live => Metadata(ids)[q] # 0
  BY MetadataType
<1> QED
  BY <1>1, <1>2

\* A removal the tick has read is of a message the mailbox holds no more.
LEMMA RemovedGone ==
    ASSUME TypeOK, Safe, step = "applying"
    PROVE  Removed \cap Live = {}
<1>1. cursor \in 0..Len(feed) /\ read.upto \in 0..Len(feed) /\ Len(feed) \in Nat
  BY DEF TypeOK, Safe, ControlInv
<1>2. ASSUME NEW q \in Removed, q \in Live PROVE FALSE
  <2>1. PICK i \in cursor + 1..read.upto : feed[i].msg = q /\ feed[i].kind = "removed"
    BY <1>2 DEF Removed, Named, Changes
  <2>2. i \in 1..Len(feed)
    BY <1>1
  <2> QED
    BY <1>2, <2>1, <2>2 DEF Live, Gone, ChangesOf
<1> QED
  BY <1>2

LEMMA KnownProceed ==
    ASSUME TypeOK, Safe, Proceed \/ Stop
    PROVE  KnownInv'
<1> USE DEF mailbox, store, hand, seen, GoTo
<1> DEFINE Known(q) == index'[q] # 0 \/ held'[q] # 0 \/ q \in window'.listed
<1> SUFFICES /\ \A q \in Message : Known(q) => Came(q, Len(feed))
             /\ step' = "removing" => \A q \in asked' : Gone(q, Len(feed))
  BY MailboxRests DEF KnownInv, Came, Gone, ChangesOf
<1>1. /\ \A q \in Message : index[q] # 0 \/ held[q] # 0 \/ q \in window.listed => Came(q, Len(feed))
      /\ step = "removing" => \A q \in asked : Gone(q, Len(feed))
  BY DEF Safe, KnownInv
<1>2. \A ids : \A q \in Message : Metadata(ids)[q] # 0 => Came(q, Len(feed))
  BY MetadataIs DEF Live
<1>3. CASE StartTick \/ FindGap \/ TakeCursor
  BY <1>1, <1>3 DEF StartTick, FindGap, TakeCursor
<1>4. CASE AskChanges
  BY <1>1, <1>4 DEF AskChanges
<1>5. CASE FetchMetadata
  BY <1>1, <1>2, <1>5 DEF FetchMetadata
<1>6. CASE ApplyChanges
  BY <1>1, <1>6, AppliedIs DEF ApplyChanges, None
<1>7. CASE OpenWindow
  BY <1>1, <1>7 DEF OpenWindow
<1>8. CASE ReadPage
  <2>1. PICK page \in SUBSET InWindow(window.start) :
            /\ held' = Metadata(page)
            /\ window' = [window EXCEPT !.left = (@ \cap Live) \ page, !.listed = @ \cup page]
    BY <1>8 DEF ReadPage
  <2>2. page \subseteq Live /\ window'.listed = window.listed \cup page
    BY <2>1 DEF InWindow, TypeOK
  <2> QED
    BY <1>1, <1>2, <1>8, <2>1, <2>2 DEF ReadPage, Live
<1>9. CASE ApplyPage
  BY <1>1, <1>9, AppliedIs DEF ApplyPage, None
<1>10. CASE AskHeld
  <2>1. \A q \in asked' : index[q] # 0 /\ q \in Message \ Live
    BY <1>10 DEF AskHeld, Unlisted
  <2>2. \A q \in asked' : Gone(q, Len(feed))
    BY <1>1, <2>1 DEF Live
  <2> QED
    BY <1>1, <1>10, <2>2 DEF AskHeld
<1>11. CASE RemoveGone
  BY <1>1, <1>11, AppliedIs DEF RemoveGone, None
<1>12. CASE FinishRecovery \/ FinishTick \/ Stop
  BY <1>1, <1>12 DEF FinishRecovery, FinishTick, Stop, PutDown, None, NoWindow
<1> QED
  BY <1>3, <1>4, <1>5, <1>6, <1>7, <1>8, <1>9, <1>10, <1>11, <1>12 DEF Proceed

\* A cursor stored in time is as fresh as the reading it was taken at.
LEMMA StoredFresh ==
    ASSUME TypeOK, Safe, StoreCursor, fresh'
    PROVE  cursor' # Never /\ Drift <= Overlap /\ DatedSince(cursor', written' - Overlap)
<1>1. read.whole /\ now - read.at + Drift <= Overlap /\ cursor' = read.upto /\ written' = now
  BY DEF StoreCursor
<1>2. DatedSince(read.upto, read.at - Drift)
  BY <1>1 DEF Safe, CursorInv
<1>3. read.at \in 0..now /\ now \in Nat /\ read.upto \in Nat
  BY DEF TypeOK
<1>4. Drift <= Overlap /\ now - Overlap <= read.at - Drift /\ now - Overlap \in Int /\ read.at - Drift \in Int
  BY <1>1, <1>3, TimeNat
<1>5. \A q \in Message : date[q] \in Int
  BY TimeNat DEF TypeOK, Time
<1>6. DatedSince(read.upto, now - Overlap)
  BY <1>2, <1>4, <1>5 DEF DatedSince
<1> QED
  BY <1>1, <1>3, <1>4, <1>6, CursorAssumption

LEMMA CursorProceed ==
    ASSUME TypeOK, Safe, Proceed \/ Stop
    PROVE  CursorInv'
<1> USE DEF mailbox, store, hand, seen, GoTo
<1> SUFFICES /\ read'.whole => DatedSince(read'.upto, read'.at - Drift)
             /\ fresh' => cursor' # Never /\ Drift <= Overlap /\ DatedSince(cursor', written' - Overlap)
  BY MailboxRests DEF CursorInv, DatedSince, Came
<1>0. \A upto : Cursor(upto).upto = upto /\ Cursor(upto).at = now /\ (Cursor(upto).whole <=> upto = Len(feed))
  BY DEF Cursor
<1>1. CursorInv /\ DatedSince(Len(feed), now - Drift)
  BY DEF Safe, DatedSince
<1>2. CASE StartTick \/ FetchMetadata \/ FindGap \/ OpenWindow \/ ReadPage \/ ApplyPage \/ AskHeld \/ RemoveGone
  <2>1. UNCHANGED <<read, cursor, written, fresh>>
    BY <1>2 DEF StartTick, FetchMetadata, FindGap, OpenWindow, ReadPage, ApplyPage, AskHeld, RemoveGone
  <2> QED
    BY <1>1, <2>1 DEF CursorInv
<1>3. CASE AskChanges
  <2>1. read' = read \/ \E upto : read' = Cursor(upto)
    BY <1>3 DEF AskChanges
  <2>2. UNCHANGED <<cursor, written, fresh>>
    BY <1>3 DEF AskChanges
  <2>3. ASSUME read' = read PROVE read'.whole => DatedSince(read'.upto, read'.at - Drift)
    BY <1>1, <2>3 DEF CursorInv
  <2>4. ASSUME NEW upto, read' = Cursor(upto) PROVE read'.whole => DatedSince(read'.upto, read'.at - Drift)
    BY <1>1, <1>0, <2>4
  <2> QED
    BY <1>1, <2>1, <2>2, <2>3, <2>4 DEF CursorInv
<1>4. CASE TakeCursor
  <2>1. read' = Cursor(Len(feed)) /\ UNCHANGED <<cursor, written, fresh>>
    BY <1>4 DEF TakeCursor
  <2>2. read'.whole => DatedSince(read'.upto, read'.at - Drift)
    BY <1>1, <1>0, <2>1
  <2> QED
    BY <1>1, <2>1, <2>2 DEF CursorInv
<1>5. CASE ApplyChanges
  BY <1>5, StoredFresh DEF ApplyChanges, NoRead
<1>6. CASE FinishRecovery
  BY <1>6, StoredFresh DEF FinishRecovery, PutDown, NoRead
<1>7. CASE FinishTick
  BY <1>1, <1>7, StoredFresh DEF CursorInv, FinishTick, PutDown, NoRead
<1>8. CASE Stop
  BY <1>1, <1>8 DEF CursorInv, Stop, PutDown, NoRead
<1> QED
  BY <1>2, <1>3, <1>4, <1>5, <1>6, <1>7, <1>8 DEF Proceed

\* What a tick stores is stored later than what it started from, and is further in the
\* feed.
LEMMA StartProceed ==
    ASSUME TypeOK, Safe, Proceed \/ Stop
    PROVE  StartInv'
<1> USE DEF mailbox, store, hand, seen, GoTo
<1> SUFFICES /\ began'.written <= written'
             /\ began'.fresh => cursor' # Never /\ Drift <= Overlap
                                /\ DatedSince(cursor', began'.written - Overlap)
             /\ step' \in {"fetching", "applying"} => cursor' <= read'.upto
  BY MailboxRests DEF StartInv, DatedSince, Came
<1>1. StartInv /\ CursorInv
  BY DEF Safe
<1>2. CASE StartTick
  <2>1. /\ began' = [written |-> written, fresh |-> fresh] /\ UNCHANGED <<cursor, written>>
        /\ step' \in {"taking", "asking"}
    BY <1>2 DEF StartTick
  <2> QED
    BY <1>1, <2>1 DEF CursorInv, TypeOK
<1>3. CASE AskChanges
  <2>1. UNCHANGED <<began, cursor, written>> /\ cursor \in 0..Len(feed)
    BY <1>3 DEF AskChanges, Safe, ControlInv, TypeOK
  <2>2. ASSUME step' \in {"fetching", "applying"} PROVE cursor' <= read'.upto
    <3>1. PICK upto \in cursor + 1..Len(feed) : read' = Cursor(upto)
      BY <1>3, <2>2 DEF AskChanges
    <3> QED
      BY <2>1, <3>1 DEF Cursor, TypeOK
  <2> QED
    BY <1>1, <2>1, <2>2 DEF StartInv
<1>4. CASE FetchMetadata
  <2>1. UNCHANGED <<began, read, cursor, written>> /\ step = "fetching"
    BY <1>4 DEF FetchMetadata
  <2> QED
    BY <1>1, <2>1 DEF StartInv
<1>5. CASE ApplyChanges
  <2>1. /\ step = "applying" /\ step' \in {"ending", "asking"} /\ UNCHANGED began
        /\ cursor' = read.upto /\ written' = now
    BY <1>5 DEF ApplyChanges, StoreCursor
  <2>2. /\ cursor \in 0..Len(feed) /\ read.upto \in 0..Len(feed) /\ Len(feed) \in Nat
        /\ began.written \in 0..now /\ now \in Nat /\ cursor <= read.upto
    BY <1>1, <2>1 DEF StartInv, Safe, ControlInv, TypeOK
  <2>3. \A q \in Message : Came(q, cursor) => Came(q, read.upto)
    BY <2>2 DEF Came
  <2>4. began.fresh => DatedSince(read.upto, began.written - Overlap)
    BY <1>1, <2>3 DEF StartInv, DatedSince
  <2>5. cursor' # Never
    BY <2>1, <2>2, CursorAssumption
  <2> QED
    BY <1>1, <2>1, <2>2, <2>4, <2>5 DEF StartInv
<1>6. CASE \/ FindGap \/ TakeCursor \/ OpenWindow \/ ReadPage \/ ApplyPage \/ AskHeld
           \/ RemoveGone
  <2>1. UNCHANGED <<began, cursor, written>> /\ step' \notin {"fetching", "applying"}
    BY <1>6 DEF FindGap, TakeCursor, OpenWindow, ReadPage, ApplyPage, AskHeld, RemoveGone
  <2> QED
    BY <1>1, <2>1 DEF StartInv
<1>7. CASE FinishRecovery \/ FinishTick \/ Stop
  <2>1. began' = NoStart /\ step' \in {"ending", "idle"}
    BY <1>7 DEF FinishRecovery, FinishTick, Stop, PutDown
  <2>2. written' \in Nat
    <3>1. written \in Nat /\ now \in Nat
      BY DEF TypeOK
    <3> QED
      BY <1>7, <3>1 DEF FinishRecovery, FinishTick, Stop, StoreCursor
  <2> QED
    BY <2>1, <2>2 DEF NoStart
<1> QED
  BY <1>2, <1>3, <1>4, <1>5, <1>6, <1>7 DEF Proceed

\* What the mailbox holds is not removed from the index.
LEMMA LiveStays ==
    ASSUME TypeOK, Safe, Proceed \/ Stop, NEW q \in Live, index[q] # 0
    PROVE  index'[q] # 0
<1> USE DEF store, GoTo
<1>0. q \in Message
  BY DEF Live
<1>1. CASE ApplyChanges
  <2>1. q \notin Removed
    BY <1>1, RemovedGone DEF ApplyChanges
  <2> QED
    BY <1>0, <1>1, <2>1, AppliedIs DEF ApplyChanges
<1>2. CASE ApplyPage
  BY <1>0, <1>2, AppliedIs DEF ApplyPage
<1>3. CASE RemoveGone
  <2>1. q \notin asked
    BY <1>3 DEF RemoveGone, Safe, KnownInv, Live
  <2> QED
    BY <1>0, <1>3, <2>1, AppliedIs DEF RemoveGone
<1>4. CASE \/ StartTick \/ AskChanges \/ FetchMetadata \/ FindGap \/ TakeCursor \/ OpenWindow \/ ReadPage
           \/ AskHeld \/ FinishRecovery \/ FinishTick \/ Stop
  <2>1. UNCHANGED index
    BY <1>4 DEF StartTick, AskChanges, FetchMetadata, FindGap, TakeCursor, OpenWindow, ReadPage, AskHeld,
                FinishRecovery, FinishTick, Stop
  <2> QED
    BY <2>1
<1> QED
  BY <1>1, <1>2, <1>3, <1>4 DEF Proceed

\* A message the mailbox holds, one of whose changes a change set reads, is in its
\* metadata.
LEMMA ChangedIsFetched ==
    ASSUME TypeOK, Safe, step = "applying", NEW q \in Live, NEW i \in cursor + 1..read.upto, feed[i].msg = q
    PROVE  q \in Fetched
<1>1. cursor \in 0..Len(feed) /\ read.upto \in 0..Len(feed) /\ Len(feed) \in Nat
  BY DEF TypeOK, Safe, ControlInv
<1>2. i \in 1..Len(feed)
  BY <1>1
<1>3. feed[i].kind \in Kind /\ feed[i].kind # "unshown" /\ feed[i].kind # "removed"
  <2>1. q \in Message /\ ~Gone(q, Len(feed))
    BY DEF Live
  <2>2. feed[i].kind \in Kind
    <3> DEFINE R == [msg: Message \cup {Nobody}, kind: Kind, at: 0..MaxTime]
    <3>1. feed[i] \in R
      <4>1. feed \in Seq(R)
        BY DEF TypeOK
      <4> HIDE DEF R
      <4> QED
        BY <1>2, <4>1
    <3> QED
      BY <3>1
  <2> QED
    BY <1>2, <2>1, <2>2 DEF Safe, KindInv, Gone, ChangesOf
<1>4. q \in Named({"added", "modified"})
  <2>1. feed[i] \in Changes(cursor, read.upto) /\ feed[i].kind \in {"added", "modified"}
    BY <1>3 DEF Changes, Kind
  <2> QED
    BY <2>1 DEF Named
<1> QED
  BY <1>4, RemovedGone DEF Fetched

LEMMA ReadIsFetched ==
    ASSUME TypeOK, Safe, step = "applying", NEW q \in Live, Came(q, read.upto), ~Came(q, cursor)
    PROVE  q \in Fetched
<1>1. cursor \in 0..Len(feed) /\ read.upto \in 0..Len(feed) /\ Len(feed) \in Nat
  BY DEF TypeOK, Safe, ControlInv
<1>2. PICK i \in 1..read.upto : feed[i].msg = q
  BY DEF Came
<1>3. i \in cursor + 1..read.upto
  BY <1>1, <1>2 DEF Came
<1> QED
  BY <1>2, <1>3, ChangedIsFetched

LEMMA MailProceed ==
    ASSUME TypeOK, Safe, Proceed \/ Stop
    PROVE  MailKept'
<1> USE DEF mailbox, store, hand, seen, GoTo
<1> DEFINE Upto == IF cursor' = Never THEN 0 ELSE cursor'
<1> SUFFICES ASSUME ~lagged', NEW q \in Live \ Hidden, Came(q, Upto), date[q] >= since'
             PROVE  index'[q] # 0
  BY MailboxRests DEF MailKept, InIndex, Through, Came
<1>1. ~lagged /\ Came(q, Through) /\ date[q] >= since => index'[q] # 0
  BY LiveStays DEF Safe, MailKept, InIndex
<1>2. CASE /\ UNCHANGED <<cursor, since>>
           /\ lagged => lagged'
  BY <1>1, <1>2 DEF Through
<1>3. CASE \/ StartTick \/ AskChanges \/ FetchMetadata \/ FindGap \/ TakeCursor \/ OpenWindow \/ ReadPage
           \/ ApplyPage \/ AskHeld \/ RemoveGone \/ Stop
  <2>1. UNCHANGED <<cursor, since>>
    BY <1>3 DEF StartTick, AskChanges, FetchMetadata, FindGap, TakeCursor, OpenWindow, ReadPage,
                ApplyPage, AskHeld, RemoveGone, Stop
  <2>2. lagged => lagged'
    BY <1>3 DEF StartTick, AskChanges, FetchMetadata, FindGap, TakeCursor, OpenWindow, ReadPage,
                ApplyPage, AskHeld, RemoveGone, Stop
  <2> QED
    BY <1>2, <2>1, <2>2
<1>4. CASE ApplyChanges
  <2>1. /\ step = "applying" /\ cursor # Never /\ cursor' = read.upto /\ cursor' # Never
        /\ UNCHANGED <<since, lagged>> /\ index' = Applied(Removed, held)
    BY <1>4, CursorAssumption DEF ApplyChanges, StoreCursor, Safe, ControlInv, TypeOK
  <2>2. CASE Came(q, cursor)
    BY <1>1, <2>1, <2>2 DEF Through
  <2>3. CASE ~Came(q, cursor)
    <3>1. q \in Fetched
      BY <2>1, <2>3, ReadIsFetched
    <3>2. held[q] # 0 /\ q \in Message
      BY <2>1, <3>1 DEF Safe, HandInv, Live
    <3> QED
      BY <2>1, <3>2, AppliedIs
  <2> QED
    BY <2>2, <2>3
<1>5. CASE FinishRecovery
  <2>1. /\ step = "recovered" /\ cursor # Never /\ held = None /\ window.left = {}
        /\ window.start = began.written - Overlap /\ (fresh \/ began.fresh \/ lagged)
        /\ cursor' = read.upto /\ cursor' # Never /\ UNCHANGED <<since, lagged, index>>
    BY <1>5, CursorAssumption DEF FinishRecovery, StoreCursor, Safe, ControlInv, HandInv, Listing, TypeOK
  <2>2. CASE date[q] >= window.start
    <3>1. q \in window.listed
      BY <2>1, <2>2 DEF Safe, HandInv, Listing
    <3> QED
      BY <2>1, <3>1 DEF Safe, HandInv, None, Live
  <2>3. CASE ~(date[q] >= window.start)
    <3>1. ASSUME began.fresh PROVE Came(q, cursor)
      BY <2>1, <2>3, <3>1 DEF Safe, StartInv, DatedSince, Live
    <3>2. ASSUME fresh PROVE Came(q, cursor)
      <4>1. /\ began.written <= written /\ began.written \in Nat /\ written \in Nat
            /\ date[q] \in Int /\ q \in Message
        BY TimeNat DEF Safe, StartInv, TypeOK, Time, Live
      <4>2. ~(date[q] >= written - Overlap)
        BY <2>1, <2>3, <4>1, TimeNat
      <4>3. DatedSince(cursor, written - Overlap)
        BY <3>2 DEF Safe, CursorInv
      <4> QED
        BY <4>1, <4>2, <4>3 DEF DatedSince, Live
    <3>3. Came(q, cursor)
      BY <2>1, <3>1, <3>2
    <3> QED
      BY <1>1, <2>1, <3>3 DEF Through
  <2> QED
    BY <2>2, <2>3
<1>6. CASE FinishTick
  <2>1. CASE cursor # Never
    BY <1>2, <1>6, <2>1 DEF FinishTick
  <2>2. CASE cursor = Never
    <3>1. /\ step = "ending" /\ held = None /\ window.left = {} /\ since' = window.start
          /\ cursor' = read.upto /\ cursor' # Never /\ UNCHANGED index
      BY <1>6, <2>2, CursorAssumption DEF FinishTick, StoreCursor, Safe, ControlInv, HandInv, TypeOK
    <3>2. q \in window.listed
      BY <2>2, <3>1 DEF Safe, HandInv
    <3> QED
      BY <3>1, <3>2 DEF Safe, HandInv, None, Live
  <2> QED
    BY <2>1, <2>2
<1> QED
  BY <1>3, <1>4, <1>5, <1>6 DEF Proceed

LEMMA HandProceed ==
    ASSUME TypeOK, Safe, Proceed \/ Stop
    PROVE  HandInv'
<1> USE DEF mailbox, store, hand, seen, GoTo, Listing
<1> DEFINE Window(s, c) == s \in Listing \/ (s = "ending" /\ c = Never)
<1> DEFINE Shown == \A m \in Live \ Hidden : Came(m, read'.upto) /\ date[m] >= window'.start =>
                        m \in window'.left \cup window'.listed
<1> DEFINE Stored == \A m \in window'.listed \cap Live : index'[m] # 0 \/ held'[m] # 0
<1> DEFINE Starts == step' \in Listing /\ cursor' # Never =>
                         window'.start = began'.written - Overlap /\ (fresh' \/ began'.fresh \/ lagged')
<1> DEFINE Hand == /\ step' = "applying" => \A m \in Fetched' \cap Live : held'[m] # 0
                   /\ Window(step', cursor') => Shown
                   /\ step' \notin {"listing", "storing"} => window'.left = {}
                   /\ Stored
                   /\ Starts
<1> SUFFICES Hand
  BY MailboxRests DEF HandInv, Came
<1>1. /\ ControlInv
      /\ step = "applying" => \A m \in Fetched \cap Live : held[m] # 0
      /\ Window(step, cursor) => \A m \in Live \ Hidden : Came(m, read.upto) /\ date[m] >= window.start =>
              m \in window.left \cup window.listed
      /\ step \notin {"listing", "storing"} => window.left = {}
      /\ \A m \in window.listed \cap Live : index[m] # 0 \/ held[m] # 0
      /\ step \in Listing /\ cursor # Never => window.start = began.written - Overlap /\ (fresh \/ began.fresh \/ lagged)
  BY DEF Safe, HandInv
<1>2. CASE StartTick
  BY <1>1, <1>2 DEF StartTick, ControlInv
<1>3. CASE AskChanges
  BY <1>1, <1>3 DEF AskChanges, ControlInv
<1>4. CASE FetchMetadata
  <2>1. Fetched' = Fetched
    BY <1>4 DEF FetchMetadata, Fetched, Removed, Named, Changes
  <2>2. \A m \in Fetched \cap Live : held'[m] # 0
    BY <1>4, MetadataIs DEF FetchMetadata, Live
  <2> QED
    BY <1>1, <1>4, <2>1, <2>2 DEF FetchMetadata, ControlInv
<1>5. CASE ApplyChanges
  <2>1. cursor' # Never
    BY <1>5, CursorAssumption DEF ApplyChanges, StoreCursor, TypeOK
  <2> QED
    BY <1>1, <1>5, <2>1 DEF ApplyChanges, ControlInv
<1>6. CASE FindGap
  BY <1>1, <1>6 DEF FindGap, ControlInv
<1>7. CASE TakeCursor
  BY <1>1, <1>7 DEF TakeCursor, ControlInv
<1>8. CASE OpenWindow
  <2>1. window' = [start |-> Start, left |-> InWindow(Start), listed |-> {}]
    BY <1>8 DEF OpenWindow
  <2>2. \A m \in Live \ Hidden : date[m] >= Start => m \in InWindow(Start)
    BY DEF InWindow
  <2>3. step' = "listing" /\ UNCHANGED <<cursor, began, index, held, fresh>>
    BY <1>8 DEF OpenWindow
  <2>4. Starts
    <3> SUFFICES ASSUME cursor # Never PROVE window'.start = began.written - Overlap /\ (fresh \/ began.fresh \/ lagged')
      BY <2>3
    <3>1. window'.start = began.written - Overlap
      BY <2>1 DEF Start
    <3>2. lagged' = (lagged \/ (cursor # Never /\ ~fresh /\ ~began.fresh))
      BY <1>8 DEF OpenWindow
    <3> QED
      BY <3>1, <3>2
  <2> QED
    BY <2>1, <2>2, <2>3, <2>4
<1>9. CASE ReadPage
  <2>1. PICK page \in SUBSET InWindow(window.start) :
            /\ held' = Metadata(page)
            /\ window' = [window EXCEPT !.left = (@ \cap Live) \ page, !.listed = @ \cup page]
    BY <1>9 DEF ReadPage
  <2>2. /\ window'.left = (window.left \cap Live) \ page
        /\ window'.listed = window.listed \cup page
        /\ window'.start = window.start
    BY <2>1 DEF TypeOK
  <2>3. step = "listing" /\ step' = "storing" /\ UNCHANGED <<cursor, began, index, read, fresh, lagged>>
    BY <1>9 DEF ReadPage
  <2>4. Shown
    BY <1>1, <2>2, <2>3
  <2>5. Stored
    <3> SUFFICES ASSUME NEW m \in window'.listed \cap Live PROVE index'[m] # 0 \/ held'[m] # 0
      OBVIOUS
    <3>1. m \in Message
      BY DEF Live
    <3>2. CASE m \in page
      BY <2>1, <3>1, <3>2, MetadataIs
    <3>3. CASE m \notin page
      <4>1. held = None
        BY <1>1, <2>3 DEF ControlInv
      <4> QED
        BY <1>1, <2>2, <2>3, <3>1, <3>3, <4>1 DEF None
    <3> QED
      BY <3>2, <3>3
  <2> QED
    BY <1>1, <2>2, <2>3, <2>4, <2>5
<1>10. CASE ApplyPage
  <2>1. Stored
    BY <1>1, <1>10, AppliedIs DEF ApplyPage, Live
  <2>2. /\ step = "storing" /\ UNCHANGED <<cursor, began, read, window, fresh, lagged>>
        /\ step' = IF window.left # {} THEN "listing" ELSE IF cursor = Never THEN "ending" ELSE "comparing"
    BY <1>10 DEF ApplyPage
  <2> QED
    BY <1>1, <2>1, <2>2
<1>11. CASE AskHeld
  BY <1>1, <1>11 DEF AskHeld
<1>12. CASE RemoveGone
  <2>1. held = None /\ UNCHANGED <<cursor, began, read, held, window, fresh, lagged>>
        /\ step = "removing" /\ step' = "recovered"
    BY <1>1, <1>12 DEF RemoveGone, ControlInv
  <2>2. Stored
    BY <1>1, <1>12, <2>1, LiveStays DEF None, Live
  <2> QED
    BY <1>1, <2>1, <2>2
<1>13. CASE FinishRecovery
  <2>1. cursor' # Never
    BY <1>13, CursorAssumption DEF FinishRecovery, StoreCursor, TypeOK
  <2> QED
    BY <1>13, <2>1 DEF FinishRecovery, PutDown, NoWindow
<1>14. CASE FinishTick \/ Stop
  BY <1>14 DEF FinishTick, Stop, PutDown, NoWindow
<1> QED
  BY <1>2, <1>3, <1>4, <1>5, <1>6, <1>7, <1>8, <1>9, <1>10, <1>11, <1>12, <1>13, <1>14 DEF Proceed

-----------------------------------------------------------------------------
(* The index follows the feed. *)

\* The same of another feed, for the one a change leaves.
ChangesIn(f, m, upto) == {i \in 1..upto : f[i].msg = m}
GoneIn(f, m, upto) == \E i \in ChangesIn(f, m, upto) : f[i].kind = "removed"
LatestIn(f, m, upto) ==
    IF ChangesIn(f, m, upto) = {} THEN 0
    ELSE CHOOSE i \in ChangesIn(f, m, upto) : \A j \in ChangesIn(f, m, upto) : j <= i

\* A change of the mailbox leaves what came before it.
LEMMA Before ==
    ASSUME TypeOK, Mail, NEW q \in Message, NEW u \in 0..Len(feed)
    PROVE  /\ ChangesIn(feed', q, u) = ChangesOf(q, u)
           /\ GoneIn(feed', q, u) <=> Gone(q, u)
           /\ LatestIn(feed', q, u) = Latest(q, u)
<1>1. Len(feed) \in Nat /\ \A i \in 1..Len(feed) : feed'[i] = feed[i]
  BY MailStep DEF TypeOK
<1>2. \A i \in 1..u : feed'[i] = feed[i]
  BY <1>1
<1>3. ChangesIn(feed', q, u) = ChangesOf(q, u)
  BY <1>2 DEF ChangesIn, ChangesOf
<1>4. GoneIn(feed', q, u) <=> Gone(q, u)
  BY <1>2, <1>3 DEF GoneIn, Gone, ChangesOf
<1>5. LatestIn(feed', q, u) = Latest(q, u)
  BY <1>3 DEF LatestIn, Latest
<1> QED
  BY <1>3, <1>4, <1>5

LEMMA LastMail ==
    ASSUME TypeOK, LastInv, Mail
    PROVE  LastInv'
<1>1. ASSUME NEW m \in Message \cup {Nobody}, NEW kind \in Kind, Change(m, kind),
             m \in Message => ~Gone(m, Len(feed))
      PROVE  LastInv'
  <2>1. /\ Len(feed) \in Nat /\ Len(feed') = Len(feed) + 1
        /\ \A i \in 1..Len(feed) : feed'[i] = feed[i]
        /\ feed'[Len(feed) + 1].msg = m
    BY <1>1, Appended
  <2> SUFFICES ASSUME NEW i \in 1..Len(feed'), NEW j \in 1..Len(feed'),
                      feed'[i].msg \in Message, feed'[i].kind = "removed", feed'[j].msg = feed'[i].msg
               PROVE  j <= i
    BY DEF LastInv
  <2>2. CASE i = Len(feed) + 1
    BY <2>1, <2>2
  <2>3. CASE i \in 1..Len(feed) /\ j \in 1..Len(feed)
    BY <2>1, <2>3 DEF LastInv
  <2>4. CASE i \in 1..Len(feed) /\ j = Len(feed) + 1
    <3>1. feed[i].msg = m /\ m \in Message /\ feed[i].kind = "removed"
      BY <2>1, <2>4
    <3>2. Gone(m, Len(feed))
      BY <2>4, <3>1 DEF Gone, ChangesOf
    <3> QED
      BY <1>1, <3>1, <3>2
  <2> QED
    BY <2>1, <2>2, <2>3, <2>4
<1>2. ASSUME NEW m \in Message, Arrive(m) \/ Modify(m) \/ Remove(m) PROVE LastInv'
  <2>1. ~Gone(m, Len(feed))
    BY <1>2 DEF Arrive, Modify, Remove, Live, Came, Gone, ChangesOf
  <2>2. \E kind \in Kind : Change(m, kind)
    BY <1>2 DEF Arrive, Modify, Remove, Kind
  <2> QED
    BY <1>1, <2>1, <2>2
<1>3. ASSUME ChangeUnshown PROVE LastInv'
  BY <1>1, <1>3, MessageAssumption DEF ChangeUnshown, Kind
<1> QED
  BY <1>2, <1>3 DEF Mail

LEMMA FollowMail ==
    ASSUME TypeOK, Safe, FollowInv, Mail
    PROVE  FollowInv'
<1>1. UNCHANGED <<cursor, written, index, step, read, held, window, asked, missed>>
  BY MailStep
<1>2. /\ Len(feed) \in Nat /\ read.upto \in 0..Len(feed) /\ Through \in 0..Len(feed) /\ Through' = Through
      /\ window.listed \subseteq Message
  BY <1>1 DEF TypeOK, Through
<1>3. \A q \in Message, u \in {Through, read.upto} :
        /\ GoneIn(feed', q, u) <=> Gone(q, u)
        /\ LatestIn(feed', q, u) = Latest(q, u)
        /\ (\E i \in 1..u : feed'[i].msg = q) <=> Came(q, u)
  BY <1>2, Before, MailStep
<1>4. \A q \in Message : Gone(q, Through)' = GoneIn(feed', q, Through) /\ Gone(q, read.upto)' = GoneIn(feed', q, read.upto)
  BY <1>1, <1>2 DEF Gone, GoneIn, ChangesOf, ChangesIn
<1>5. \A q \in Message : /\ Latest(q, Through)' = LatestIn(feed', q, Through)
                         /\ Latest(q, read.upto)' = LatestIn(feed', q, read.upto)
  BY <1>1, <1>2 DEF Latest, LatestIn, ChangesOf, ChangesIn
<1>6. \A q \in Message : Came(q, Through)' <=> Came(q, Through)
  BY <1>2, <1>3 DEF Came
<1>7. \A q \in Message, u \in 0..Len(feed) : Came(q, u) => (q \in Live' => q \in Live) /\ date'[q] = date[q]
  <2>1. \A q \in Message, u \in 0..Len(feed) : Came(q, u) => Came(q, Len(feed))
    BY <1>2, LatestGrows
  <2> QED
    BY <2>1, MailStep
<1>8. step = "applying" => Fetched' = Fetched
  <2> SUFFICES ASSUME step = "applying" PROVE Fetched' = Fetched
    OBVIOUS
  <2>1. cursor \in 0..Len(feed)
    BY DEF Safe, ControlInv, TypeOK
  <2>2. \A i \in cursor + 1..read.upto : feed'[i] = feed[i]
    BY <1>2, <2>1, MailStep
  <2>3. Changes(cursor, read.upto)' = Changes(cursor, read.upto)
    BY <1>1, <2>2 DEF Changes
  <2> QED
    BY <2>3 DEF Fetched, Removed, Named
<1>9. \A m \in Message : held[m] # 0 =>
          ~Gone(m, Through)' /\ held[m] >= Latest(m, Through)' /\ held[m] >= Latest(m, read.upto)'
  BY <1>3, <1>4, <1>5 DEF FollowInv
<1>10. \A m \in window.listed :
          ~Gone(m, read.upto)' /\ (m \in Live' => held[m] # 0 \/ index[m] >= Latest(m, read.upto)')
  <2>1. \A m \in window.listed : Came(m, Len(feed))
    BY <1>2 DEF Safe, KnownInv
  <2> QED
    BY <1>2, <1>3, <1>4, <1>5, <1>7, <2>1 DEF FollowInv
<1>11. step \in {"removing", "recovered"} =>
          \A m \in Message \ window.listed :
             Gone(m, read.upto)' /\ date'[m] >= window.start /\ index[m] # 0 => step = "removing" /\ m \in asked
  <2>1. \A m \in Message : Gone(m, read.upto) => Came(m, read.upto)
    BY DEF Gone, Came, ChangesOf
  <2> QED
    BY <1>2, <1>3, <1>4, <1>7, <2>1 DEF FollowInv
<1>12. IndexFollows'
  <2> SUFFICES ASSUME NEW m \in Message \ missed, Came(m, Through)
               PROVE  IF Gone(m, Through) THEN index[m] = 0 ELSE m \in Live' => index[m] >= Latest(m, Through)
    BY <1>1, <1>3, <1>4, <1>5, <1>6 DEF IndexFollows
  <2> QED
    BY <1>2, <1>7 DEF FollowInv, IndexFollows
<1> QED
  BY <1>1, <1>8, <1>9, <1>10, <1>11, <1>12 DEF FollowInv

\* The metadata the provider answers is of what the mailbox holds, and as new as any
\* position of the feed.
LEMMA MetadataFresh ==
    ASSUME TypeOK, NEW ids, NEW q \in Message, Metadata(ids)[q] # 0, NEW u \in 0..Len(feed)
    PROVE  q \in ids \cap Live /\ ~Gone(q, u) /\ Metadata(ids)[q] >= Latest(q, u)
<1>1. q \in ids \cap Live /\ Len(feed) \in Nat
  BY MetadataIs DEF TypeOK
<1>2. Metadata(ids)[q] = Latest(q, Len(feed))
  BY <1>1 DEF Metadata
<1>3. /\ Latest(q, u) <= Latest(q, Len(feed)) /\ (Gone(q, u) => Gone(q, Len(feed)))
      /\ Latest(q, u) \in Int /\ Latest(q, Len(feed)) \in Int
  BY <1>1, LatestGrows, LatestIsChange
<1> QED
  BY <1>1, <1>2, <1>3 DEF Live

\* What a step of a tick, which leaves the feed, has to give for FollowInv to hold after it.
ThroughNext == IF cursor' = Never THEN 0 ELSE cursor'

HeldNext ==
    \A m \in Message : held'[m] # 0 =>
        ~Gone(m, ThroughNext) /\ held'[m] >= Latest(m, ThroughNext) /\ held'[m] >= Latest(m, read'.upto)

ListedNext ==
    \A m \in window'.listed :
        ~Gone(m, read'.upto) /\ (m \in Live => held'[m] # 0 \/ index'[m] >= Latest(m, read'.upto))

LeftOutNext ==
    step' \in {"removing", "recovered"} =>
        \A m \in Message \ window'.listed :
            Gone(m, read'.upto) /\ date[m] >= window'.start /\ index'[m] # 0 => step' = "removing" /\ m \in asked'

IndexNext ==
    \A m \in Message \ missed' : Came(m, ThroughNext) =>
        IF Gone(m, ThroughNext) THEN index'[m] = 0 ELSE m \in Live => index'[m] >= Latest(m, ThroughNext)

FollowNext ==
    /\ HeldNext
    /\ step' = "applying" => \A m \in Message : held'[m] # 0 => m \in Fetched'
    /\ step' \in {"fetching", "applying", "opening"} \cup Listing /\ cursor' # Never => cursor' <= read'.upto
    /\ ListedNext /\ LeftOutNext /\ IndexNext

LEMMA FollowAfter ==
    ASSUME Proceed \/ Stop, FollowNext
    PROVE  FollowInv'
<1>1. feed' = feed /\ date' = date /\ Live' = Live
  BY MailboxRests
<1>2. Through' = ThroughNext
  BY DEF Through, ThroughNext
<1>3. \A m : /\ Gone(m, Through)' = Gone(m, ThroughNext) /\ Gone(m, read.upto)' = Gone(m, read'.upto)
             /\ Latest(m, Through)' = Latest(m, ThroughNext) /\ Latest(m, read.upto)' = Latest(m, read'.upto)
             /\ Came(m, Through)' = Came(m, ThroughNext)
  BY <1>1, <1>2 DEF Gone, Latest, ChangesOf, Came
<1>4. IndexFollows'
  BY <1>1, <1>3 DEF FollowNext, IndexNext, IndexFollows
<1> QED
  BY <1>1, <1>3, <1>4 DEF FollowNext, HeldNext, ListedNext, LeftOutNext, FollowInv

\* The positions of the feed a tick knows, and the labels it stores or holds, are numbers.
LEMMA Positions ==
    ASSUME TypeOK
    PROVE  /\ Len(feed) \in Nat /\ Through \in 0..Len(feed) /\ read.upto \in 0..Len(feed)
           /\ cursor # Never => cursor \in 0..Len(feed)
           /\ \A m \in Message : index[m] \in Nat /\ held[m] \in Nat
           /\ window.listed \subseteq Message
<1>1. Len(feed) \in Nat /\ \A m \in Message : index[m] \in 0..Len(feed) /\ held[m] \in 0..Len(feed)
  BY DEF TypeOK
<1>2. read.upto \in 0..Len(feed) /\ window.listed \subseteq Message /\ cursor \in 0..Len(feed) \cup {Never}
  BY DEF TypeOK
<1> QED
  BY <1>1, <1>2 DEF Through

LEMMA FollowApply ==
    ASSUME TypeOK, Safe, LastInv, FollowInv, ApplyChanges
    PROVE  IndexNext
<1>1. /\ step = "applying" /\ cursor # Never /\ cursor <= read.upto
      /\ cursor' = read.upto /\ missed' = missed \ (Removed \cup Fetched)
      /\ index' = Applied(Removed, held)
  BY DEF ApplyChanges, StoreCursor, Safe, ControlInv, FollowInv
<1>2. ThroughNext = read.upto /\ Through = cursor
  BY <1>1, Positions, CursorAssumption DEF ThroughNext, Through
<1> SUFFICES ASSUME NEW m \in Message \ missed', Came(m, read.upto)
             PROVE  IF Gone(m, read.upto) THEN index'[m] = 0
                    ELSE m \in Live => index'[m] >= Latest(m, read.upto)
  BY <1>2 DEF IndexNext
<1>3. index'[m] = IF held[m] # 0 THEN held[m] ELSE IF m \in Removed THEN 0 ELSE index[m]
  BY <1>1 DEF Applied
<1>4. held[m] # 0 => m \in Fetched
  BY <1>1 DEF FollowInv
<1>5. cursor \in 0..Len(feed) /\ read.upto \in 0..Len(feed) /\ Len(feed) \in Nat
  BY <1>1, Positions
<1>6. CASE \E i \in cursor + 1..read.upto : feed[i].msg = m
  <2>1. PICK i \in cursor + 1..read.upto : feed[i].msg = m
    BY <1>6
  <2>2. CASE Gone(m, read.upto)
    <3>1. PICK k \in 1..read.upto : feed[k].msg = m /\ feed[k].kind = "removed"
      BY <2>2 DEF Gone, ChangesOf
    <3>2. k \in cursor + 1..read.upto
      <4> SUFFICES ASSUME k \in 1..cursor PROVE FALSE
        BY <1>5, <3>1
      <4>1. Gone(m, cursor)
        BY <3>1 DEF Gone, ChangesOf
      <4>2. ChangesOf(m, read.upto) = ChangesOf(m, cursor)
        BY <1>1, <1>5, <4>1, GoneLast
      <4>3. i \in ChangesOf(m, read.upto) /\ i \notin ChangesOf(m, cursor)
        BY <1>5, <2>1 DEF ChangesOf
      <4> QED
        BY <4>2, <4>3
    <3>3. m \in Removed
      BY <3>1, <3>2 DEF Removed, Named, Changes
    <3>4. held[m] = 0
      BY <1>4, <3>3 DEF Fetched
    <3> QED
      BY <1>3, <2>2, <3>3, <3>4
  <2>3. CASE ~Gone(m, read.upto) /\ m \in Live
    <3>1. held[m] # 0
      BY <1>1, <2>1, <2>3, ChangedIsFetched DEF Safe, HandInv
    <3> QED
      BY <1>3, <2>3, <3>1 DEF FollowInv
  <2> QED
    BY <2>2, <2>3
<1>7. CASE \A i \in cursor + 1..read.upto : feed[i].msg # m
  <2>1. ChangesOf(m, read.upto) = ChangesOf(m, cursor)
    BY <1>1, <1>5, <1>7 DEF ChangesOf
  <2>2. m \notin Removed /\ m \notin Fetched
    BY <1>7 DEF Removed, Fetched, Named, Changes
  <2>3. m \notin missed /\ index'[m] = index[m]
    BY <1>1, <1>3, <1>4, <2>2
  <2>4. /\ Latest(m, read.upto) = Latest(m, cursor) /\ (Gone(m, read.upto) <=> Gone(m, cursor))
        /\ Came(m, read.upto) <=> Came(m, cursor)
    BY <1>1, <1>5, <2>1, LatestGrows
  <2> QED
    BY <1>2, <2>3, <2>4 DEF FollowInv, IndexFollows
<1> QED
  BY <1>6, <1>7

\* What the tick took its cursor at, it stores once it has listed its window.
LEMMA FollowFinish ==
    ASSUME TypeOK, Safe, FollowInv, StoreCursor, Miss, UNCHANGED index,
           step = "recovered" \/ (step = "ending" /\ cursor = Never)
    PROVE  IndexNext
<1>1. /\ held = None /\ window.left = {} /\ cursor' = read.upto
      /\ missed' = (missed \ window.listed) \cup Overlooked
  BY DEF Safe, ControlInv, HandInv, StoreCursor, Miss
<1>2. read.upto \in 0..Len(feed) /\ Len(feed) \in Nat /\ ThroughNext = read.upto
  BY <1>1, Positions, CursorAssumption DEF ThroughNext
<1> SUFFICES ASSUME NEW m \in Message \ missed', Came(m, read.upto)
             PROVE  IF Gone(m, read.upto) THEN index[m] = 0
                    ELSE m \in Live => index[m] >= Latest(m, read.upto)
  BY <1>2 DEF IndexNext
<1>3. read.upto \in Nat /\ Latest(m, read.upto) \in Nat /\ Latest(m, read.upto) # 0
  BY <1>2, LatestIsChange
<1>4. CASE m \in window.listed
  BY <1>1, <1>4 DEF FollowInv, None
<1>5. CASE /\ m \notin window.listed
           /\ Latest(m, read.upto) > (IF cursor = Never THEN 0 ELSE cursor)
  <2>1. /\ ~(date[m] < window.start) /\ ~(m \in Hidden /\ ~Gone(m, read.upto))
        /\ ~(cursor = Never /\ Gone(m, read.upto))
    BY <1>1, <1>5 DEF Overlooked
  <2>2. date[m] >= window.start
    BY <2>1, TimeNat DEF TypeOK, Time
  <2>3. CASE Gone(m, read.upto)
    BY <1>5, <2>1, <2>2, <2>3 DEF FollowInv
  <2>4. CASE ~Gone(m, read.upto) /\ m \in Live
    <3>1. m \in window.left \cup window.listed
      BY <2>1, <2>2, <2>4 DEF Safe, HandInv, Listing
    <3> QED
      BY <1>1, <1>5, <3>1
  <2> QED
    BY <2>3, <2>4
<1>6. CASE m \notin window.listed /\ cursor # Never /\ Latest(m, read.upto) <= cursor
  <2>1. cursor <= read.upto /\ cursor \in Nat /\ Through = cursor /\ m \notin missed
    BY <1>1, <1>6, Positions DEF FollowInv, Listing, Through
  <2>2. ChangesOf(m, read.upto) = ChangesOf(m, cursor)
    BY <1>3, <1>6, <2>1, LatestGrows
  <2>3. /\ Latest(m, read.upto) = Latest(m, cursor) /\ (Gone(m, read.upto) <=> Gone(m, cursor))
        /\ Came(m, read.upto) <=> Came(m, cursor)
    BY <1>3, <2>1, <2>2, LatestGrows
  <2> QED
    BY <2>1, <2>3 DEF FollowInv, IndexFollows
<1> QED
  BY <1>3, <1>4, <1>5, <1>6, Positions

LEMMA FollowProceed ==
    ASSUME TypeOK, Safe, LastInv, FollowInv, Proceed \/ Stop
    PROVE  FollowInv'
<1> USE DEF mailbox, store, hand, seen, GoTo, Listing
<1> SUFFICES FollowNext
  BY FollowAfter
<1>1. /\ ControlInv
      /\ \A m \in Message : held[m] # 0 =>
            ~Gone(m, Through) /\ held[m] >= Latest(m, Through) /\ held[m] >= Latest(m, read.upto)
      /\ step \in {"fetching", "applying", "opening"} \cup Listing /\ cursor # Never => cursor <= read.upto
      /\ \A m \in window.listed :
            ~Gone(m, read.upto) /\ (m \in Live => held[m] # 0 \/ index[m] >= Latest(m, read.upto))
      /\ step \in {"removing", "recovered"} =>
            \A m \in Message \ window.listed :
               Gone(m, read.upto) /\ date[m] >= window.start /\ index[m] # 0 => step = "removing" /\ m \in asked
      /\ \A m \in Message \ missed : Came(m, Through) =>
            IF Gone(m, Through) THEN index[m] = 0 ELSE m \in Live => index[m] >= Latest(m, Through)
  BY DEF Safe, FollowInv, IndexFollows
<1>2. UNCHANGED cursor => ThroughNext = Through
  BY DEF ThroughNext, Through
<1>3. held' = None => HeldNext
  BY DEF HeldNext, None
<1>4. window'.listed = {} => ListedNext
  BY DEF ListedNext
<1>5. UNCHANGED <<cursor, index, missed>> => IndexNext
  BY <1>1, <1>2 DEF IndexNext
<1>6. UNCHANGED <<cursor, held, read>> => HeldNext
  BY <1>1, <1>2 DEF HeldNext
<1>7. CASE StartTick \/ FindGap
  <2>1. /\ step \in {"idle", "asking"} /\ step' \in {"taking", "asking"}
        /\ UNCHANGED <<cursor, index, missed, held, read, window>>
    BY <1>7 DEF StartTick, FindGap
  <2>2. window'.listed = {}
    BY <1>1, <2>1 DEF ControlInv
  <2> QED
    BY <1>4, <1>5, <1>6, <2>1, <2>2 DEF FollowNext, LeftOutNext
<1>8. CASE AskChanges
  <2>1. /\ step = "asking" /\ cursor \in 0..Len(feed) /\ held' = None /\ window'.listed = {}
        /\ UNCHANGED <<cursor, index, missed>>
    BY <1>1, <1>8, Positions DEF AskChanges, ControlInv
  <2>2. step' \in {"ending", "fetching"}
    BY <1>8 DEF AskChanges
  <2>3. step' = "fetching" => cursor' <= read'.upto
    BY <1>8, <2>1, Positions DEF AskChanges, Cursor
  <2> QED
    BY <1>3, <1>4, <1>5, <2>1, <2>2, <2>3 DEF FollowNext, LeftOutNext
<1>9. CASE FetchMetadata
  <2>1. /\ step = "fetching" /\ step' = "applying" /\ held' = Metadata(Fetched) /\ window'.listed = {}
        /\ UNCHANGED <<cursor, index, missed, read>>
    BY <1>1, <1>9 DEF FetchMetadata, ControlInv
  <2>2. Fetched' = Fetched
    BY <1>9 DEF FetchMetadata, Fetched, Removed, Named, Changes
  <2>3. HeldNext
    BY <1>2, <2>1, MetadataFresh, Positions DEF HeldNext
  <2>4. \A m \in Message : held'[m] # 0 => m \in Fetched'
    BY <2>1, <2>2, MetadataIs
  <2> QED
    BY <1>1, <1>4, <1>5, <2>1, <2>3, <2>4 DEF FollowNext, LeftOutNext
<1>10. CASE ApplyChanges
  <2>1. held' = None /\ window'.listed = {} /\ step' \in {"ending", "asking"}
    BY <1>1, <1>10 DEF ApplyChanges, ControlInv
  <2> QED
    BY <1>3, <1>4, <1>10, <2>1, FollowApply DEF FollowNext, LeftOutNext
<1>11. CASE TakeCursor
  <2>1. /\ step = "taking" /\ step' = "opening" /\ held' = None /\ window'.listed = {}
        /\ UNCHANGED <<cursor, index, missed>>
    BY <1>1, <1>11 DEF TakeCursor, ControlInv
  <2>2. read'.upto = Len(feed)
    BY <1>11 DEF TakeCursor, Cursor
  <2>3. cursor' # Never => cursor' <= read'.upto
    BY <2>1, <2>2, Positions
  <2> QED
    BY <1>3, <1>4, <1>5, <2>1, <2>3 DEF FollowNext, LeftOutNext
<1>12. CASE OpenWindow
  <2>1. /\ step = "opening" /\ step' = "listing" /\ held' = None /\ window'.listed = {}
        /\ UNCHANGED <<cursor, index, missed, read>>
    BY <1>1, <1>12 DEF OpenWindow, ControlInv
  <2> QED
    BY <1>1, <1>3, <1>4, <1>5, <2>1 DEF FollowNext, LeftOutNext
<1>13. CASE ReadPage
  <2>1. PICK page \in SUBSET InWindow(window.start) :
            /\ held' = Metadata(page)
            /\ window' = [window EXCEPT !.left = (@ \cap Live) \ page, !.listed = @ \cup page]
    BY <1>13 DEF ReadPage
  <2>2. /\ step = "listing" /\ step' = "storing" /\ held = None /\ UNCHANGED <<cursor, index, missed, read>>
        /\ window'.listed = window.listed \cup page /\ page \subseteq Live /\ Live \subseteq Message
    BY <1>1, <1>13, <2>1 DEF ReadPage, ControlInv, InWindow, TypeOK, Live
  <2>3. HeldNext
    BY <1>2, <2>1, <2>2, MetadataFresh, Positions DEF HeldNext
  <2>4. ListedNext
    <3> SUFFICES ASSUME NEW m \in window'.listed
                 PROVE  ~Gone(m, read.upto) /\ (m \in Live => held'[m] # 0 \/ index[m] >= Latest(m, read.upto))
      BY <2>2 DEF ListedNext
    <3>1. CASE m \in page
      BY <2>1, <2>2, <3>1, MetadataIs, MetadataFresh, Positions
    <3>2. CASE m \in window.listed
      BY <1>1, <2>2, <3>2, Positions DEF None
    <3> QED
      BY <2>2, <3>1, <3>2
  <2> QED
    BY <1>1, <1>5, <2>2, <2>3, <2>4 DEF FollowNext, LeftOutNext
<1>14. CASE ApplyPage
  <2>1. /\ step = "storing" /\ step' \in {"listing", "ending", "comparing"} /\ held' = None
        /\ UNCHANGED <<cursor, missed, read, window>>
        /\ \A m \in Message : index'[m] = IF held[m] # 0 THEN held[m] ELSE index[m]
    BY <1>14 DEF ApplyPage, Applied
  <2>2. ListedNext
    BY <1>1, <2>1, Positions DEF ListedNext
  <2>3. IndexNext
    BY <1>1, <1>2, <2>1 DEF IndexNext
  <2> QED
    BY <1>1, <1>3, <2>1, <2>2, <2>3 DEF FollowNext, LeftOutNext
<1>15. CASE AskHeld
  <2>1. /\ step = "comparing" /\ asked' = Unlisted \ Live
        /\ step' = (IF asked' = {} THEN "recovered" ELSE "removing")
        /\ UNCHANGED <<cursor, index, missed, read, held, window>>
    BY <1>15 DEF AskHeld
  <2>2. ListedNext
    BY <1>1, <2>1 DEF ListedNext
  <2>3. ASSUME NEW m \in Message \ window.listed, Gone(m, read.upto), date[m] >= window.start, index[m] # 0
        PROVE  step' = "removing" /\ m \in asked'
    <3>1. m \notin Live
      BY <2>3, Positions, LatestGrows DEF Live
    <3> QED
      BY <2>1, <2>3, <3>1 DEF Unlisted
  <2>4. LeftOutNext
    BY <2>1, <2>3 DEF LeftOutNext
  <2> QED
    BY <1>1, <1>5, <1>6, <2>1, <2>2, <2>4 DEF FollowNext
<1>16. CASE RemoveGone
  <2>1. /\ step = "removing" /\ step' = "recovered"
        /\ UNCHANGED <<cursor, missed, read, held, window>>
        /\ \A m \in Message : index'[m] = IF m \in asked THEN 0 ELSE index[m]
    BY <1>16 DEF RemoveGone, Applied, None
  <2>2. \A m \in asked : m \notin Live
    BY <2>1 DEF Safe, KnownInv, Live, TypeOK
  <2>3. ListedNext
    BY <1>1, <2>1, <2>2, Positions DEF ListedNext
  <2>4. LeftOutNext
    BY <1>1, <2>1 DEF LeftOutNext
  <2>5. IndexNext
    BY <1>1, <1>2, <2>1, <2>2 DEF IndexNext
  <2> QED
    BY <1>1, <1>6, <2>1, <2>3, <2>4, <2>5 DEF FollowNext
<1>17. CASE FinishRecovery
  <2>1. /\ step = "recovered" /\ step' = "ending" /\ StoreCursor /\ Miss /\ UNCHANGED index
        /\ held' = None /\ window'.listed = {}
    BY <1>17 DEF FinishRecovery, PutDown, NoWindow
  <2> QED
    BY <1>3, <1>4, <2>1, FollowFinish DEF FollowNext, LeftOutNext
<1>18. CASE FinishTick
  <2>1. /\ step = "ending" /\ step' = "idle" /\ UNCHANGED index /\ held' = None /\ window'.listed = {}
    BY <1>18 DEF FinishTick, PutDown, NoWindow
  <2>2. IndexNext
    BY <1>5, <1>18, <2>1, FollowFinish DEF FinishTick
  <2> QED
    BY <1>3, <1>4, <2>1, <2>2 DEF FollowNext, LeftOutNext
<1>19. CASE Stop
  <2>1. step' = "idle" /\ UNCHANGED <<cursor, index, missed>> /\ held' = None /\ window'.listed = {}
    BY <1>19 DEF Stop, PutDown, NoWindow
  <2> QED
    BY <1>3, <1>4, <1>5, <2>1 DEF FollowNext, LeftOutNext
<1> QED
  BY <1>7, <1>8, <1>9, <1>10, <1>11, <1>12, <1>13, <1>14, <1>15, <1>16, <1>17, <1>18, <1>19 DEF Proceed

\* Neither what the provider forgets nor the clock touches what the index follows.
LEMMA FollowOutside ==
    ASSUME LastInv, FollowInv, Forget \/ Tick \/ UNCHANGED vars
    PROVE  LastInv' /\ FollowInv'
<1>1. UNCHANGED <<feed, date, cursor, index, step, read, held, window, asked, missed>>
  BY DEF Forget, Tick, vars, mailbox, store, hand, seen
<1>2. Live' = Live /\ Fetched' = Fetched /\ Through' = Through
  BY <1>1 DEF Live, Came, Gone, ChangesOf, Fetched, Removed, Named, Changes, Through
<1>3. \A m : /\ Gone(m, Through)' = Gone(m, Through) /\ Gone(m, read.upto)' = Gone(m, read.upto)
             /\ Latest(m, Through)' = Latest(m, Through) /\ Latest(m, read.upto)' = Latest(m, read.upto)
             /\ Came(m, Through)' = Came(m, Through)
  BY <1>1, <1>2 DEF Gone, Latest, ChangesOf, Came
<1>4. IndexFollows'
  BY <1>1, <1>2, <1>3 DEF FollowInv, IndexFollows
<1>5. FollowInv'
  BY <1>1, <1>2, <1>3, <1>4 DEF FollowInv
<1> QED
  BY <1>1, <1>5 DEF LastInv

LEMMA FollowInit == Init => LastInv /\ FollowInv
<1> SUFFICES ASSUME Init PROVE LastInv /\ FollowInv
  OBVIOUS
<1>1. /\ feed = <<>> /\ Len(feed) = 0 /\ cursor = Never /\ step = "idle" /\ window.listed = {}
      /\ \A m \in Message : held[m] = 0
  BY DEF Init, None, NoWindow
<1>2. LastInv
  BY <1>1 DEF LastInv
<1>3. \A m : ~Came(m, Through)
  BY <1>1 DEF Came, Through
<1> QED
  BY <1>1, <1>2, <1>3 DEF FollowInv, IndexFollows, Listing

-----------------------------------------------------------------------------
(* The theorems. *)

\* A step that changes nothing keeps the invariant.
LEMMA InvStutter ==
    ASSUME Inv, UNCHANGED vars
    PROVE  Inv'
<1> USE DEF vars, mailbox, store, hand, seen
<1>1. UNCHANGED <<feed, date, horizon, now, cursor, written, index, open, step, began, read, held, window, asked,
                  stops, since, missed, fresh, lagged>>
  OBVIOUS
<1>2. TypeOK'
  BY <1>1 DEF Inv, TypeOK
<1>3. Live' = Live /\ Fetched' = Fetched
  BY <1>1 DEF Live, Came, Gone, ChangesOf, Fetched, Removed, Named, Changes
<1>4. ControlInv'
  BY <1>1 DEF Inv, Safe, ControlInv, OneRunOpen
<1>5. KnownInv'
  BY <1>1 DEF Inv, Safe, KnownInv, Came, Gone, ChangesOf
<1>6. CursorInv'
  BY <1>1 DEF Inv, Safe, CursorInv, DatedSince, Came
<1>7. HandInv'
  BY <1>1, <1>3 DEF Inv, Safe, HandInv, Came
<1>8. KindInv'
  BY <1>1 DEF Inv, Safe, KindInv
<1>9. MailKept'
  BY <1>1, <1>3 DEF Inv, Safe, MailKept, InIndex, Through, Came
<1>10. StartInv'
  BY <1>1 DEF Inv, Safe, StartInv, DatedSince, Came
<1> QED
  BY <1>2, <1>4, <1>5, <1>6, <1>7, <1>8, <1>9, <1>10 DEF Inv, Safe

\* The invariant is inductive.
LEMMA InvStep == Inv /\ [Next]_vars => Inv'
<1> SUFFICES ASSUME Inv, [Next]_vars PROVE Inv'
  OBVIOUS
<1> USE DEF Inv
<1>1. CASE Mail
  BY <1>1, MailType, SafeMail
<1>2. CASE Forget
  BY <1>2, ForgetType, SafeOutside
<1>3. CASE Tick
  BY <1>3, TickType, SafeOutside
<1>4. CASE Proceed \/ Stop
  <2>1. TypeOK' /\ ControlInv'
    BY <1>4, ProceedType, StopType, ControlProceed, ControlStop DEF Safe
  <2>2. KnownInv' /\ CursorInv' /\ StartInv' /\ HandInv' /\ MailKept'
    BY <1>4, KnownProceed, CursorProceed, StartProceed, HandProceed, MailProceed
  <2>3. KindInv'
    BY <1>4, MailboxRests DEF Safe, KindInv
  <2> QED
    BY <2>1, <2>2, <2>3 DEF Safe
<1>5. CASE UNCHANGED vars
  BY <1>5, InvStutter
<1> QED
  BY <1>1, <1>2, <1>3, <1>4, <1>5 DEF Next

LEMMA InvAlways == Spec => []Inv
<1>1. Init => Inv
  BY TypeInit, SafeInit DEF Inv
<1> QED
  BY <1>1, InvStep, PTL DEF Spec

\* Every variable keeps its type: the cursor and the labels stay within the feed,
\* no instant is past the clock, and no record of runs falls below none
\* (tick.go:135-321).
THEOREM TypeCorrect == Spec => []TypeOK
BY InvAlways, PTL DEF Inv

\* No run of a pass stays recorded as running once a later one has started, however
\* many ticks stopped, and with whichever of their failures unrecorded
\* (postgres.go:113-137).
THEOREM OneRunCorrect == Spec => []OneRunOpen
<1>1. Inv => OneRunOpen
  BY DEF Inv, Safe, ControlInv
<1> QED
  BY <1>1, InvAlways, PTL

\* No mail is lost, for any overlap, drift of dates and retention, while each gap is
\* found at a cursor as fresh as the overlap, or by a tick that started from one
\* (tick.go:84-96, 206-254, core tick.go:19-29).
THEOREM MailCorrect == Spec => []MailKept
<1>1. Inv => MailKept
  BY DEF Inv, Safe
<1> QED
  BY <1>1, InvAlways, PTL

\* Nothing the mailbox holds ever leaves the index (tick.go:299-321).
THEOREM LiveCorrect == Spec => LiveKept
<1>1. Inv /\ [Next]_vars => [\A m \in Message : index[m] # 0 /\ index'[m] = 0 => m \notin Live]_vars
  <2> SUFFICES ASSUME Inv, Next, NEW m \in Message, index[m] # 0, index'[m] = 0 PROVE m \notin Live
    OBVIOUS
  <2>1. CASE Mail
    BY <2>1, MailStep DEF Inv
  <2>2. CASE Forget \/ Tick
    BY <2>2 DEF Forget, Tick, store
  <2>3. CASE Proceed \/ Stop
    BY <2>3, LiveStays DEF Inv
  <2> QED
    BY <2>1, <2>2, <2>3 DEF Next
<1> QED
  BY <1>1, InvAlways, PTL DEF Spec, LiveKept

\* The index follows the feed, for any drift, overlap and retention: up to the cursor,
\* what has gone is not stored, and what is stored has its latest labels, but for what
\* a gap's window could not show (tick.go:135-174, 206-321).
THEOREM FollowsCorrect == Spec => []IndexFollows
<1> DEFINE Follows == LastInv /\ FollowInv
<1>1. Init => Follows
  BY FollowInit
<1>2. Inv /\ Follows /\ [Next]_vars => Follows'
  <2> SUFFICES ASSUME Inv, Follows, [Next]_vars PROVE Follows'
    OBVIOUS
  <2>1. CASE Mail
    BY <2>1, LastMail, FollowMail DEF Inv
  <2>2. CASE Forget \/ Tick \/ UNCHANGED vars
    BY <2>2, FollowOutside
  <2>3. CASE Proceed \/ Stop
    BY <2>3, FollowProceed, MailboxRests DEF Inv, LastInv
  <2> QED
    BY <2>1, <2>2, <2>3 DEF Next
<1>3. Follows => IndexFollows
  BY DEF FollowInv
<1> HIDE DEF Follows
<1> QED
  BY <1>1, <1>2, <1>3, InvAlways, PTL DEF Spec

=============================================================================
