------------------------------ MODULE DeltaSync ------------------------------
(***************************************************************************)
(* Delta sync (worker/internal/deltasync/tick): the ticks of one account,   *)
(* which follow the provider's feed of changes into the index, and recover  *)
(* when the provider has forgotten the cursor they follow it from.          *)
(*                                                                         *)
(* A tick is a line of calls to the provider and transactions of the store,  *)
(* each an action, and may stop between any two.  Ticks of an account never *)
(* overlap (Scheduler).  The mailbox changes between any two actions, and   *)
(* shows itself to the worker only through the provider's four calls.  A    *)
(* thread is a message, and scanning, which writes neither the cursor nor a *)
(* message's labels, is the time a tick spends before it ends.              *)
(***************************************************************************)
EXTENDS Integers, Sequences, FiniteSets

CONSTANTS
    Message,     \* the messages that may come to the mailbox
    Hidden,      \* those the provider's search by date leaves out
    Nobody,      \* the message of a change to what the index does not show
    Never,       \* the cursor of an account no tick has ended for
    Overlap,     \* how long before the cursor was written a gap's window starts
    FirstWindow, \* how far back the first tick's window reaches
    Drift,       \* how far a message's date may be behind the store's clock
    Retention,   \* how long the provider keeps a change in the feed, at the least
    LongestRead, \* bound: from reading a cursor at the provider to storing it
    MaxFeed,     \* bound: changes of the mailbox
    MaxTime,     \* bound: the clock
    MaxStops     \* bound: ticks that stop before their end

ASSUME MessageAssumption == Hidden \subseteq Message /\ Nobody \notin Message
ASSUME CursorAssumption == Never \notin Nat
ASSUME TimeAssumption == {Overlap, FirstWindow, Drift, Retention, LongestRead, MaxTime} \subseteq Nat
ASSUME CountAssumption == MaxFeed \in Nat /\ MaxStops \in Nat

VARIABLES
    feed,     \* the mailbox's changes, from its beginning
    date,     \* the date of each message that has come
    horizon,  \* the provider calculates no changes from a cursor before this
    now,      \* the store's clock
    cursor,   \* account_state: the cursor
    written,  \* account_state: when it was written
    index,    \* the change each stored message's labels are from, 0 for one not stored
    open,     \* per pass, its runs recorded as running, and whether its latest one is
    step,     \* where the tick is
    began,    \* what it read at its start: when the cursor was written (history: if it was fresh)
    read,     \* the cursor the tick read at the provider, when, and if it was the feed's end
    held,     \* the metadata it holds, as index would have it
    window,   \* the window it lists: its start, what is left to list, what it has listed
    asked,    \* the messages it asked for by their identifiers and was not given
    stops,    \* ticks that stopped
    since,    \* history: the start of the first tick's window
    missed,   \* history: messages whose change was in a gap, out of the recovery's sight
    fresh,    \* history: the stored cursor was the feed's end no longer ago than Overlap covers
    lagged    \* history: a gap was recovered from a cursor that was not fresh, nor fresh at the start

mailbox == <<feed, date, horizon>>
store   == <<cursor, written, index, open>>
hand    == <<began, read, held, window, asked>>
seen    == <<since, missed, fresh, lagged>>
vars    == <<mailbox, now, store, step, hand, stops, seen>>

Position == 0..MaxFeed
Time == -(Overlap + FirstWindow + Drift)..MaxTime
Pass == {"tick", "gap_recovery"}
Kind == {"added", "modified", "removed", "unshown"}
Steps == {"idle", "asking", "fetching", "applying", "taking", "opening", "listing",
          "storing", "comparing", "removing", "recovered", "ending"}

None == [m \in Message |-> 0]
NoWindow == [start |-> 0, left |-> {}, listed |-> {}]
NoRead == [upto |-> 0, at |-> 0, whole |-> FALSE]
NoStart == [written |-> 0, fresh |-> FALSE]

TypeOK ==
    /\ feed \in Seq([msg: Message \cup {Nobody}, kind: Kind, at: 0..MaxTime]) /\ Len(feed) \in Position
    /\ date \in [Message -> Time]
    /\ horizon \in 0..Len(feed)
    /\ now \in 0..MaxTime
    /\ cursor \in 0..Len(feed) \cup {Never}
    /\ written \in 0..now
    /\ index \in [Message -> 0..Len(feed)]
    /\ open \in [Pass -> [runs: Nat, latest: BOOLEAN]]
    /\ step \in Steps
    /\ began \in [written: 0..now, fresh: BOOLEAN]
    /\ read \in [upto: 0..Len(feed), at: 0..now, whole: BOOLEAN]
    /\ held \in [Message -> 0..Len(feed)]
    /\ window \in [start: Time, left: SUBSET Message, listed: SUBSET Message]
    /\ asked \subseteq Message
    /\ stops \in 0..MaxStops
    /\ since \in Time /\ missed \subseteq Message /\ fresh \in BOOLEAN /\ lagged \in BOOLEAN

Init ==
    /\ feed = <<>> /\ date = [m \in Message |-> 0] /\ horizon = 0 /\ now = 0
    /\ cursor = Never /\ written = 0 /\ index = None
    /\ open = [p \in Pass |-> [runs |-> 0, latest |-> FALSE]]
    /\ step = "idle" /\ began = NoStart /\ read = NoRead /\ held = None /\ window = NoWindow /\ asked = {}
    /\ stops = 0 /\ since = 0 /\ missed = {} /\ fresh = FALSE /\ lagged = FALSE

-----------------------------------------------------------------------------
(* The mailbox. *)

\* The changes between two positions, and those of a message up to one.
Changes(from, upto) == {feed[i] : i \in from + 1..upto}
ChangesOf(m, upto) == {i \in 1..upto : feed[i].msg = m}

\* A message's latest change, 0 before it has come.
Latest(m, upto) ==
    IF ChangesOf(m, upto) = {} THEN 0
    ELSE CHOOSE i \in ChangesOf(m, upto) : \A j \in ChangesOf(m, upto) : j <= i

Came(m, upto) == \E i \in 1..upto : feed[i].msg = m
Gone(m, upto) == \E i \in ChangesOf(m, upto) : feed[i].kind = "removed"
Live == {m \in Message : Came(m, Len(feed)) /\ ~Gone(m, Len(feed))}

\* A change's time tells nothing of a provider that may forget it at once.
Stamp == IF Retention = 0 THEN 0 ELSE now

Change(m, kind) ==
    /\ Len(feed) < MaxFeed
    /\ feed' = Append(feed, [msg |-> m, kind |-> kind, at |-> Stamp])
    /\ UNCHANGED <<horizon, now, store, step, hand, stops, seen>>

Arrive(m) ==
    /\ ~Came(m, Len(feed))
    /\ Change(m, "added")
    /\ \E late \in 0..Drift : date' = [date EXCEPT ![m] = now - late]

Modify(m) == m \in Live /\ Change(m, "modified") /\ UNCHANGED date
Remove(m) == m \in Live /\ Change(m, "removed") /\ UNCHANGED date

\* A change of labels the index does not show, which the feed counts too.
ChangeUnshown == Change(Nobody, "unshown") /\ UNCHANGED date

\* The provider forgets the start of the feed, as far as it is that old.
Forget ==
    /\ \E h \in horizon + 1..Len(feed) : feed[h].at + Retention <= now /\ horizon' = h
    /\ UNCHANGED <<feed, date, now, store, step, hand, stops, seen>>

Reading ==
    \/ step \in {"fetching", "applying", "opening", "listing", "storing", "comparing",
                "removing", "recovered"}
    \/ step = "ending" /\ cursor = Never

Tick ==
    /\ now < MaxTime
    /\ Reading => now - read.at < LongestRead
    /\ now' = now + 1
    /\ UNCHANGED <<mailbox, store, step, hand, stops, seen>>

-----------------------------------------------------------------------------
(* A tick that follows the feed. *)

GoTo(s) == step' = s
Cursor(upto) == [upto |-> upto, at |-> now, whole |-> upto = Len(feed)]

\* Mutant: a recovery the process left running is left so.
EndStoppedTick(runs) ==
    [runs EXCEPT !["tick"] = IF @.latest THEN [runs |-> @.runs - 1, latest |-> FALSE] ELSE @]

\* endStopped: the latest run of each pass still recorded as running has stopped.
EndStopped(runs) ==
    [p \in Pass |-> IF runs[p].latest THEN [runs |-> runs[p].runs - 1, latest |-> FALSE] ELSE runs[p]]

Opened(runs, p) == [runs EXCEPT ![p] = [runs |-> @.runs + 1, latest |-> TRUE]]
Ended(runs, p)  == [runs EXCEPT ![p] = [runs |-> @.runs - 1, latest |-> FALSE]]

\* The tick reads the account's cursor, with its write time, and records its run.
StartTick ==
    /\ step = "idle"
    /\ began' = [written |-> written, fresh |-> fresh]
    /\ open' = Opened(EndStopped(open), "tick")
    /\ GoTo(IF cursor = Never THEN "taking" ELSE "asking")
    /\ UNCHANGED <<mailbox, now, cursor, written, index, read, held, window, asked, stops, seen>>

\* ChangesSince answers with some of the changes after the cursor, or with none
\* when there are none.
AskChanges ==
    /\ step = "asking" /\ horizon <= cursor
    /\ IF cursor = Len(feed)
       THEN GoTo("ending") /\ UNCHANGED read
       ELSE /\ \E upto \in cursor + 1..Len(feed) : read' = Cursor(upto)
            /\ GoTo("fetching")
    /\ UNCHANGED <<mailbox, now, store, began, held, window, asked, stops, seen>>

\* The change set, in which a removal prevails over a message's other changes.
Named(kinds) == {c.msg : c \in {d \in Changes(cursor, read.upto) : d.kind \in kinds}}
Removed == Named({"removed"})
Fetched == Named({"added", "modified"}) \ Removed

\* GetMessageMetadata leaves out what the mailbox holds no more.
Metadata(ids) == [m \in Message |-> IF m \in ids \cap Live THEN Latest(m, Len(feed)) ELSE 0]

FetchMetadata ==
    /\ step = "fetching"
    /\ held' = Metadata(Fetched)
    /\ GoTo("applying")
    /\ UNCHANGED <<mailbox, now, store, began, read, window, asked, stops, seen>>

\* Apply removes messages, adds or relabels others, and stores the cursor, in one
\* transaction.
Applied(gone, metadata) ==
    [m \in Message |-> IF metadata[m] # 0 THEN metadata[m] ELSE IF m \in gone THEN 0 ELSE index[m]]

\* Mutant: the cursor is read as it is stored.
StoreCursorNow ==
    /\ cursor' = Len(feed) /\ written' = now
    /\ fresh' = TRUE

StoreCursor ==
    /\ cursor' = read.upto /\ written' = now
    /\ fresh' = (read.whole /\ now - read.at + Drift <= Overlap)

\* Mutant: an empty change set is taken for the end of the feed.
ApplyChangesUnlessEmpty ==
    /\ step = "applying"
    /\ IF Named({"added", "modified", "removed"}) = {}
       THEN GoTo("ending") /\ UNCHANGED <<index, cursor, written, fresh>>
       ELSE GoTo("asking") /\ index' = Applied(Removed, held) /\ StoreCursor
    /\ missed' = missed \ (Removed \cup Fetched)
    /\ held' = None /\ read' = NoRead
    /\ UNCHANGED <<mailbox, now, open, began, window, asked, stops, since, lagged>>

\* An empty one stores its cursor and ends the reading too; any other is followed
\* by another.
ApplyChanges ==
    /\ step = "applying"
    /\ index' = Applied(Removed, held)
    /\ StoreCursor
    /\ GoTo(IF Removed \cup Fetched = {} THEN "ending" ELSE "asking")
    /\ missed' = missed \ (Removed \cup Fetched)
    /\ held' = None /\ read' = NoRead
    /\ UNCHANGED <<mailbox, now, open, began, window, asked, stops, since, lagged>>

-----------------------------------------------------------------------------
(* The first tick, and the recovery from a gap. *)

\* ChangesSince answers that it cannot calculate the changes, and the tick records
\* the recovery's run.
FindGap ==
    /\ step = "asking" /\ cursor < horizon
    /\ open' = Opened(open, "gap_recovery")
    /\ GoTo("taking")
    /\ UNCHANGED <<mailbox, now, cursor, written, index, hand, stops, seen>>

TakeCursor ==
    /\ step = "taking"
    /\ read' = Cursor(Len(feed))
    /\ GoTo("opening")
    /\ UNCHANGED <<mailbox, now, store, began, held, window, asked, stops, seen>>

\* Mutant: the window starts when the cursor was written.
StartNoOverlap == IF cursor = Never THEN now - FirstWindow ELSE began.written

\* The write time is the one the tick read at its start, whatever it stored since.
Start == IF cursor = Never THEN now - FirstWindow ELSE began.written - Overlap

InWindow(start) == {m \in Live \ Hidden : date[m] >= start}

\* The listing of the window returns at least what it holds as it starts.
OpenWindow ==
    /\ step = "opening"
    /\ window' = [start |-> Start, left |-> InWindow(Start), listed |-> {}]
    /\ lagged' = (lagged \/ (cursor # Never /\ ~fresh /\ ~began.fresh))
    /\ GoTo("listing")
    /\ UNCHANGED <<mailbox, now, store, began, read, held, asked, stops, since, missed, fresh>>

\* A page holds some of what is left, or what came since, and the last one all
\* that is left of it.
ReadPage ==
    /\ step = "listing"
    /\ \E page \in SUBSET InWindow(window.start) :
          /\ page \cap window.left # {} \/ window.left \cap Live \subseteq page
          /\ held' = Metadata(page)
          /\ window' = [window EXCEPT !.left = (@ \cap Live) \ page, !.listed = @ \cup page]
    /\ GoTo("storing")
    /\ UNCHANGED <<mailbox, now, store, began, read, asked, stops, seen>>

ApplyPage ==
    /\ step = "storing"
    /\ index' = Applied({}, held)
    /\ held' = None
    /\ GoTo(IF window.left # {} THEN "listing" ELSE IF cursor = Never THEN "ending" ELSE "comparing")
    /\ UNCHANGED <<mailbox, now, cursor, written, open, began, read, window, asked, stops, seen>>

\* removeGone: the stored messages of the window that the listing left out.
Unlisted == {m \in Message : index[m] # 0 /\ date[m] >= window.start} \ window.listed

\* Mutant: what the listing left out is removed.
AskHeldNot ==
    /\ step = "comparing"
    /\ asked' = Unlisted
    /\ GoTo(IF asked' = {} THEN "recovered" ELSE "removing")
    /\ UNCHANGED <<mailbox, now, store, began, read, held, window, stops, seen>>

\* The recovery asks for each of them by its identifier, and those the answer
\* leaves out are gone.
AskHeld ==
    /\ step = "comparing"
    /\ asked' = Unlisted \ Live
    /\ GoTo(IF asked' = {} THEN "recovered" ELSE "removing")
    /\ UNCHANGED <<mailbox, now, store, began, read, held, window, stops, seen>>

RemoveGone ==
    /\ step = "removing"
    /\ index' = Applied(asked, None)
    /\ asked' = {}
    /\ GoTo("recovered")
    /\ UNCHANGED <<mailbox, now, cursor, written, open, began, read, held, window, stops, seen>>

\* What the tick could not see of the changes up to the cursor it took: messages
\* dated before the window or that the search leaves out, and for the first tick,
\* which removes nothing, those gone by then.
Overlooked ==
    {m \in Message \ window.listed :
        /\ Latest(m, read.upto) > (IF cursor = Never THEN 0 ELSE cursor)
        /\ \/ date[m] < window.start
           \/ m \in Hidden /\ ~Gone(m, read.upto)
           \/ cursor = Never /\ Gone(m, read.upto)}

PutDown == began' = NoStart /\ read' = NoRead /\ held' = None /\ window' = NoWindow /\ asked' = {}
Miss == missed' = (missed \ window.listed) \cup Overlooked

\* The recovery stores the cursor it took, with its run's end.
FinishRecovery ==
    /\ step = "recovered"
    /\ StoreCursor
    /\ open' = Ended(open, "gap_recovery")
    /\ Miss /\ PutDown /\ GoTo("ending")
    /\ UNCHANGED <<mailbox, now, index, stops, since, lagged>>

\* The tick ends, and the first one stores the cursor it took.
FinishTick ==
    /\ step = "ending"
    /\ open' = Ended(open, "tick")
    /\ IF cursor = Never
       THEN StoreCursor /\ since' = window.start /\ Miss /\ UNCHANGED lagged
       ELSE UNCHANGED <<cursor, written, seen>>
    /\ PutDown /\ GoTo("idle")
    /\ UNCHANGED <<mailbox, now, index, stops>>

\* The tick stops: a call or a transaction fails, or the process ends, and the
\* failure is recorded for its runs, for some of them or for none.
Stop ==
    /\ step # "idle" /\ stops < MaxStops
    /\ stops' = stops + 1
    /\ \E failed \in SUBSET {p \in Pass : open[p].latest} :
          open' = [p \in Pass |-> IF p \in failed THEN Ended(open, p)[p] ELSE open[p]]
    /\ PutDown /\ GoTo("idle")
    /\ UNCHANGED <<mailbox, now, cursor, written, index, seen>>

-----------------------------------------------------------------------------
Mail == (\E m \in Message : Arrive(m) \/ Modify(m) \/ Remove(m)) \/ ChangeUnshown

Proceed ==
    \/ StartTick \/ AskChanges \/ FetchMetadata \/ ApplyChanges
    \/ FindGap \/ TakeCursor \/ OpenWindow \/ ReadPage \/ ApplyPage
    \/ AskHeld \/ RemoveGone \/ FinishRecovery \/ FinishTick

Next == Mail \/ Forget \/ Tick \/ Proceed \/ Stop

Spec == Init /\ [][Next]_vars

\* The scheduler starts a tick after every interval and after every failure, and
\* a tick whose calls are answered goes on.
FairSpec == Spec /\ WF_vars(Proceed)

-----------------------------------------------------------------------------
(* Properties. *)

Through == IF cursor = Never THEN 0 ELSE cursor

\* What has come since the first tick's window began, before the stored cursor,
\* and is still in the mailbox is in the index.
InIndex == \A m \in Live \ Hidden : Came(m, Through) /\ date[m] >= since => index[m] # 0

\* No mail is lost, through every gap, stop and drift of dates, while the cursor of
\* each gap, or the one its tick started from, was the end of the feed when read, and
\* stored so soon after that the overlap covers it (tick.go:84-96, 206-254, core
\* tick.go:19-29).
MailKept == ~lagged => InIndex

\* The index has followed the feed to the cursor: a message's labels are at least
\* as new as its latest change before it, and a message removed before it is not
\* stored, but for what a gap's window could not show (tick.go:135-174, 206-321).
IndexFollows ==
    \A m \in Message \ missed : Came(m, Through) =>
        IF Gone(m, Through) THEN index[m] = 0
        ELSE m \in Live => index[m] >= Latest(m, Through)

\* Nothing the mailbox holds ever leaves the index (tick.go:299-321).
LiveKept == [][\A m \in Message : index[m] # 0 /\ index'[m] = 0 => m \notin Live]_vars

\* No run of a pass stays recorded as running once a later one has started
\* (postgres.go:113-137).
OneRunOpen == \A p \in Pass : open[p].runs = (IF open[p].latest THEN 1 ELSE 0)

\* Once the mailbox rests, the cursor comes to its end and stays, whatever gaps,
\* stops and empty change sets came before (tick.go:135-174).
CatchesUp == <>[](cursor = Len(feed))

\* What the window's start is said to give, that a gap loses no mail (ADR-0105,
\* "covers exactly the time the change feed was not read").
GapsLoseNothing == InIndex

=============================================================================
