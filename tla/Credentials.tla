----------------------------- MODULE Credentials -----------------------------
(***************************************************************************)
(* One account's credential in the processes that call its provider          *)
(* (executioncontext/accountload, executioncontext/session): each process's  *)
(* account loader, the sources it keeps across units of work, and the units  *)
(* that call the provider, are refused, read the credential again, rotate it *)
(* and hand it over, while the operator replaces it in the row they share.   *)
(*                                                                         *)
(* A token is the operator's grant it came from and its number among the     *)
(* rotations; a sealed value is a token and the key it is sealed to.  Two    *)
(* seals of a token differ, but of two such values one at most is ever       *)
(* stored, so their bytes are told apart by these two.  What a loader does   *)
(* after its last read, its lock held, is one step with that read.           *)
(***************************************************************************)
EXTENDS Naturals

CONSTANTS
    Process,     \* the processes that call the provider
    Resealer,    \* the one whose delta sync re-seals
    Operator,    \* the UI, which seals to a key of its own
    Unit,        \* the units of work
    At,          \* the process each runs in
    SourceId,    \* bound: the sources a process holds at once
    ClientOf,    \* the OAuth client each of the operator's grants was issued to
    MaxGrant,    \* bound: the operator's grants
    MaxKey,      \* bound: keys, numbered in the order they replaced each other
    MaxRotation, \* bound: rotations the provider makes
    MaxFailure,  \* bound: statements that fail
    MaxRestart   \* bound: restarts of processes

ASSUME ProcessAssumption == Resealer \in Process /\ Operator \notin Process /\ At \in [Unit -> Process]
ASSUME BoundAssumption == {MaxGrant, MaxKey, MaxRotation, MaxFailure, MaxRestart} \subseteq Nat /\ MaxKey > 0
ASSUME ClientAssumption == \A g \in 1..MaxGrant : ClientOf[g] \in Nat \ {0}
ASSUME SourceAssumption == SourceId \subseteq Nat \ {0}

VARIABLES
    row,        \* the account's client and its sealed credential, as stored
    granted,    \* the operator's grants so far
    rotated,    \* the rotations the provider has made
    honoured,   \* the tokens the provider honours
    key,        \* the key each process, and the UI, seals to
    held,       \* what each loader last knew of the stored value, and the plaintext it holds
    adoptions,  \* the outside values each loader has counted
    snapshot,   \* the account as each process serves it
    busy,       \* the call each loader is inside, its lock held
    source,     \* each process's sources: the client and the token each holds
    kept,       \* the source each process keeps, and what it was built from
    at,         \* where each unit is
    session,    \* the rest of each unit's session
    failures,   \* statements that failed
    restarts    \* restarts

table    == <<row, granted, rotated, honoured>>
loader   == <<held, adoptions, snapshot, busy>>
sessions == <<source, kept, at, session>>
faults   == <<failures, restarts>>
vars     == <<table, key, loader, sessions, faults>>

Grant == 0..MaxGrant
Client == {0} \cup {ClientOf[g] : g \in 1..MaxGrant}
Token == [grant: Grant, rotation: 0..MaxRotation]
Sealed == [token: Token, key: 0..MaxKey]
Pair == [client: Client, token: Token]
None == [grant |-> 0, rotation |-> 0]
NotStored == [token |-> None, key |-> 0]
NoPair == [client |-> 0, token |-> None]
NoSource == 0
NotHeld == [known |-> NotStored, baseline |-> None, plaintext |-> None, adoption |-> 0]
NotBusy == [call |-> "none", unit |-> Operator, step |-> "none", stored |-> NotStored, client |-> 0]
NoSession == [offer |-> NoPair, stamp |-> 0, adoption |-> 0, source |-> NoSource, current |-> None]
NothingKept == [built |-> NoPair, source |-> NoSource]
Places == {"idle", "taken", "open", "rereading", "reread", "ending", "handing", "ended"}

Stored == [token |-> row.token, key |-> row.key]
Free(p) == busy[p] = NotBusy

\* The provider refuses a token it no longer honours, and one presented with
\* another client than it was issued to.
Accepts(pair) == pair.token \in honoured /\ pair.client = ClientOf[pair.token.grant]

-----------------------------------------------------------------------------
\* The loader's parts.

\* What the loader holds once the row is found to hold stored.
Adopted(p, stored) ==
    IF stored = NotStored THEN NotHeld
    ELSE IF held[p].known = stored THEN held[p]
    ELSE [known |-> stored, baseline |-> stored.token, plaintext |-> stored.token,
          adoption |-> adoptions[p] + 1]

Hold(p, h) == /\ held' = [held EXCEPT ![p] = h]
              /\ adoptions' = [adoptions EXCEPT ![p] = IF h.adoption > @ THEN h.adoption ELSE @]

\* The snapshot with what is held in place of its credential.
Publish(p, h) ==
    snapshot' = [snapshot EXCEPT ![p] = [@ EXCEPT !.token = h.plaintext, !.adoption = h.adoption]]

Release(p) == busy' = [busy EXCEPT ![p] = NotBusy]

Fail == /\ failures < MaxFailure
        /\ failures' = failures + 1
        /\ UNCHANGED restarts

-----------------------------------------------------------------------------
\* A reload lists the account with its client and then, in a transaction of
\* its own, reads its credential; one that fails keeps the snapshot.
LoadClients(p) ==
    /\ Free(p)
    /\ busy' = [busy EXCEPT ![p] = [NotBusy EXCEPT !.call = "load", !.step = "credential",
                                                   !.client = row.client]]
    /\ UNCHANGED <<table, key, held, adoptions, snapshot, sessions, faults>>

\* Mutant: an account keeps the client it was first listed with.
LoadCredentialUnmoved(p) ==
    LET h == IF busy[p].client = 0 THEN NotHeld ELSE Adopted(p, Stored) IN
    /\ busy[p].call = "load"
    /\ Hold(p, h)
    /\ snapshot' = [snapshot EXCEPT ![p] =
           [client |-> IF @.client = 0 THEN busy[p].client ELSE @.client,
            token |-> h.plaintext, adoption |-> h.adoption]]
    /\ Release(p)
    /\ UNCHANGED <<table, key, sessions, faults>>

LoadCredential(p) ==
    LET h == IF busy[p].client = 0 THEN NotHeld ELSE Adopted(p, Stored) IN
    /\ busy[p].call = "load"
    /\ Hold(p, h)
    /\ snapshot' = [snapshot EXCEPT ![p] =
           [client |-> busy[p].client, token |-> h.plaintext, adoption |-> h.adoption]]
    /\ Release(p)
    /\ UNCHANGED <<table, key, sessions, faults>>

LoadFails(p) ==
    /\ busy[p].call = "load"
    /\ Fail
    /\ Release(p)
    /\ UNCHANGED <<table, key, held, adoptions, snapshot, sessions>>

\* The compare-and-set of a write-back or a re-seal.  A statement that fails
\* may have been committed all the same.
Replace(p, token) == row' = [row EXCEPT !.token = token, !.key = key[p]]
Holds(p) == Stored = held[p].known

-----------------------------------------------------------------------------
\* Mutant: only the first value the loader read is re-sealed.
ResealFirst ==
    LET p == Resealer IN
    /\ Free(p)
    /\ adoptions[p] = 1
    /\ held[p].known.key /= key[p]
    /\ busy' = [busy EXCEPT ![p] = [NotBusy EXCEPT !.call = "reseal", !.step = "replace"]]
    /\ UNCHANGED <<table, key, held, adoptions, snapshot, sessions, faults>>

\* Delta sync's re-seal of a value that is on a key it no longer seals to.
Reseal ==
    LET p == Resealer IN
    /\ Free(p)
    /\ held[p].known /= NotStored
    /\ held[p].known.key /= key[p]
    /\ busy' = [busy EXCEPT ![p] = [NotBusy EXCEPT !.call = "reseal", !.step = "replace"]]
    /\ UNCHANGED <<table, key, held, adoptions, snapshot, sessions, faults>>

ResealReplace ==
    LET p == Resealer IN
    /\ busy[p].call = "reseal" /\ busy[p].step = "replace"
    /\ IF Holds(p)
       THEN /\ Replace(p, row.token)
            /\ held' = [held EXCEPT ![p].known.key = key[p]]
            /\ Release(p)
       ELSE /\ busy' = [busy EXCEPT ![p].step = "read"]
            /\ UNCHANGED <<row, held>>
    /\ UNCHANGED <<granted, rotated, honoured, key, adoptions, snapshot, sessions, faults>>

ResealRead ==
    LET p == Resealer
        h == Adopted(p, Stored) IN
    /\ busy[p].call = "reseal" /\ busy[p].step = "read"
    /\ Hold(p, h)
    /\ Publish(p, h)
    /\ Release(p)
    /\ UNCHANGED <<table, key, sessions, faults>>

ResealFails ==
    LET p == Resealer IN
    /\ busy[p].call = "reseal"
    /\ Fail
    /\ \/ UNCHANGED row
       \/ /\ busy[p].step = "replace" /\ Holds(p)
          /\ Replace(p, row.token)
    /\ Release(p)
    /\ UNCHANGED <<granted, rotated, honoured, key, held, adoptions, snapshot, sessions>>

-----------------------------------------------------------------------------
\* A unit's session.  Units of a process share the source it keeps.

Used(p, s) == kept[p].source = s \/ \E u \in Unit : At[u] = p /\ session[u].source = s

\* The process's sources, without those nobody holds once unit u holds t and
\* the process keeps k.
Collected(p, u, sources, t, k) ==
    [s \in SourceId |->
        IF s \in {t, k} \/ \E v \in Unit \ {u} : At[v] = p /\ session[v].source = s
        THEN sources[s] ELSE NoPair]

\* A new source of unit u, built from what it was offered, and kept.
Build(u) ==
    LET p == At[u]
        creds == session[u].offer IN
    \E s \in SourceId :
        /\ ~ Used(p, s)
        /\ \A r \in SourceId : Used(p, r) \/ s <= r
        /\ kept' = [kept EXCEPT ![p] = [built |-> creds, source |-> s]]
        /\ session' = [session EXCEPT ![u] =
               [NoSession EXCEPT !.adoption = session[u].stamp, !.source = s]]
        /\ source' = [source EXCEPT ![p] = Collected(p, u, [@ EXCEPT ![s] = creds], s, s)]

Take(u) ==
    LET served == snapshot[At[u]] IN
    /\ at[u] = "idle"
    /\ served.token /= None
    /\ at' = [at EXCEPT ![u] = "taken"]
    /\ session' = [session EXCEPT ![u] =
           [NoSession EXCEPT !.offer = [client |-> served.client, token |-> served.token],
                             !.stamp = served.adoption]]
    /\ UNCHANGED <<table, key, loader, source, kept, faults>>

\* The source the process keeps serves the unit while the unit's credentials
\* are the ones it was built from or hold the token it holds now.
Serves(p, creds) ==
    /\ kept[p].source /= NoSource
    /\ kept[p].built.client = creds.client
    /\ creds.token \in {kept[p].built.token, source[p][kept[p].source].token}

\* Mutant: the session is stamped when it opens, not when its credentials were
\* taken.
OpenStamping(u) ==
    LET p == At[u] IN
    /\ at[u] = "taken"
    /\ at' = [at EXCEPT ![u] = "open"]
    /\ IF Serves(p, session[u].offer)
       THEN /\ session' = [session EXCEPT ![u] =
                   [NoSession EXCEPT !.adoption = held[p].adoption, !.source = kept[p].source]]
            /\ UNCHANGED <<source, kept>>
       ELSE Build(u)
    /\ UNCHANGED <<table, key, loader, faults>>

Open(u) ==
    LET p == At[u] IN
    /\ at[u] = "taken"
    /\ at' = [at EXCEPT ![u] = "open"]
    /\ IF Serves(p, session[u].offer)
       THEN /\ session' = [session EXCEPT ![u] =
                   [NoSession EXCEPT !.adoption = session[u].stamp, !.source = kept[p].source]]
            /\ UNCHANGED <<source, kept>>
       ELSE Build(u)
    /\ UNCHANGED <<table, key, loader, faults>>

Held(u) == source[At[u]][session[u].source]

\* A call the provider answers with a rotated token, which may end the one
\* it replaces.  A call it answers without one changes nothing here.
Rotate(u) ==
    LET old == Held(u).token
        new == [grant |-> old.grant, rotation |-> rotated + 1] IN
    /\ at[u] = "open"
    /\ Accepts(Held(u))
    /\ rotated < MaxRotation
    /\ rotated' = rotated + 1
    /\ honoured' \in {honoured \cup {new}, (honoured \ {old}) \cup {new}}
    /\ source' = [source EXCEPT ![At[u]][session[u].source].token = new]
    /\ UNCHANGED <<row, granted, key, loader, kept, at, session, faults>>

\* A refused call has the credential read again, then the account's client.
Reread(u) ==
    LET p == At[u] IN
    /\ at[u] = "open"
    /\ ~ Accepts(Held(u))
    /\ Free(p)
    /\ at' = [at EXCEPT ![u] = "rereading"]
    /\ busy' = [busy EXCEPT ![p] = [NotBusy EXCEPT !.call = "reread", !.unit = u,
                                                   !.step = "client", !.stored = Stored]]
    /\ UNCHANGED <<table, key, held, adoptions, snapshot, source, kept, session, faults>>

RereadClient(p) ==
    LET u == busy[p].unit
        h == Adopted(p, busy[p].stored) IN
    /\ busy[p].call = "reread"
    /\ Hold(p, h)
    /\ snapshot' = [snapshot EXCEPT ![p] =
           [client |-> row.client, token |-> h.plaintext, adoption |-> h.adoption]]
    /\ session' = [session EXCEPT ![u] =
           [@ EXCEPT !.offer = [client |-> row.client, token |-> h.plaintext],
                     !.stamp = h.adoption]]
    /\ at' = [at EXCEPT ![u] = "reread"]
    /\ Release(p)
    /\ UNCHANGED <<table, key, source, kept, faults>>

RereadFails(p) ==
    /\ busy[p].call = "reread"
    /\ Fail
    /\ at' = [at EXCEPT ![busy[p].unit] = "open"]
    /\ Release(p)
    /\ UNCHANGED <<table, key, held, adoptions, snapshot, source, kept, session>>

\* The unit goes on with what was read if it is not what was refused.
Retry(u) ==
    /\ at[u] = "reread"
    /\ at' = [at EXCEPT ![u] = "open"]
    /\ IF session[u].offer.token = None \/ session[u].offer = Held(u)
       THEN /\ session' = [session EXCEPT ![u] = [@ EXCEPT !.offer = NoPair, !.stamp = 0]]
            /\ UNCHANGED <<source, kept>>
       ELSE Build(u)
    /\ UNCHANGED <<table, key, loader, faults>>

-----------------------------------------------------------------------------
\* A unit's end: the source's token, read before the loader's lock is taken,
\* is handed over.
End(u) ==
    /\ at[u] = "open"
    /\ at' = [at EXCEPT ![u] = "ending"]
    /\ session' = [session EXCEPT ![u].current = Held(u).token]
    /\ UNCHANGED <<table, key, loader, source, kept, faults>>

HandedOver(u) == /\ at' = [at EXCEPT ![u] = "ended"]
                 /\ session' = [session EXCEPT ![u].current = None]

\* An outside value was adopted since, or there was no rotation.
HandOverNothing(u) ==
    LET h == held[At[u]] IN
    /\ at[u] = "ending"
    /\ Free(At[u])
    /\ h.adoption /= session[u].adoption \/ session[u].current = h.baseline
    /\ HandedOver(u)
    /\ UNCHANGED <<table, key, loader, source, kept, faults>>

\* Mutant: the stamp is not compared.
HandOverUnstamped(u) ==
    LET p == At[u]
        h == [held[p] EXCEPT !.plaintext = session[u].current] IN
    /\ at[u] = "ending"
    /\ Free(p)
    /\ session[u].current /= held[p].baseline
    /\ Hold(p, h)
    /\ Publish(p, h)
    /\ busy' = [busy EXCEPT ![p] = [NotBusy EXCEPT !.call = "handover", !.unit = u, !.step = "replace"]]
    /\ at' = [at EXCEPT ![u] = "handing"]
    /\ UNCHANGED <<table, key, source, kept, session, faults>>

HandOver(u) ==
    LET p == At[u]
        h == [held[p] EXCEPT !.plaintext = session[u].current] IN
    /\ at[u] = "ending"
    /\ Free(p)
    /\ held[p].adoption = session[u].adoption
    /\ session[u].current /= held[p].baseline
    /\ Hold(p, h)
    /\ Publish(p, h)
    /\ busy' = [busy EXCEPT ![p] = [NotBusy EXCEPT !.call = "handover", !.unit = u, !.step = "replace"]]
    /\ at' = [at EXCEPT ![u] = "handing"]
    /\ UNCHANGED <<table, key, source, kept, session, faults>>

HandOverReplace(p) ==
    /\ busy[p].call = "handover" /\ busy[p].step = "replace"
    /\ IF Holds(p)
       THEN /\ Replace(p, held[p].plaintext)
            /\ held' = [held EXCEPT ![p].known = [token |-> held[p].plaintext, key |-> key[p]],
                                    ![p].baseline = held[p].plaintext]
            /\ HandedOver(busy[p].unit)
            /\ Release(p)
       ELSE /\ busy' = [busy EXCEPT ![p].step = "read"]
            /\ UNCHANGED <<row, held, at, session>>
    /\ UNCHANGED <<granted, rotated, honoured, key, adoptions, snapshot, source, kept, faults>>

\* Someone else replaced the value, so it is read again and its own dropped.
HandOverRead(p) ==
    LET h == Adopted(p, Stored) IN
    /\ busy[p].call = "handover" /\ busy[p].step = "read"
    /\ Hold(p, h)
    /\ Publish(p, h)
    /\ HandedOver(busy[p].unit)
    /\ Release(p)
    /\ UNCHANGED <<table, key, source, kept, faults>>

\* The rotation stays held for a later hand-over to write.
HandOverFails(p) ==
    /\ busy[p].call = "handover"
    /\ Fail
    /\ \/ UNCHANGED row
       \/ /\ busy[p].step = "replace" /\ Holds(p)
          /\ Replace(p, held[p].plaintext)
    /\ HandedOver(busy[p].unit)
    /\ Release(p)
    /\ UNCHANGED <<granted, rotated, honoured, key, held, adoptions, snapshot, source, kept>>

\* A session serves several units of work, or ends with its last.
GoOn(u) ==
    /\ at[u] = "ended"
    /\ at' = [at EXCEPT ![u] = "open"]
    /\ UNCHANGED <<table, key, loader, source, kept, session, faults>>

Close(u) ==
    LET p == At[u] IN
    /\ at[u] = "ended"
    /\ at' = [at EXCEPT ![u] = "idle"]
    /\ session' = [session EXCEPT ![u] = NoSession]
    /\ source' = [source EXCEPT ![p] = Collected(p, u, @, kept[p].source, kept[p].source)]
    /\ UNCHANGED <<table, key, loader, kept, faults>>

-----------------------------------------------------------------------------
\* The operator connects the account, re-authorizes it or moves it to another
\* client: the client and the sealed credential in one transaction.  The
\* provider may end the grant before.
Connect ==
    /\ granted < MaxGrant
    /\ granted' = granted + 1
    /\ LET token == [grant |-> granted', rotation |-> 0] IN
       /\ row' = [client |-> ClientOf[granted'], token |-> token, key |-> key[Operator]]
       /\ honoured' \in {honoured \cup {token}, {token}}
    /\ UNCHANGED <<rotated, key, loader, sessions, faults>>

\* A key pair is replaced by the UI and each process starting again with it.
ReplaceKey ==
    /\ key[Operator] < MaxKey
    /\ key' = [key EXCEPT ![Operator] = @ + 1]
    /\ UNCHANGED <<table, loader, sessions, faults>>

Restart(p) ==
    /\ restarts < MaxRestart
    /\ restarts' = restarts + 1
    /\ key' = [key EXCEPT ![p] = key[Operator]]
    /\ held' = [held EXCEPT ![p] = NotHeld]
    /\ adoptions' = [adoptions EXCEPT ![p] = 0]
    /\ snapshot' = [snapshot EXCEPT ![p] = [client |-> 0, token |-> None, adoption |-> 0]]
    /\ Release(p)
    /\ source' = [source EXCEPT ![p] = [s \in SourceId |-> NoPair]]
    /\ kept' = [kept EXCEPT ![p] = NothingKept]
    /\ at' = [u \in Unit |-> IF At[u] = p THEN "idle" ELSE at[u]]
    /\ session' = [u \in Unit |-> IF At[u] = p THEN NoSession ELSE session[u]]
    /\ UNCHANGED <<table, failures>>

-----------------------------------------------------------------------------
Init ==
    /\ row = [client |-> 0, token |-> None, key |-> 0]
    /\ granted = 0 /\ rotated = 0 /\ honoured = {}
    /\ key \in [Process \cup {Operator} -> 1..MaxKey]
    /\ held = [p \in Process |-> NotHeld]
    /\ adoptions = [p \in Process |-> 0]
    /\ snapshot = [p \in Process |-> [client |-> 0, token |-> None, adoption |-> 0]]
    /\ busy = [p \in Process |-> NotBusy]
    /\ source = [p \in Process |-> [s \in SourceId |-> NoPair]]
    /\ kept = [p \in Process |-> NothingKept]
    /\ at = [u \in Unit |-> "idle"]
    /\ session = [u \in Unit |-> NoSession]
    /\ failures = 0 /\ restarts = 0

LoaderStep(p) ==
    \/ LoadClients(p) \/ LoadCredential(p) \/ LoadFails(p)
    \/ RereadClient(p) \/ RereadFails(p)
    \/ HandOverReplace(p) \/ HandOverRead(p) \/ HandOverFails(p)
    \/ Restart(p)

ResealStep == Reseal \/ ResealReplace \/ ResealRead \/ ResealFails

UnitStep(u) ==
    \/ Take(u) \/ Open(u) \/ Rotate(u) \/ Reread(u) \/ Retry(u)
    \/ End(u) \/ HandOverNothing(u) \/ HandOver(u) \/ GoOn(u) \/ Close(u)

Next ==
    \/ \E p \in Process : LoaderStep(p)
    \/ ResealStep
    \/ \E u \in Unit : UnitStep(u)
    \/ Connect
    \/ ReplaceKey

Spec == Init /\ [][Next]_vars

\* Reloads and delta sync's re-seals come again at every interval, and the
\* loader's lock is handed to whoever waits for it; the statements of a call
\* answer.  Nothing makes the operator, the provider or a unit act.
Fairness ==
    /\ \A p \in Process :
        /\ SF_vars(LoadClients(p))
        /\ WF_vars(LoadCredential(p))
        /\ WF_vars(RereadClient(p))
        /\ WF_vars(HandOverReplace(p) \/ HandOverRead(p))
    /\ SF_vars(Reseal)
    /\ WF_vars(ResealReplace \/ ResealRead)

FairSpec == Spec /\ Fairness

-----------------------------------------------------------------------------
\* Type invariant: every variable stays within its declared values, and a unit
\* that calls the provider has a source.
TypeOK ==
    /\ row \in [client: Client, token: Token, key: 0..MaxKey]
    /\ granted \in Grant /\ rotated \in 0..MaxRotation /\ honoured \subseteq Token
    /\ key \in [Process \cup {Operator} -> 1..MaxKey]
    /\ held \in [Process -> [known: Sealed, baseline: Token, plaintext: Token, adoption: Nat]]
    /\ adoptions \in [Process -> Nat]
    /\ snapshot \in [Process -> [client: Client, token: Token, adoption: Nat]]
    /\ busy \in [Process -> [call: {"none", "load", "reseal", "reread", "handover"},
                             unit: Unit \cup {Operator},
                             step: {"none", "credential", "replace", "read", "client"},
                             stored: Sealed, client: Client]]
    /\ source \in [Process -> [SourceId -> Pair]]
    /\ kept \in [Process -> [built: Pair, source: SourceId \cup {NoSource}]]
    /\ at \in [Unit -> Places]
    /\ session \in [Unit -> [offer: Pair, stamp: Nat, adoption: Nat,
                             source: SourceId \cup {NoSource}, current: Token]]
    /\ \A u \in Unit : at[u] \notin {"idle", "taken"} => session[u].source \in SourceId
    /\ failures \in 0..MaxFailure /\ restarts \in 0..MaxRestart

\* The row keeps its promise (StoredCredential): through overlapping units,
\* re-reads, reloads, re-seals and failed statements of every process, no
\* process's write puts back a grant the operator has replaced.
Row == INSTANCE StoredCredential WITH
    Rotation <- 0..MaxRotation, Key <- 1..MaxKey,
    client <- row.client, token <- row.token, key <- row.key
GrantNeverPutBack == Row!Spec

\* A loader never goes back to a grant the operator has replaced, whatever it
\* reads, is handed or fails to write; only a restart empties it.
LoaderNeverGoesBack ==
    [][\A p \in Process : held'[p] = NotHeld
         \/ held'[p].plaintext.grant >= held[p].plaintext.grant]_vars

\* A unit whose adoption stamp is still its loader's holds a token of the
\* grant the loader knows, so the hand-over the stamp lets through is never
\* an older grant's.
StampTellsGrant ==
    \A u \in Unit :
        at[u] \in {"open", "rereading", "reread", "ending"}
            /\ session[u].adoption = held[At[u]].adoption
        => Held(u).token.grant = held[At[u]].known.token.grant

\* The operator's latest grant and its client come to be what every process
\* serves, a pair read while it was being replaced notwithstanding.
GrantReachesProcesses ==
    \A p \in Process : <>[](/\ snapshot[p].client = row.client
                            /\ snapshot[p].token.grant = row.token.grant)

\* Once the UI and every process seal to the latest key, a stored value comes
\* to be sealed to it.
KeyReplaced ==
    (\A p \in Process \cup {Operator} : key[p] = MaxKey)
        ~> [](granted > 0 => row.key = MaxKey)

=============================================================================
