-------------------------- MODULE Credentials_proofs --------------------------
(***************************************************************************)
(* Proofs about Credentials, for any processes, units, sources, grants,      *)
(* keys, rotations, failures and restarts: the row keeps the promise          *)
(* StoredCredential states, and no loader goes back to a replaced grant.      *)
(***************************************************************************)
EXTENDS Credentials, TLAPS

-----------------------------------------------------------------------------
(* The inductive invariant. *)

\* The unit whose call the loader is inside waits for it.
BusyInv ==
    \A p \in Process :
        /\ busy[p].call = "reread" =>
               /\ busy[p].unit \in Unit /\ At[busy[p].unit] = p
               /\ at[busy[p].unit] = "rereading"
        /\ busy[p].call = "handover" =>
               /\ busy[p].unit \in Unit /\ At[busy[p].unit] = p
               /\ at[busy[p].unit] = "handing"

TypeInv == TypeOK /\ BusyInv

\* What was stored is of the operator's latest grant, and an account never
\* connected holds nothing.
RowInv ==
    /\ row.token.grant = granted
    /\ granted = 0 => row.token = None /\ row.key = 0

\* A loader holds nothing, or values of one grant under a stamp it has given.
MayHold(h, given) ==
    \/ h = NotHeld
    \/ /\ h.known.token.grant \in 1..granted
       /\ h.baseline.grant = h.known.token.grant
       /\ h.plaintext.grant = h.known.token.grant
       /\ h.adoption \in 1..given
HeldInv == \A p \in Process : MayHold(held[p], adoptions[p])

\* What is served is what is held.
SnapshotInv ==
    \A p \in Process : /\ snapshot[p].token = held[p].plaintext
                       /\ snapshot[p].adoption = held[p].adoption

\* The source a process keeps still holds a token of the grant it was built
\* from.
KeptInv ==
    \A p \in Process : kept[p].source /= NoSource =>
        source[p][kept[p].source].token.grant = kept[p].built.token.grant

\* What a call under the loader's lock found when it took the lock still
\* stands, but for the operator's next grants.
CallInv ==
    \A p \in Process :
        /\ busy[p].call = "reread" =>
               \/ busy[p].stored = NotStored
               \/ busy[p].stored.token.grant \in 1..granted
                  /\ busy[p].stored.token.grant >= held[p].known.token.grant
        /\ busy[p].call = "handover" => held[p] /= NotHeld
        /\ busy[p].call = "reseal" /\ busy[p].step = "replace" => held[p].known /= NotStored

\* A stamp a loader that has given some tells the grant it holds, if it still
\* holds what it gave the stamp to.
Stamped(given, h, stamp, grant) ==
    /\ stamp \in 1..given
    /\ h.adoption = stamp => h.known.token.grant = grant

UnitOK(u) ==
    LET p == At[u] IN
    /\ at[u] = "taken" =>
           Stamped(adoptions[p], held[p], session[u].stamp, session[u].offer.token.grant)
    /\ at[u] = "reread" =>
           \/ session[u].offer.token = None
           \/ Stamped(adoptions[p], held[p], session[u].stamp, session[u].offer.token.grant)
    /\ at[u] \notin {"idle", "taken"} =>
           Stamped(adoptions[p], held[p], session[u].adoption, Held(u).token.grant)
    /\ at[u] = "ending" => session[u].current.grant = Held(u).token.grant
UnitInv == \A u \in Unit : UnitOK(u)

IInv == TypeInv /\ RowInv /\ HeldInv /\ SnapshotInv /\ KeptInv /\ CallInv /\ UnitInv

-----------------------------------------------------------------------------
(* Types. *)

LEMMA Bounds == /\ MaxGrant \in Nat /\ MaxKey \in Nat /\ MaxKey > 0 /\ MaxRotation \in Nat
                /\ MaxFailure \in Nat /\ MaxRestart \in Nat
BY BoundAssumption

LEMMA Values ==
    /\ None \in Token /\ NotStored \in Sealed /\ NoPair \in Pair /\ NoSource \notin SourceId
    /\ 0 \in Client /\ \A g \in 1..MaxGrant : ClientOf[g] \in Client
    /\ NotHeld \in [known: Sealed, baseline: Token, plaintext: Token, adoption: Nat]
    /\ NotBusy \in [call: {"none", "load", "reseal", "reread", "handover"},
                    unit: Unit \cup {Operator},
                    step: {"none", "credential", "replace", "read", "client"},
                    stored: Sealed, client: Client]
    /\ NoSession \in [offer: Pair, stamp: Nat, adoption: Nat,
                      source: SourceId \cup {NoSource}, current: Token]
    /\ NothingKept \in [built: Pair, source: SourceId \cup {NoSource}]
BY Bounds, SourceAssumption
DEF None, Token, Grant, NotStored, Sealed, NoPair, Pair, NoSource, Client, NotHeld, NotBusy, NoSession, NothingKept

LEMMA AdoptedType ==
    ASSUME TypeOK, NEW p \in Process, NEW stored \in Sealed
    PROVE  Adopted(p, stored) \in [known: Sealed, baseline: Token, plaintext: Token, adoption: Nat]
BY Values DEF TypeOK, Adopted, Sealed

LEMMA StoredType == TypeOK => Stored \in Sealed
BY DEF TypeOK, Stored, Sealed

LEMMA CollectedType ==
    ASSUME TypeOK, NEW p, NEW u, NEW sources \in [SourceId -> Pair], NEW t, NEW k
    PROVE  Collected(p, u, sources, t, k) \in [SourceId -> Pair]
BY Values DEF Collected

LEMMA HeldType == ASSUME TypeOK, NEW u \in Unit, at[u] \notin {"idle", "taken"}
                  PROVE  Held(u) \in Pair /\ At[u] \in Process /\ session[u].source \in SourceId
BY ProcessAssumption DEF TypeOK, Held

\* TypeOK in parts, so that a step is charged with the parts it changes.
TableType ==
    /\ row \in [client: Client, token: Token, key: 0..MaxKey]
    /\ granted \in Grant /\ rotated \in 0..MaxRotation /\ honoured \subseteq Token
KeyType == key \in [Process \cup {Operator} -> 1..MaxKey]
HeldsType ==
    /\ held \in [Process -> [known: Sealed, baseline: Token, plaintext: Token, adoption: Nat]]
    /\ adoptions \in [Process -> Nat]
    /\ snapshot \in [Process -> [client: Client, token: Token, adoption: Nat]]
BusyType ==
    busy \in [Process -> [call: {"none", "load", "reseal", "reread", "handover"},
                          unit: Unit \cup {Operator},
                          step: {"none", "credential", "replace", "read", "client"},
                          stored: Sealed, client: Client]]
SourceType ==
    /\ source \in [Process -> [SourceId -> Pair]]
    /\ kept \in [Process -> [built: Pair, source: SourceId \cup {NoSource}]]
AtType == at \in [Unit -> Places]
SessionType ==
    /\ session \in [Unit -> [offer: Pair, stamp: Nat, adoption: Nat,
                             source: SourceId \cup {NoSource}, current: Token]]
    /\ \A u \in Unit : at[u] \notin {"idle", "taken"} => session[u].source \in SourceId
FaultType == failures \in 0..MaxFailure /\ restarts \in 0..MaxRestart

LEMMA Parts == TypeOK <=> /\ TableType /\ KeyType /\ HeldsType /\ BusyType
                          /\ SourceType /\ AtType /\ SessionType /\ FaultType
BY DEF TypeOK, TableType, KeyType, HeldsType, BusyType, SourceType, AtType, SessionType, FaultType

LEMMA PublishType ==
    ASSUME HeldsType, NEW p \in Process, NEW h, h.plaintext \in Token, h.adoption \in Nat, Publish(p, h)
    PROVE  snapshot' \in [Process -> [client: Client, token: Token, adoption: Nat]]
<1> DEFINE t == [snapshot[p] EXCEPT !.token = h.plaintext, !.adoption = h.adoption]
<1>1. t \in [client: Client, token: Token, adoption: Nat]
  BY DEF HeldsType
<1>2. snapshot' = [snapshot EXCEPT ![p] = t]
  BY DEF HeldsType, Publish
<1> HIDE DEF t
<1> QED
  BY <1>1, <1>2 DEF HeldsType

LEMMA InitType == Init => TypeInv
<1> SUFFICES ASSUME Init PROVE TypeInv
  OBVIOUS
<1> USE Values, Bounds, ProcessAssumption DEF Init
<1>1. TableType
  BY DEF TableType, Grant
<1>2. KeyType /\ HeldsType /\ BusyType
  BY DEF KeyType, HeldsType, BusyType
<1>3. SourceType
  BY DEF SourceType
<1>5. AtType
  BY DEF AtType, Places
<1>7. failures \in 0..MaxFailure /\ restarts \in 0..MaxRestart
  BY Bounds
<1>8. FaultType
  BY <1>7 DEF FaultType
<1>6. SessionType
  BY DEF SessionType
<1>4. BusyInv
  BY DEF BusyInv, NotBusy
<1> QED
  BY <1>1, <1>2, <1>3, <1>4, <1>5, <1>6, <1>8, Parts DEF TypeInv

LEMMA LoaderTyped ==
    ASSUME TypeInv, NEW p \in Process, LoaderStep(p)
    PROVE  TypeInv'
<1>0. /\ TableType /\ KeyType /\ HeldsType /\ BusyType /\ SourceType /\ AtType
      /\ SessionType /\ FaultType /\ BusyInv /\ TypeOK
  BY Parts DEF TypeInv
<1> SUFFICES /\ TableType' /\ KeyType' /\ HeldsType' /\ BusyType' /\ SourceType' /\ AtType'
             /\ SessionType' /\ FaultType' /\ BusyInv'
  BY Parts, PTL DEF TypeInv
<1> USE Values
<1>1. CASE LoadClients(p)
  <2>1. BusyType'
    BY <1>0, <1>1 DEF LoadClients, BusyType, TableType
  <2>2. BusyInv'
    BY <1>0, <1>1 DEF LoadClients, BusyType, BusyInv, sessions, Free, NotBusy
  <2> QED
    BY <1>0, <1>1, <2>1, <2>2 DEF LoadClients, TableType, KeyType, HeldsType, SourceType, AtType,
       SessionType, FaultType, table, sessions, faults
<1>2. CASE LoadCredential(p)
  <2> DEFINE h == IF busy[p].client = 0 THEN NotHeld ELSE Adopted(p, Stored)
  <2>1. h \in [known: Sealed, baseline: Token, plaintext: Token, adoption: Nat]
    BY <1>0, Values, AdoptedType, StoredType
  <2> HIDE DEF h
  <2>2. HeldsType'
    BY <1>0, <1>2, <2>1 DEF LoadCredential, h, Hold, HeldsType, BusyType
  <2>3. BusyType' /\ BusyInv'
    BY <1>0, <1>2 DEF LoadCredential, Release, BusyType, BusyInv, sessions, NotBusy
  <2> QED
    BY <1>0, <1>2, <2>2, <2>3 DEF LoadCredential, TableType, KeyType, SourceType, AtType,
       SessionType, FaultType, table, sessions, faults
<1>3. CASE LoadFails(p)
  <2>1. BusyType' /\ BusyInv'
    BY <1>0, <1>3 DEF LoadFails, Release, BusyType, BusyInv, sessions, NotBusy
  <2> QED
    BY <1>0, <1>3, <2>1, Bounds DEF LoadFails, Fail, TableType, KeyType, HeldsType, SourceType, AtType,
       SessionType, FaultType, table, sessions
<1>4. CASE RereadClient(p)
  <2> DEFINE u == busy[p].unit
             h == Adopted(p, busy[p].stored)
  <2>1. h \in [known: Sealed, baseline: Token, plaintext: Token, adoption: Nat]
    BY <1>0, AdoptedType DEF BusyType
  <2>2. u \in Unit /\ At[u] = p /\ at[u] = "rereading"
    BY <1>0, <1>4 DEF RereadClient, BusyInv
  <2> HIDE DEF h, u
  <2>3. HeldsType'
    BY <1>0, <1>4, <2>1 DEF RereadClient, h, u, Hold, HeldsType, TableType
  <2>4. BusyType'
    BY <1>0, <1>4 DEF RereadClient, Release, BusyType
  <2>5. BusyInv'
    BY <1>0, <1>4, <2>2 DEF RereadClient, Release, BusyType, BusyInv, NotBusy, AtType, u
  <2>6. AtType'
    BY <1>0, <1>4 DEF RereadClient, AtType, Places
  <2>7. SessionType'
    <3>1. [client |-> row.client, token |-> h.plaintext] \in Pair /\ h.adoption \in Nat
      BY <1>0, <2>1 DEF TableType, Pair
    <3> DEFINE t == [session[u] EXCEPT !.offer = [client |-> row.client, token |-> h.plaintext],
                                       !.stamp = h.adoption]
    <3>2. session' = [session EXCEPT ![u] = t] /\ at' = [at EXCEPT ![u] = "reread"]
      BY <1>0, <1>4, <2>2 DEF RereadClient, SessionType, h, u
    <3>3. /\ t \in [offer: Pair, stamp: Nat, adoption: Nat, source: SourceId \cup {NoSource}, current: Token]
          /\ t.source = session[u].source
      BY <1>0, <2>2, <3>1 DEF SessionType
    <3> HIDE DEF t
    <3> QED
      BY <1>0, <2>2, <3>2, <3>3 DEF SessionType, AtType
  <2> QED
    BY <1>0, <1>4, <2>3, <2>4, <2>5, <2>6, <2>7 DEF RereadClient, TableType, KeyType, SourceType,
       FaultType, table, faults
<1>5. CASE RereadFails(p)
  <2>1. BusyType' /\ AtType'
    BY <1>0, <1>5 DEF RereadFails, Release, BusyType, AtType, Places
  <2>2. BusyInv' /\ SessionType'
    BY <1>0, <1>5 DEF RereadFails, Release, BusyType, BusyInv, NotBusy, AtType, SessionType
  <2> QED
    BY <1>0, <1>5, <2>1, <2>2, Bounds DEF RereadFails, Fail, TableType, KeyType, HeldsType,
       SourceType, FaultType, table
<1>6. CASE HandOverReplace(p)
  <2>0. held[p].plaintext \in Token /\ key[p] \in 1..MaxKey /\ key[p] \in 0..MaxKey
    BY <1>0, Bounds, ProcessAssumption DEF HeldsType, KeyType
  <2>1. HeldsType'
    <3>1. CASE Holds(p)
      <4>1. [token |-> held[p].plaintext, key |-> key[p]] \in Sealed
        BY <2>0 DEF Sealed
      <4> QED
        BY <1>0, <1>6, <2>0, <3>1, <4>1 DEF HandOverReplace, HeldsType
    <3>2. CASE ~ Holds(p)
      BY <1>0, <1>6, <3>2 DEF HandOverReplace, HeldsType
    <3> QED
      BY <3>1, <3>2
  <2>4. TableType'
    BY <1>0, <1>6, <2>0 DEF HandOverReplace, Replace, TableType
  <2>2. BusyType' /\ AtType'
    BY <1>0, <1>6 DEF HandOverReplace, HandedOver, Release, BusyType, AtType, Places
  <2>3. BusyInv'
    <3>1. CASE Holds(p)
      BY <1>0, <1>6, <3>1 DEF HandOverReplace, HandedOver, Release, BusyType, BusyInv, NotBusy, AtType
    <3>2. CASE ~ Holds(p)
      BY <1>0, <1>6, <3>2 DEF HandOverReplace, BusyType, BusyInv
    <3> QED
      BY <3>1, <3>2
  <2>5. SessionType'
    <3>1. CASE Holds(p)
      BY <1>0, <1>6, <3>1 DEF HandOverReplace, HandedOver, BusyInv, AtType, SessionType
    <3>2. CASE ~ Holds(p)
      BY <1>0, <1>6, <3>2 DEF HandOverReplace, SessionType
    <3> QED
      BY <3>1, <3>2
  <2> QED
    BY <1>0, <1>6, <2>1, <2>2, <2>3, <2>4, <2>5 DEF HandOverReplace, KeyType, SourceType, FaultType, faults
<1>7. CASE HandOverRead(p)
  <2> DEFINE h == Adopted(p, Stored)
  <2>1. h \in [known: Sealed, baseline: Token, plaintext: Token, adoption: Nat]
    BY <1>0, AdoptedType, StoredType
  <2> HIDE DEF h
  <2>2. HeldsType'
    <3>1. h.plaintext \in Token /\ h.adoption \in Nat
      BY <2>1
    <3>2. held' \in [Process -> [known: Sealed, baseline: Token, plaintext: Token, adoption: Nat]]
      BY <1>0, <1>7, <2>1 DEF HandOverRead, h, Hold, HeldsType
    <3>3. adoptions' \in [Process -> Nat]
      BY <1>0, <1>7, <3>1 DEF HandOverRead, h, Hold, HeldsType
    <3>4. snapshot' \in [Process -> [client: Client, token: Token, adoption: Nat]]
      BY <1>0, <1>7, <3>1, PublishType DEF HandOverRead, h
    <3> QED
      BY <3>2, <3>3, <3>4 DEF HeldsType
  <2>3. BusyType' /\ AtType'
    BY <1>0, <1>7 DEF HandOverRead, HandedOver, Release, BusyType, AtType, Places
  <2>4. BusyInv' /\ SessionType'
    BY <1>0, <1>7 DEF HandOverRead, HandedOver, Release, BusyType, BusyInv, NotBusy, AtType, SessionType
  <2> QED
    BY <1>0, <1>7, <2>2, <2>3, <2>4 DEF HandOverRead, TableType, KeyType, SourceType, FaultType, table, faults
<1>8. CASE HandOverFails(p)
  <2>1. TableType'
    <3>1. held[p].plaintext \in Token /\ key[p] \in 0..MaxKey
      BY <1>0, Bounds, ProcessAssumption DEF HeldsType, KeyType
    <3> QED
      BY <1>0, <1>8, <3>1 DEF HandOverFails, Replace, TableType
  <2>2. BusyType' /\ AtType'
    BY <1>0, <1>8 DEF HandOverFails, HandedOver, Release, BusyType, AtType, Places
  <2>3. BusyInv' /\ SessionType'
    BY <1>0, <1>8 DEF HandOverFails, HandedOver, Release, BusyType, BusyInv, NotBusy, AtType, SessionType
  <2> QED
    BY <1>0, <1>8, <2>1, <2>2, <2>3, Bounds DEF HandOverFails, Fail, KeyType, HeldsType, SourceType, FaultType
<1>9. CASE Restart(p)
  <2>1. KeyType' /\ HeldsType'
    BY <1>0, <1>9 DEF Restart, KeyType, HeldsType
  <2>2. BusyType' /\ AtType' /\ SessionType'
    BY <1>0, <1>9 DEF Restart, Release, BusyType, AtType, SessionType, Places
  <2>3. BusyInv'
    BY <1>0, <1>9 DEF Restart, Release, BusyType, BusyInv, NotBusy
  <2>4. SourceType'
    BY <1>0, <1>9 DEF Restart, SourceType
  <2>5. FaultType' /\ TableType'
    BY <1>0, <1>9, Bounds DEF Restart, FaultType, TableType, table
  <2> QED
    BY <2>1, <2>2, <2>3, <2>4, <2>5
<1> QED
  BY <1>1, <1>2, <1>3, <1>4, <1>5, <1>6, <1>7, <1>8, <1>9 DEF LoaderStep

LEMMA ResealTyped ==
    ASSUME TypeInv, ResealStep
    PROVE  TypeInv'
<1> DEFINE p == Resealer
<1>0. /\ TableType /\ KeyType /\ HeldsType /\ BusyType /\ SourceType /\ AtType
      /\ SessionType /\ FaultType /\ BusyInv /\ TypeOK /\ p \in Process
  BY Parts, ProcessAssumption DEF TypeInv
<1> HIDE DEF p
<1> SUFFICES /\ TableType' /\ KeyType' /\ HeldsType' /\ BusyType' /\ SourceType' /\ AtType'
             /\ SessionType' /\ FaultType' /\ BusyInv'
  BY Parts, PTL DEF TypeInv
<1> USE Values
<1>a. key[p] \in 1..MaxKey /\ key[p] \in 0..MaxKey
  BY <1>0, Bounds DEF KeyType
<1>1. CASE Reseal
  <2>1. BusyType' /\ BusyInv'
    BY ZenonT(40), <1>0, <1>1 DEF Reseal, p, BusyType, BusyInv, sessions, Free, NotBusy
  <2> QED
    BY <1>0, <1>1, <2>1 DEF Reseal, TableType, KeyType, HeldsType, SourceType, AtType,
       SessionType, FaultType, table, sessions, faults
<1>2. CASE ResealReplace
  <2>1. HeldsType'
    <3>1. [held[p].known EXCEPT !.key = key[p]] \in Sealed
      BY <1>0, <1>a DEF HeldsType, Sealed
    <3> QED
      BY SMTT(30), <1>0, <1>2, <3>1 DEF ResealReplace, p, HeldsType
  <2>2. TableType'
    BY <1>0, <1>2, <1>a DEF ResealReplace, p, Replace, TableType
  <2>3. BusyType' /\ BusyInv'
    BY <1>0, <1>2 DEF ResealReplace, p, Release, BusyType, BusyInv, sessions, NotBusy
  <2> QED
    BY <1>0, <1>2, <2>1, <2>2, <2>3 DEF ResealReplace, KeyType, SourceType, AtType,
       SessionType, FaultType, sessions, faults
<1>3. CASE ResealRead
  <2> DEFINE h == Adopted(p, Stored)
  <2>1. h \in [known: Sealed, baseline: Token, plaintext: Token, adoption: Nat]
    BY <1>0, AdoptedType, StoredType
  <2>2. Hold(p, h) /\ Publish(p, h)
    BY <1>3 DEF ResealRead, p
  <2> HIDE DEF h
  <2>3. h.plaintext \in Token /\ h.adoption \in Nat
    BY <2>1
  <2>4. snapshot' \in [Process -> [client: Client, token: Token, adoption: Nat]]
    BY <1>0, <2>2, <2>3, PublishType
  <2>5. HeldsType'
    BY <1>0, <2>1, <2>2, <2>3, <2>4 DEF Hold, HeldsType
  <2>6. BusyType' /\ BusyInv'
    BY <1>0, <1>3 DEF ResealRead, p, Release, BusyType, BusyInv, sessions, NotBusy
  <2> QED
    BY <1>0, <1>3, <2>5, <2>6 DEF ResealRead, TableType, KeyType, SourceType, AtType,
       SessionType, FaultType, table, sessions, faults
<1>4. CASE ResealFails
  <2>1. TableType'
    BY <1>0, <1>4, <1>a DEF ResealFails, p, Replace, TableType
  <2>2. BusyType' /\ BusyInv'
    BY <1>0, <1>4 DEF ResealFails, p, Release, BusyType, BusyInv, sessions, NotBusy
  <2> QED
    BY <1>0, <1>4, <2>1, <2>2, Bounds DEF ResealFails, Fail, KeyType, HeldsType, SourceType, AtType,
       SessionType, FaultType, sessions
<1> QED
  BY <1>1, <1>2, <1>3, <1>4 DEF ResealStep

\* What building a source leaves: one of the process's sources is the unit's.
LEMMA BuildTyped ==
    ASSUME TypeOK, NEW u \in Unit, Build(u)
    PROVE  /\ SourceType'
           /\ session' \in [Unit -> [offer: Pair, stamp: Nat, adoption: Nat,
                                     source: SourceId \cup {NoSource}, current: Token]]
           /\ session'[u].source \in SourceId
           /\ \A v \in Unit \ {u} : session'[v] = session[v]
<1> DEFINE p == At[u]
           creds == session[u].offer
<1>0. /\ SourceType /\ SessionType /\ p \in Process /\ creds \in Pair
  BY Parts, ProcessAssumption DEF SessionType
<1>1. PICK s \in SourceId :
        /\ kept' = [kept EXCEPT ![p] = [built |-> creds, source |-> s]]
        /\ session' = [session EXCEPT ![u] =
               [NoSession EXCEPT !.adoption = session[u].stamp, !.source = s]]
        /\ source' = [source EXCEPT ![p] = Collected(p, u, [source[p] EXCEPT ![s] = creds], s, s)]
  BY <1>0 DEF Build, SourceType
<1> HIDE DEF p, creds
<1>2. Collected(p, u, [source[p] EXCEPT ![s] = creds], s, s) \in [SourceId -> Pair]
  BY <1>0, CollectedType DEF SourceType
<1>3. SourceType'
  BY <1>0, <1>1, <1>2 DEF SourceType
<1>4. [NoSession EXCEPT !.adoption = session[u].stamp, !.source = s]
          \in [offer: Pair, stamp: Nat, adoption: Nat, source: SourceId \cup {NoSource}, current: Token]
  BY <1>0, Values DEF SessionType
<1> QED
  BY <1>0, <1>1, <1>3, <1>4, Values DEF SessionType

LEMMA UnitTyped ==
    ASSUME TypeInv, NEW u \in Unit, UnitStep(u)
    PROVE  TypeInv'
<1> DEFINE p == At[u]
<1>0. /\ TableType /\ KeyType /\ HeldsType /\ BusyType /\ SourceType /\ AtType
      /\ SessionType /\ FaultType /\ BusyInv /\ TypeOK /\ p \in Process
  BY Parts, ProcessAssumption DEF TypeInv
<1> SUFFICES /\ TableType' /\ KeyType' /\ HeldsType' /\ BusyType' /\ SourceType' /\ AtType'
             /\ SessionType' /\ FaultType' /\ BusyInv'
  BY Parts, PTL DEF TypeInv
<1> USE Values
<1>a. ASSUME NEW x \in Places, at' = [at EXCEPT ![u] = x], busy' = busy,
             at[u] \notin {"rereading", "handing"}
      PROVE  AtType' /\ BusyInv'
  BY <1>0, <1>a DEF AtType, BusyInv
<1>1. CASE Take(u)
  <2> DEFINE t == [NoSession EXCEPT
                     !.offer = [client |-> snapshot[p].client, token |-> snapshot[p].token],
                     !.stamp = snapshot[p].adoption]
  <2>1. t \in [offer: Pair, stamp: Nat, adoption: Nat, source: SourceId \cup {NoSource}, current: Token]
    BY <1>0 DEF HeldsType, Pair
  <2>2. session' = [session EXCEPT ![u] = t] /\ at' = [at EXCEPT ![u] = "taken"] /\ at[u] = "idle" /\ busy' = busy
    BY <1>1 DEF Take, loader
  <2> HIDE DEF t
  <2>3. SessionType'
    BY <1>0, <2>1, <2>2 DEF SessionType, AtType
  <2>4. AtType' /\ BusyInv'
    BY <2>2, <1>a DEF Places
  <2> QED
    BY <1>0, <1>1, <2>3, <2>4 DEF Take, TableType, KeyType, HeldsType, BusyType, SourceType, FaultType, table, loader, faults
<1>2. CASE Open(u)
  <2>1. at' = [at EXCEPT ![u] = "open"] /\ at[u] = "taken" /\ busy' = busy
    BY <1>2 DEF Open, loader
  <2>2. AtType' /\ BusyInv'
    BY <2>1, <1>a DEF Places
  <2>3. SourceType' /\ SessionType'
    <3>1. CASE Serves(p, session[u].offer)
      <4> DEFINE t == [NoSession EXCEPT !.adoption = session[u].stamp, !.source = kept[p].source]
      <4>1. /\ t \in [offer: Pair, stamp: Nat, adoption: Nat, source: SourceId \cup {NoSource}, current: Token]
            /\ t.source \in SourceId
        BY ZenonT(40), <1>0, <3>1 DEF SessionType, SourceType, Serves
      <4>2. session' = [session EXCEPT ![u] = t] /\ UNCHANGED <<source, kept>>
        BY <1>2, <3>1 DEF Open
      <4> HIDE DEF t
      <4> QED
        BY <1>0, <2>1, <4>1, <4>2 DEF SessionType, SourceType, AtType
    <3>2. CASE ~ Serves(p, session[u].offer)
      BY <1>0, <1>2, <2>1, <3>2, BuildTyped DEF Open, SessionType, AtType
    <3> QED
      BY <3>1, <3>2
  <2> QED
    BY <1>0, <1>2, <2>2, <2>3 DEF Open, TableType, KeyType, HeldsType, BusyType, FaultType, table, loader, faults
<1>3. CASE Rotate(u)
  <2> DEFINE new == [grant |-> Held(u).token.grant, rotation |-> rotated + 1]
  <2>1. Held(u) \in Pair /\ session[u].source \in SourceId
    BY <1>0, <1>3, HeldType DEF Rotate
  <2>2. new \in Token /\ rotated + 1 \in 0..MaxRotation
    BY <1>0, <1>3, <2>1, Bounds DEF Rotate, TableType, Pair, Token
  <2>3. TableType'
    BY <1>0, <1>3, <2>2 DEF Rotate, TableType
  <2>4. SourceType'
    <3> DEFINE s == session[u].source
               t == [source[p][s] EXCEPT !.token = new]
    <3>1. t \in Pair
      BY <1>0, <2>1, <2>2 DEF Pair, Held
    <3>2. source' = [source EXCEPT ![p] = [source[p] EXCEPT ![s] = t]] /\ UNCHANGED kept
      BY <1>0, <1>3 DEF Rotate, SourceType
    <3> HIDE DEF p, new, s, t
    <3>3. s \in SourceId
      BY <2>1 DEF s
    <3>4. [source[p] EXCEPT ![s] = t] \in [SourceId -> Pair]
      BY <1>0, <3>1, <3>3 DEF SourceType
    <3> QED
      BY <1>0, <3>2, <3>4 DEF SourceType
  <2> QED
    BY <1>0, <1>3, <2>3, <2>4 DEF Rotate, KeyType, HeldsType, BusyType, AtType, SessionType, BusyInv, FaultType, loader, faults
<1>4. CASE Reread(u)
  <2>1. BusyType'
    BY <1>0, <1>4, StoredType DEF Reread, BusyType
  <2>2. AtType' /\ SessionType'
    BY <1>0, <1>4 DEF Reread, AtType, Places, SessionType
  <2>3. BusyInv'
    BY <1>0, <1>4 DEF Reread, AtType, BusyType, BusyInv, Free, NotBusy
  <2> QED
    BY <1>0, <1>4, <2>1, <2>2, <2>3 DEF Reread, TableType, KeyType, HeldsType, SourceType, FaultType, table, faults
<1>5. CASE Retry(u)
  <2>1. at' = [at EXCEPT ![u] = "open"] /\ at[u] = "reread" /\ busy' = busy
    BY <1>5 DEF Retry, loader
  <2>2. AtType' /\ BusyInv'
    BY <2>1, <1>a DEF Places
  <2>3. SourceType' /\ SessionType'
    <3>1. CASE session[u].offer.token = None \/ session[u].offer = Held(u)
      <4> DEFINE t == [session[u] EXCEPT !.offer = NoPair, !.stamp = 0]
      <4>1. /\ t \in [offer: Pair, stamp: Nat, adoption: Nat, source: SourceId \cup {NoSource}, current: Token]
            /\ t.source = session[u].source
        BY ZenonT(40), <1>0 DEF SessionType
      <4>2. session' = [session EXCEPT ![u] = t] /\ UNCHANGED <<source, kept>>
        BY <1>5, <1>0, <3>1 DEF Retry, SessionType
      <4> HIDE DEF t
      <4> QED
        BY <1>0, <2>1, <4>1, <4>2 DEF SessionType, SourceType, AtType
    <3>2. CASE ~ (session[u].offer.token = None \/ session[u].offer = Held(u))
      BY <1>0, <1>5, <2>1, <3>2, BuildTyped DEF Retry, SessionType, AtType
    <3> QED
      BY <3>1, <3>2
  <2> QED
    BY <1>0, <1>5, <2>2, <2>3 DEF Retry, TableType, KeyType, HeldsType, BusyType, FaultType, table, loader, faults
<1>6. CASE End(u)
  <2>1. at' = [at EXCEPT ![u] = "ending"] /\ at[u] = "open" /\ busy' = busy
    BY <1>6 DEF End, loader
  <2>2. AtType' /\ BusyInv'
    BY <2>1, <1>a DEF Places
  <2>3. Held(u).token \in Token
    BY <1>0, <2>1, HeldType DEF Pair
  <2>4. SessionType'
    BY <1>0, <1>6, <2>1, <2>3 DEF End, SessionType, AtType
  <2> QED
    BY <1>0, <1>6, <2>2, <2>4 DEF End, TableType, KeyType, HeldsType, BusyType, SourceType, FaultType, table, loader, faults
<1>7. CASE HandOverNothing(u)
  <2>1. at' = [at EXCEPT ![u] = "ended"] /\ at[u] = "ending" /\ busy' = busy
    BY <1>7 DEF HandOverNothing, HandedOver, loader
  <2>2. AtType' /\ BusyInv'
    BY <2>1, <1>a DEF Places
  <2>3. SessionType'
    BY <1>0, <1>7, <2>1 DEF HandOverNothing, HandedOver, SessionType, AtType
  <2> QED
    BY <1>0, <1>7, <2>2, <2>3 DEF HandOverNothing, TableType, KeyType, HeldsType, BusyType, SourceType, FaultType, table, loader, faults
<1>8. CASE HandOver(u)
  <2> DEFINE h == [held[p] EXCEPT !.plaintext = session[u].current]
  <2>1. h \in [known: Sealed, baseline: Token, plaintext: Token, adoption: Nat]
    BY <1>0 DEF HeldsType, SessionType
  <2>2. Hold(p, h) /\ Publish(p, h)
    BY <1>8 DEF HandOver
  <2> HIDE DEF h
  <2>3. h.plaintext \in Token /\ h.adoption \in Nat
    BY <2>1
  <2>4. snapshot' \in [Process -> [client: Client, token: Token, adoption: Nat]]
    BY <1>0, <2>2, <2>3, PublishType
  <2>5. HeldsType'
    BY <1>0, <2>1, <2>2, <2>3, <2>4 DEF Hold, HeldsType
  <2>6. BusyType'
    BY <1>0, <1>8 DEF HandOver, BusyType
  <2>7. AtType' /\ SessionType'
    BY <1>0, <1>8 DEF HandOver, AtType, Places, SessionType
  <2>8. BusyInv'
    BY <1>0, <1>8 DEF HandOver, AtType, BusyType, BusyInv, Free, NotBusy
  <2> QED
    BY <1>0, <1>8, <2>5, <2>6, <2>7, <2>8 DEF HandOver, TableType, KeyType, SourceType, FaultType, table, faults
<1>9. CASE GoOn(u)
  <2>1. at' = [at EXCEPT ![u] = "open"] /\ at[u] = "ended" /\ busy' = busy
    BY <1>9 DEF GoOn, loader
  <2>2. AtType' /\ BusyInv'
    BY <2>1, <1>a DEF Places
  <2>3. SessionType'
    BY <1>0, <1>9, <2>1 DEF GoOn, SessionType, AtType
  <2> QED
    BY <1>0, <1>9, <2>2, <2>3 DEF GoOn, TableType, KeyType, HeldsType, BusyType, SourceType, FaultType, table, loader, faults
<1>10. CASE Close(u)
  <2>1. at' = [at EXCEPT ![u] = "idle"] /\ at[u] = "ended" /\ busy' = busy
    BY <1>10 DEF Close, loader
  <2>2. AtType' /\ BusyInv'
    BY <2>1, <1>a DEF Places
  <2>3. SessionType'
    BY <1>0, <1>10, <2>1 DEF Close, SessionType, AtType
  <2>4. SourceType'
    BY <1>0, <1>10, CollectedType DEF Close, SourceType
  <2> QED
    BY <1>0, <1>10, <2>2, <2>3, <2>4 DEF Close, TableType, KeyType, HeldsType, BusyType, FaultType, table, loader, faults
<1> QED
  BY <1>1, <1>2, <1>3, <1>4, <1>5, <1>6, <1>7, <1>8, <1>9, <1>10 DEF UnitStep

LEMMA OthersTyped ==
    ASSUME TypeInv, Connect \/ ReplaceKey \/ UNCHANGED vars
    PROVE  TypeInv'
<1>0. /\ TableType /\ KeyType /\ HeldsType /\ BusyType /\ SourceType /\ AtType
      /\ SessionType /\ FaultType /\ BusyInv
  BY Parts DEF TypeInv
<1> SUFFICES /\ TableType' /\ KeyType' /\ HeldsType' /\ BusyType' /\ SourceType' /\ AtType'
             /\ SessionType' /\ FaultType' /\ BusyInv'
  BY Parts, PTL DEF TypeInv
<1>1. UNCHANGED loader /\ UNCHANGED sessions /\ UNCHANGED faults
  BY DEF Connect, ReplaceKey, vars
<1>2. KeyType'
  BY <1>0, Bounds DEF Connect, ReplaceKey, vars, KeyType
<1>3. TableType'
  <2>1. CASE Connect
    <3> DEFINE g == granted + 1
               t == [grant |-> g, rotation |-> 0]
    <3>1. g \in Grant /\ t \in Token /\ ClientOf[g] \in Client /\ key[Operator] \in 0..MaxKey
      BY <1>0, <2>1, Bounds, Values DEF Connect, TableType, KeyType, Grant, Token
    <3> QED
      BY <1>0, <2>1, <3>1 DEF Connect, TableType
  <2>2. CASE ReplaceKey \/ UNCHANGED vars
    BY <1>0, <2>2 DEF ReplaceKey, vars, table, TableType
  <2> QED
    BY <2>1, <2>2
<1> QED
  BY <1>0, <1>1, <1>2, <1>3 DEF HeldsType, BusyType, SourceType, AtType, SessionType, FaultType, BusyInv, loader, sessions, faults

LEMMA StepTyped == TypeInv /\ [Next]_vars => TypeInv'
BY LoaderTyped, ResealTyped, UnitTyped, OthersTyped DEF Next

\* Every variable keeps its type, and a unit that calls the provider has a
\* source, whatever fails and whoever restarts.
THEOREM TypeCorrect == Spec => []TypeOK
<1>1. Spec => []TypeInv
  BY InitType, StepTyped, PTL DEF Spec
<1> QED
  BY <1>1, PTL DEF TypeInv

-----------------------------------------------------------------------------
(* What the loader holds. *)

Holding == [known: Sealed, baseline: Token, plaintext: Token, adoption: Nat]

\* What may take the place of what a loader holds.
Follows(p, h) ==
    \/ h = NotHeld
    \/ h.adoption = adoptions[p] + 1
    \/ /\ h.adoption = held[p].adoption
       /\ h.known.token.grant = held[p].known.token.grant
       /\ h.adoption \in 1..adoptions[p]

\* The stamps a loader has given keep telling their grants.
StampsKept(p) ==
    \A stamp, grant : Stamped(adoptions[p], held[p], stamp, grant)
                          => Stamped(adoptions'[p], held'[p], stamp, grant)

NotBack(p) == held'[p] = NotHeld \/ held'[p].plaintext.grant >= held[p].plaintext.grant

\* A value a loader may find when it reads the row.
Readable(p, stored) ==
    \/ stored = NotStored
    \/ stored.token.grant \in 1..granted /\ stored.token.grant >= held[p].known.token.grant

LEMMA HeldGrants ==
    ASSUME TypeOK, HeldInv, NEW p \in Process
    PROVE  /\ held[p] \in Holding
           /\ held[p].plaintext.grant \in Nat /\ held[p].known.token.grant \in Nat
           /\ held[p].known.token.grant =< granted
           /\ held[p].plaintext.grant = held[p].known.token.grant
           /\ adoptions[p] \in Nat /\ granted \in Nat
<1>1. held[p] \in Holding /\ adoptions[p] \in Nat /\ granted \in Nat
  BY Bounds DEF TypeOK, Holding, Grant
<1>2. held[p].plaintext.grant \in Nat /\ held[p].known.token.grant \in Nat
  BY <1>1, Bounds DEF Holding, Token, Sealed, Grant
<1> QED
  BY <1>1, <1>2 DEF HeldInv, MayHold, NotHeld, NotStored, None

LEMMA StoredReadable ==
    ASSUME TypeOK, RowInv, HeldInv, NEW p \in Process
    PROVE  Readable(p, Stored)
BY HeldGrants DEF RowInv, Readable, Stored, NotStored, None

LEMMA AdoptedFollows ==
    ASSUME TypeOK, HeldInv, NEW p \in Process, NEW stored \in Sealed, Readable(p, stored)
    PROVE  /\ MayHold(Adopted(p, stored), adoptions[p] + 1)
           /\ Follows(p, Adopted(p, stored))
           /\ Adopted(p, stored) = NotHeld
                  \/ Adopted(p, stored).plaintext.grant >= held[p].plaintext.grant
<1>1. CASE stored = NotStored
  BY <1>1 DEF Adopted, MayHold, Follows
<1>2. CASE stored /= NotStored /\ held[p].known = stored
  <2>1. held[p] /= NotHeld /\ MayHold(held[p], adoptions[p]) /\ Adopted(p, stored) = held[p]
    BY <1>2 DEF HeldInv, NotHeld, Adopted
  <2> QED
    BY <1>2, <2>1, HeldGrants DEF MayHold, Follows
<1>3. CASE stored /= NotStored /\ held[p].known /= stored
  BY <1>3, HeldGrants DEF Adopted, MayHold, Follows, Readable, Sealed
<1> QED
  BY <1>1, <1>2, <1>3

\* Holding something else keeps what the loaders may hold and what their
\* stamps tell.
LEMMA HoldKeeps ==
    ASSUME TypeOK, HeldInv, NEW p \in Process, NEW h, MayHold(h, adoptions[p] + 1), Follows(p, h),
           h = NotHeld \/ h.plaintext.grant >= held[p].plaintext.grant,
           Hold(p, h), granted' = granted
    PROVE  HeldInv' /\ \A q \in Process : StampsKept(q) /\ NotBack(q)
<1>1. /\ held'[p] = h
      /\ adoptions'[p] = IF h.adoption > adoptions[p] THEN h.adoption ELSE adoptions[p]
      /\ \A q \in Process \ {p} : held'[q] = held[q] /\ adoptions'[q] = adoptions[q]
  BY DEF Hold, TypeOK
<1>2. h = NotHeld \/ h.adoption \in 1..adoptions'[p]
  BY <1>1, HeldGrants DEF MayHold, Follows, NotHeld
<1>3. HeldInv'
  <2>1. MayHold(held[p], adoptions[p])'
    BY <1>1, <1>2 DEF MayHold
  <2>2. ASSUME NEW q \in Process \ {p} PROVE MayHold(held[q], adoptions[q])'
    BY <1>1 DEF HeldInv, MayHold
  <2> QED
    BY <2>1, <2>2 DEF HeldInv
<1>4. StampsKept(p)
  BY <1>1, HeldGrants DEF StampsKept, Stamped, Follows, NotHeld
<1>5. \A q \in Process \ {p} : StampsKept(q) /\ NotBack(q)
  BY <1>1, HeldGrants DEF StampsKept, NotBack
<1> QED
  BY <1>1, <1>3, <1>4, <1>5 DEF NotBack

LEMMA SameHeld ==
    ASSUME TypeOK, HeldInv, UNCHANGED <<held, adoptions, granted>>
    PROVE  HeldInv' /\ \A q \in Process : StampsKept(q) /\ NotBack(q)
BY HeldGrants DEF HeldInv, MayHold, StampsKept, NotBack

\* A unit whose place and session a step leaves alone.
LEMMA UnitKept ==
    ASSUME NEW u \in Unit, UnitOK(u), at'[u] = at[u], session'[u] = session[u], StampsKept(At[u]),
           at[u] \notin {"idle", "taken"} => Held(u)'.token.grant = Held(u).token.grant
    PROVE  UnitOK(u)'
BY DEF UnitOK, StampsKept

\* A unit that goes on from one place to another with the source it has.
LEMMA UnitMoved ==
    ASSUME NEW u \in Unit, UnitOK(u), at[u] \notin {"idle", "taken"},
           at'[u] \in {"open", "rereading", "handing", "ended"},
           session'[u].adoption = session[u].adoption,
           Held(u)'.token.grant = Held(u).token.grant, StampsKept(At[u])
    PROVE  UnitOK(u)'
BY DEF UnitOK, StampsKept

-----------------------------------------------------------------------------
(* The loaders' steps. *)

Kept == /\ RowInv' /\ HeldInv' /\ SnapshotInv' /\ KeptInv' /\ CallInv' /\ UnitInv'
        /\ \A q \in Process : NotBack(q)

LEMMA LoaderKeeps ==
    ASSUME IInv, NEW p \in Process, LoaderStep(p)
    PROVE  Kept
<1>0. /\ TypeOK /\ HeldsType /\ BusyType /\ SourceType /\ AtType /\ SessionType /\ BusyInv
      /\ RowInv /\ HeldInv /\ SnapshotInv /\ KeptInv /\ CallInv /\ UnitInv
  BY Parts DEF IInv, TypeInv
<1> USE DEF table, sessions
<1>1. CASE LoadClients(p) \/ LoadFails(p)
  <2>1. UNCHANGED <<table, held, adoptions, snapshot, sessions>>
    BY <1>1 DEF LoadClients, LoadFails
  <2>2. busy'[p].call \in {"none", "load"} /\ \A q \in Process \ {p} : busy'[q] = busy[q]
    <3>1. CASE LoadClients(p)
      BY <1>0, <3>1 DEF LoadClients, NotBusy, BusyType
    <3>2. CASE LoadFails(p)
      BY <1>0, <3>2 DEF LoadFails, Release, NotBusy, BusyType
    <3> QED
      BY <1>1, <3>1, <3>2
  <2>3. HeldInv' /\ \A q \in Process : StampsKept(q) /\ NotBack(q)
    BY <1>0, <2>1, SameHeld
  <2>4. CallInv'
    BY <1>0, <2>1, <2>2 DEF CallInv
  <2>5. UnitInv'
    BY <1>0, <2>1, <2>3, UnitKept, ProcessAssumption DEF UnitInv, Held
  <2> QED
    BY <1>0, <2>1, <2>3, <2>4, <2>5 DEF Kept, RowInv, SnapshotInv, KeptInv
<1>2. CASE LoadCredential(p)
  <2> DEFINE h == IF busy[p].client = 0 THEN NotHeld ELSE Adopted(p, Stored)
  <2>1. /\ MayHold(h, adoptions[p] + 1) /\ Follows(p, h)
        /\ h = NotHeld \/ h.plaintext.grant >= held[p].plaintext.grant
    BY <1>0, StoredReadable, StoredType, AdoptedFollows DEF MayHold, Follows
  <2>2. /\ Hold(p, h)
        /\ snapshot' = [snapshot EXCEPT ![p] =
               [client |-> busy[p].client, token |-> h.plaintext, adoption |-> h.adoption]]
        /\ Release(p) /\ UNCHANGED <<table, sessions>>
    BY <1>2 DEF LoadCredential
  <2> HIDE DEF h
  <2>3. HeldInv' /\ \A q \in Process : StampsKept(q) /\ NotBack(q)
    BY <1>0, <2>1, <2>2, HoldKeeps
  <2>4. held' = [held EXCEPT ![p] = h]
    BY <2>2 DEF Hold
  <2>5. SnapshotInv'
    BY <1>0, <2>2, <2>4 DEF SnapshotInv, HeldsType
  <2>6. CallInv'
    BY <1>0, <2>2, <2>4 DEF CallInv, Release, BusyType, NotBusy, HeldsType
  <2>7. UnitInv'
    BY <1>0, <2>2, <2>3, UnitKept, ProcessAssumption DEF UnitInv, Held
  <2> QED
    BY <1>0, <2>2, <2>3, <2>5, <2>6, <2>7 DEF Kept, RowInv, KeptInv
<1>3. CASE RereadClient(p)
  <2> DEFINE h == Adopted(p, busy[p].stored)
  <2>0. PICK u \in Unit : u = busy[p].unit /\ At[u] = p /\ at[u] = "rereading"
    BY <1>0, <1>3 DEF RereadClient, BusyInv
  <2>1. /\ MayHold(h, adoptions[p] + 1) /\ Follows(p, h)
        /\ h = NotHeld \/ h.plaintext.grant >= held[p].plaintext.grant
    BY <1>0, <1>3, AdoptedFollows DEF RereadClient, CallInv, Readable, BusyType
  <2>2. /\ Hold(p, h)
        /\ snapshot' = [snapshot EXCEPT ![p] =
               [client |-> row.client, token |-> h.plaintext, adoption |-> h.adoption]]
        /\ session' = [session EXCEPT ![u] =
               [session[u] EXCEPT !.offer = [client |-> row.client, token |-> h.plaintext],
                                  !.stamp = h.adoption]]
        /\ at' = [at EXCEPT ![u] = "reread"]
        /\ Release(p) /\ UNCHANGED <<table, source, kept>>
    BY <1>0, <1>3, <2>0 DEF RereadClient, SessionType
  <2> HIDE DEF h
  <2>3. HeldInv' /\ \A q \in Process : StampsKept(q) /\ NotBack(q)
    BY <1>0, <2>1, <2>2, HoldKeeps
  <2>4. held' = [held EXCEPT ![p] = h]
    BY <2>2 DEF Hold
  <2>5. SnapshotInv'
    BY <1>0, <2>2, <2>4 DEF SnapshotInv, HeldsType
  <2>6. CallInv'
    BY <1>0, <2>2, <2>4 DEF CallInv, Release, BusyType, NotBusy, HeldsType
  <2>7. /\ session'[u].offer.token = h.plaintext /\ session'[u].stamp = h.adoption
        /\ session'[u].adoption = session[u].adoption /\ session'[u].source = session[u].source
        /\ at'[u] = "reread"
    BY <1>0, <2>0, <2>2 DEF SessionType, AtType
  <2>8. UnitOK(u)'
    <3>1. Held(u)' = Held(u)
      BY <2>2, <2>7 DEF Held
    <3>2. Stamped(adoptions[p], held[p], session[u].adoption, Held(u).token.grant)'
      BY <1>0, <2>0, <2>3, <2>7, <3>1 DEF UnitInv, UnitOK, StampsKept
    <3>3. \/ h.plaintext = None
          \/ Stamped(adoptions[p], held[p], session[u].stamp, session[u].offer.token.grant)'
      <4>1. held'[p] = h
        BY <1>0, <2>4 DEF HeldsType
      <4>2. h = NotHeld \/ (h.adoption \in 1..adoptions'[p] /\ h.plaintext.grant = h.known.token.grant)
        BY <2>3, <4>1 DEF HeldInv, MayHold
      <4> QED
        BY <2>7, <4>1, <4>2 DEF Stamped, NotHeld
    <3> QED
      BY <2>0, <2>7, <3>2, <3>3 DEF UnitOK
  <2>9. UnitInv'
    <3>1. ASSUME NEW v \in Unit \ {u} PROVE UnitOK(v)'
      <4>1. UnitOK(v) /\ StampsKept(At[v])
        BY <1>0, <2>3, ProcessAssumption DEF UnitInv
      <4>2. at'[v] = at[v] /\ session'[v] = session[v] /\ Held(v)' = Held(v)
        BY <1>0, <2>2 DEF AtType, SessionType, Held
      <4> QED
        BY <4>1, <4>2, UnitKept
    <3> QED
      BY <2>8, <3>1 DEF UnitInv
  <2> QED
    BY <1>0, <2>2, <2>3, <2>5, <2>6, <2>9 DEF Kept, RowInv, KeptInv
<1>4. CASE RereadFails(p) \/ HandOverFails(p)
  <2>1. PICK u \in Unit : u = busy[p].unit /\ At[u] = p /\ at[u] \in {"rereading", "handing"}
    BY <1>0, <1>4 DEF RereadFails, HandOverFails, BusyInv
  <2>2. /\ UNCHANGED <<granted, held, adoptions, snapshot, source, kept>> /\ Release(p)
        /\ at'[u] \in {"open", "ended"}
        /\ session'[u].adoption = session[u].adoption /\ session'[u].source = session[u].source
        /\ \A v \in Unit \ {u} : at'[v] = at[v] /\ session'[v] = session[v]
    BY <1>0, <1>4, <2>1 DEF RereadFails, HandOverFails, HandedOver, AtType, SessionType
  <2>3. HeldInv' /\ \A q \in Process : StampsKept(q) /\ NotBack(q)
    BY <1>0, <2>2, SameHeld
  <2>4. CallInv'
    BY <1>0, <2>2 DEF CallInv, Release, BusyType, NotBusy
  <2>5. RowInv'
    <3>1. CASE UNCHANGED row
      BY <1>0, <2>2, <3>1 DEF RowInv
    <3>2. CASE HandOverFails(p) /\ Holds(p) /\ Replace(p, held[p].plaintext)
      <4>1. held[p] /= NotHeld
        BY <1>0, <3>2 DEF CallInv, HandOverFails
      <4> QED
        BY <1>0, <2>2, <3>2, <4>1, HeldGrants DEF HeldInv, MayHold, RowInv, Holds, Stored, Replace, TypeOK
    <3> QED
      BY <1>4, <3>1, <3>2 DEF RereadFails, HandOverFails
  <2>6. UnitInv'
    <3>1. UnitOK(u)'
      BY <1>0, <2>1, <2>2, <2>3, UnitMoved DEF UnitInv, Held
    <3>2. ASSUME NEW v \in Unit \ {u} PROVE UnitOK(v)'
      BY <1>0, <2>2, <2>3, UnitKept, ProcessAssumption DEF UnitInv, Held
    <3> QED
      BY <3>1, <3>2 DEF UnitInv
  <2> QED
    BY <1>0, <2>2, <2>3, <2>4, <2>5, <2>6 DEF Kept, SnapshotInv, KeptInv
<1>5. CASE HandOverReplace(p)
  <2>1. PICK u \in Unit : u = busy[p].unit /\ At[u] = p /\ at[u] = "handing"
    BY <1>0, <1>5 DEF HandOverReplace, BusyInv
  <2>2. UNCHANGED <<granted, adoptions, snapshot, source, kept>> /\ held[p] /= NotHeld
    BY <1>0, <1>5 DEF HandOverReplace, CallInv
  <2>3. CASE Holds(p)
    <3> DEFINE h == [held[p] EXCEPT !.known = [token |-> held[p].plaintext, key |-> key[p]],
                                    !.baseline = held[p].plaintext]
    <3>1. /\ Replace(p, held[p].plaintext) /\ HandedOver(u) /\ Release(p)
          /\ held' = [held EXCEPT ![p] = h]
      BY <1>0, <1>5, <2>1, <2>3 DEF HandOverReplace, HeldsType
    <3>2. /\ h.known.token.grant = held[p].known.token.grant
          /\ h.baseline.grant = held[p].known.token.grant
          /\ h.plaintext = held[p].plaintext /\ h.adoption = held[p].adoption
      BY HeldGrants, <1>0 DEF Holding
    <3> HIDE DEF h
    <3>3. h.plaintext.grant >= held[p].plaintext.grant /\ h.adoption =< adoptions[p]
      BY <1>0, <2>2, <3>2, HeldGrants DEF HeldInv, MayHold
    <3>4. MayHold(h, adoptions[p] + 1) /\ Follows(p, h) /\ Hold(p, h)
      <4>1. adoptions' = [adoptions EXCEPT ![p] = IF h.adoption > adoptions[p] THEN h.adoption ELSE adoptions[p]]
        BY <1>0, <2>2, <3>3, <3>2, HeldGrants DEF HeldsType
      <4>2. Hold(p, h)
        BY <3>1, <4>1, <1>0 DEF Hold, HeldsType
      <4> QED
        BY <1>0, <2>2, <3>2, <4>2, HeldGrants DEF HeldInv, MayHold, Follows
    <3>5. HeldInv' /\ \A q \in Process : StampsKept(q) /\ NotBack(q)
      BY <1>0, <2>2, <3>3, <3>4, HoldKeeps
    <3>6. SnapshotInv'
      BY <1>0, <2>2, <3>1, <3>2 DEF SnapshotInv, HeldsType
    <3>7. CallInv'
      BY <1>0, <2>2, <3>1 DEF CallInv, Release, BusyType, NotBusy, HeldsType
    <3>8. RowInv'
      BY <1>0, <2>2, <2>3, <3>1, HeldGrants DEF HeldInv, MayHold, RowInv, Holds, Stored, Replace, TypeOK
    <3>9. UnitInv'
      <4>1. UnitOK(u)'
        <5>1. /\ at'[u] = "ended" /\ session'[u].adoption = session[u].adoption
              /\ session'[u].source = session[u].source
          BY <1>0, <3>1 DEF HandedOver, AtType, SessionType
        <5> QED
          BY <1>0, <2>1, <2>2, <3>5, <5>1, UnitMoved DEF UnitInv, Held
      <4>2. ASSUME NEW v \in Unit \ {u} PROVE UnitOK(v)'
        <5>1. at'[v] = at[v] /\ session'[v] = session[v]
          BY <1>0, <3>1 DEF HandedOver, AtType, SessionType
        <5> QED
          BY <1>0, <2>2, <3>5, <5>1, UnitKept, ProcessAssumption DEF UnitInv, Held
      <4> QED
        BY <4>1, <4>2 DEF UnitInv
    <3> QED
      BY <1>0, <2>2, <3>5, <3>6, <3>7, <3>8, <3>9 DEF Kept, KeptInv
  <2>4. CASE ~ Holds(p)
    <3>1. UNCHANGED <<row, held, at, session>> /\ busy' = [busy EXCEPT ![p].step = "read"]
      BY <1>5, <2>4 DEF HandOverReplace
    <3>2. HeldInv' /\ \A q \in Process : StampsKept(q) /\ NotBack(q)
      BY <1>0, <2>2, <3>1, SameHeld
    <3>3. CallInv'
      BY <1>0, <2>2, <3>1 DEF CallInv, BusyType
    <3>4. UnitInv'
      BY <1>0, <2>2, <3>1, <3>2, UnitKept, ProcessAssumption DEF UnitInv, Held
    <3> QED
      BY <1>0, <2>2, <3>1, <3>2, <3>3, <3>4 DEF Kept, RowInv, SnapshotInv, KeptInv
  <2> QED
    BY <2>3, <2>4
<1>6. CASE HandOverRead(p)
  <2> DEFINE h == Adopted(p, Stored)
  <2>0. PICK u \in Unit : u = busy[p].unit /\ At[u] = p /\ at[u] = "handing"
    BY <1>0, <1>6 DEF HandOverRead, BusyInv
  <2>1. /\ MayHold(h, adoptions[p] + 1) /\ Follows(p, h)
        /\ h = NotHeld \/ h.plaintext.grant >= held[p].plaintext.grant
    BY <1>0, StoredReadable, StoredType, AdoptedFollows
  <2>2. /\ Hold(p, h) /\ Publish(p, h) /\ HandedOver(u)
        /\ Release(p) /\ UNCHANGED <<table, source, kept>>
    BY <1>6, <2>0 DEF HandOverRead
  <2> HIDE DEF h
  <2>3. HeldInv' /\ \A q \in Process : StampsKept(q) /\ NotBack(q)
    BY <1>0, <2>1, <2>2, HoldKeeps
  <2>4. held' = [held EXCEPT ![p] = h]
    BY <2>2 DEF Hold
  <2>5. SnapshotInv'
    BY <1>0, <2>2, <2>4 DEF Publish, SnapshotInv, HeldsType
  <2>6. CallInv'
    BY <1>0, <2>2, <2>4 DEF CallInv, Release, BusyType, NotBusy, HeldsType
  <2>7. UnitInv'
    <4>1. UnitOK(u)'
      <5>1. /\ at'[u] = "ended" /\ session'[u].adoption = session[u].adoption
            /\ session'[u].source = session[u].source
        BY <1>0, <2>2 DEF HandedOver, AtType, SessionType
      <5> QED
        BY <1>0, <2>0, <2>2, <2>3, <5>1, UnitMoved DEF UnitInv, Held
    <4>2. ASSUME NEW v \in Unit \ {u} PROVE UnitOK(v)'
      <5>1. at'[v] = at[v] /\ session'[v] = session[v]
        BY <1>0, <2>2 DEF HandedOver, AtType, SessionType
      <5> QED
        BY <1>0, <2>2, <2>3, <5>1, UnitKept, ProcessAssumption DEF UnitInv, Held
    <4> QED
      BY <4>1, <4>2 DEF UnitInv
  <2> QED
    BY <1>0, <2>2, <2>3, <2>5, <2>6, <2>7 DEF Kept, RowInv, KeptInv
<1>7. CASE Restart(p)
  <2>1. /\ UNCHANGED table
        /\ held'[p] = NotHeld /\ adoptions'[p] = 0
        /\ snapshot'[p] = [client |-> 0, token |-> None, adoption |-> 0]
        /\ busy'[p] = NotBusy /\ kept'[p] = NothingKept
        /\ \A q \in Process \ {p} : /\ held'[q] = held[q] /\ adoptions'[q] = adoptions[q]
                                    /\ snapshot'[q] = snapshot[q] /\ busy'[q] = busy[q]
                                    /\ kept'[q] = kept[q] /\ source'[q] = source[q]
        /\ \A u \in Unit : IF At[u] = p THEN at'[u] = "idle"
                           ELSE at'[u] = at[u] /\ session'[u] = session[u]
    BY <1>0, <1>7 DEF Restart, Release, HeldsType, BusyType, SourceType
  <2>2. HeldInv' /\ \A q \in Process : NotBack(q)
    BY <1>0, <2>1, HeldGrants DEF HeldInv, MayHold, NotBack
  <2>3. SnapshotInv' /\ KeptInv' /\ CallInv' /\ RowInv'
    BY <1>0, <2>1 DEF SnapshotInv, KeptInv, CallInv, RowInv, NotHeld, NotBusy, NothingKept
  <2>4. UnitInv'
    <3>1. ASSUME NEW u \in Unit, At[u] = p PROVE UnitOK(u)'
      BY <2>1, <3>1 DEF UnitOK
    <3>2. ASSUME NEW u \in Unit, At[u] /= p PROVE UnitOK(u)'
      <4>1. At[u] \in Process \ {p}
        BY <3>2, ProcessAssumption
      <4>2. StampsKept(At[u]) /\ Held(u)' = Held(u)
        BY <2>1, <3>2, <4>1 DEF StampsKept, Held
      <4> QED
        BY <1>0, <2>1, <3>2, <4>2, UnitKept DEF UnitInv
    <3> QED
      BY <3>1, <3>2 DEF UnitInv
  <2> QED
    BY <2>2, <2>3, <2>4 DEF Kept
<1> QED
  BY <1>1, <1>2, <1>3, <1>4, <1>5, <1>6, <1>7 DEF LoaderStep

LEMMA ResealKeeps ==
    ASSUME IInv, ResealStep
    PROVE  Kept
<1> DEFINE p == Resealer
<1>0. /\ TypeOK /\ HeldsType /\ BusyType /\ SourceType /\ AtType /\ SessionType /\ BusyInv
      /\ RowInv /\ HeldInv /\ SnapshotInv /\ KeptInv /\ CallInv /\ UnitInv /\ p \in Process
  BY Parts, ProcessAssumption DEF IInv, TypeInv
<1>1. UNCHANGED <<granted, source, kept, at, session>>
  BY DEF ResealStep, Reseal, ResealReplace, ResealRead, ResealFails, table, sessions
<1>2. ASSUME \A q \in Process : StampsKept(q)
      PROVE  UnitInv' /\ KeptInv'
  BY <1>0, <1>1, <1>2, UnitKept, ProcessAssumption DEF UnitInv, KeptInv, Held
<1>3. CASE Reseal \/ ResealFails
  <2>1. UNCHANGED <<held, adoptions, snapshot>> /\ row'.token = row.token
    BY <1>3, <1>0 DEF Reseal, ResealFails, Replace, table, TypeOK
  <2>2. HeldInv' /\ \A q \in Process : StampsKept(q) /\ NotBack(q)
    BY <1>0, <1>1, <2>1, SameHeld
  <2>3. CallInv'
    <3>1. CASE Reseal
      BY <1>0, <1>1, <2>1, <3>1 DEF Reseal, CallInv, BusyType
    <3>2. CASE ResealFails
      BY <1>0, <1>1, <2>1, <3>2 DEF ResealFails, Release, CallInv, BusyType, NotBusy
    <3> QED
      BY <1>3, <3>1, <3>2
  <2>4. RowInv'
    <3>1. CASE UNCHANGED row
      BY <1>0, <1>1, <3>1 DEF RowInv
    <3>2. CASE row' /= row
      <4>1. Holds(p) /\ held[p].known /= NotStored
        BY <1>0, <1>3, <3>2 DEF Reseal, ResealFails, CallInv, table
      <4> QED
        BY <1>0, <1>1, <2>1, <4>1 DEF RowInv, Holds, Stored, NotStored
    <3> QED
      BY <3>1, <3>2
  <2> QED
    BY <1>0, <1>2, <2>1, <2>2, <2>3, <2>4 DEF Kept, SnapshotInv
<1>4. CASE ResealReplace
  <2>1. UNCHANGED <<adoptions, snapshot>> /\ row'.token = row.token /\ held[p].known /= NotStored
    BY <1>4, <1>0 DEF ResealReplace, Replace, TypeOK, CallInv
  <2>2. CASE Holds(p)
    <3> DEFINE h == [held[p] EXCEPT !.known.key = key[p]]
    <3>1. held' = [held EXCEPT ![p] = h] /\ Release(p)
      BY <1>0, <1>4, <2>2 DEF ResealReplace, HeldsType
    <3>2. /\ h.known.token = held[p].known.token /\ h.baseline = held[p].baseline
          /\ h.plaintext = held[p].plaintext /\ h.adoption = held[p].adoption
      BY <1>0, HeldGrants DEF Holding, Sealed
    <3> HIDE DEF h
    <3>3. held[p] /= NotHeld
      BY <2>1 DEF NotHeld
    <3>4. h.plaintext.grant >= held[p].plaintext.grant /\ h.adoption =< adoptions[p]
      BY <1>0, <3>2, <3>3, HeldGrants DEF HeldInv, MayHold
    <3>5. MayHold(h, adoptions[p] + 1) /\ Follows(p, h) /\ Hold(p, h)
      <4>1. adoptions' = [adoptions EXCEPT ![p] = IF h.adoption > adoptions[p] THEN h.adoption ELSE adoptions[p]]
        BY <1>0, <2>1, <3>4, <3>2, HeldGrants DEF HeldsType
      <4>2. Hold(p, h)
        BY <3>1, <4>1, <1>0 DEF Hold, HeldsType
      <4> QED
        BY <1>0, <3>2, <3>3, <4>2, HeldGrants DEF HeldInv, MayHold, Follows
    <3>6. HeldInv' /\ \A q \in Process : StampsKept(q) /\ NotBack(q)
      BY <1>0, <1>1, <3>4, <3>5, HoldKeeps
    <3>7. SnapshotInv'
      BY <1>0, <2>1, <3>1, <3>2 DEF SnapshotInv, HeldsType
    <3>8. CallInv'
      BY <1>0, <1>1, <3>1 DEF CallInv, Release, BusyType, NotBusy, HeldsType
    <3>9. RowInv'
      BY <1>0, <1>1, <2>1, <2>2 DEF RowInv, Holds, Stored, NotStored
    <3> QED
      BY <1>2, <3>6, <3>7, <3>8, <3>9 DEF Kept
  <2>3. CASE ~ Holds(p)
    <3>1. UNCHANGED <<row, held>> /\ busy' = [busy EXCEPT ![p].step = "read"]
      BY <1>4, <2>3 DEF ResealReplace
    <3>2. HeldInv' /\ \A q \in Process : StampsKept(q) /\ NotBack(q)
      BY <1>0, <1>1, <2>1, <3>1, SameHeld
    <3>3. CallInv'
      BY <1>0, <1>1, <3>1 DEF CallInv, BusyType
    <3> QED
      BY <1>0, <1>1, <1>2, <2>1, <3>1, <3>2, <3>3 DEF Kept, RowInv, SnapshotInv
  <2> QED
    BY <2>2, <2>3
<1>5. CASE ResealRead
  <2> DEFINE h == Adopted(p, Stored)
  <2>1. /\ MayHold(h, adoptions[p] + 1) /\ Follows(p, h)
        /\ h = NotHeld \/ h.plaintext.grant >= held[p].plaintext.grant
    BY <1>0, StoredReadable, StoredType, AdoptedFollows
  <2>2. Hold(p, h) /\ Publish(p, h) /\ Release(p) /\ UNCHANGED table
    BY <1>5 DEF ResealRead
  <2> HIDE DEF h
  <2>3. HeldInv' /\ \A q \in Process : StampsKept(q) /\ NotBack(q)
    BY <1>0, <1>1, <2>1, <2>2, HoldKeeps
  <2>4. held' = [held EXCEPT ![p] = h]
    BY <2>2 DEF Hold
  <2>5. SnapshotInv'
    BY <1>0, <2>2, <2>4 DEF Publish, SnapshotInv, HeldsType
  <2>6. CallInv'
    BY <1>0, <1>1, <2>2, <2>4 DEF CallInv, Release, BusyType, NotBusy, HeldsType
  <2> QED
    BY <1>0, <1>2, <2>2, <2>3, <2>5, <2>6 DEF Kept, RowInv, table
<1> QED
  BY <1>3, <1>4, <1>5 DEF ResealStep

-----------------------------------------------------------------------------
(* The units' steps. *)

\* Building a source leaves every other source in use as it is.
LEMMA BuildKeeps ==
    ASSUME TypeOK, KeptInv, NEW u \in Unit, Build(u)
    PROVE  /\ KeptInv'
           /\ session'[u].adoption = session[u].stamp
           /\ Held(u)' = session[u].offer
           /\ \A v \in Unit \ {u} : /\ session'[v] = session[v]
                                    /\ session[v].source \in SourceId => Held(v)' = Held(v)
<1> DEFINE p == At[u]
           creds == session[u].offer
<1>0. /\ SourceType /\ SessionType /\ p \in Process /\ creds \in Pair
  BY Parts, ProcessAssumption DEF SessionType
<1>1. PICK s \in SourceId :
        /\ ~ Used(p, s)
        /\ kept' = [kept EXCEPT ![p] = [built |-> creds, source |-> s]]
        /\ session' = [session EXCEPT ![u] =
               [NoSession EXCEPT !.adoption = session[u].stamp, !.source = s]]
        /\ source' = [source EXCEPT ![p] = Collected(p, u, [source[p] EXCEPT ![s] = creds], s, s)]
  BY <1>0 DEF Build, SourceType
<1> DEFINE c == Collected(p, u, [source[p] EXCEPT ![s] = creds], s, s)
<1>2. c[s] = creds
  BY <1>0 DEF Collected, SourceType
<1>3. ASSUME NEW v \in Unit \ {u}, At[v] = p, session[v].source \in SourceId
      PROVE  c[session[v].source] = source[p][session[v].source]
  <2>1. session[v].source /= s
    BY <1>1, <1>3 DEF Used
  <2> QED
    BY <1>0, <1>3, <2>1 DEF Collected, SourceType
<1> HIDE DEF c
<1>4. source'[p] = c /\ \A q \in Process \ {p} : source'[q] = source[q] /\ kept'[q] = kept[q]
  BY <1>0, <1>1 DEF c, SourceType
<1>5. KeptInv'
  BY <1>0, <1>1, <1>2, <1>4 DEF KeptInv, SourceType
<1>6. session'[u].source = s /\ session'[u].adoption = session[u].stamp
      /\ \A v \in Unit \ {u} : session'[v] = session[v]
  BY <1>0, <1>1 DEF SessionType, NoSession
<1>7. ASSUME NEW v \in Unit \ {u}, session[v].source \in SourceId PROVE Held(v)' = Held(v)
  BY <1>3, <1>4, <1>6, <1>7, ProcessAssumption DEF Held
<1> QED
  BY <1>0, <1>2, <1>4, <1>5, <1>6, <1>7 DEF Held

LEMMA UnitKeeps ==
    ASSUME IInv, NEW u \in Unit, UnitStep(u)
    PROVE  Kept
<1> DEFINE p == At[u]
<1>0. /\ TypeOK /\ HeldsType /\ BusyType /\ SourceType /\ AtType /\ SessionType /\ BusyInv
      /\ RowInv /\ HeldInv /\ SnapshotInv /\ KeptInv /\ CallInv /\ UnitInv /\ p \in Process
  BY Parts, ProcessAssumption DEF IInv, TypeInv
<1>a. ASSUME UNCHANGED <<row, granted, held, adoptions, snapshot>>,
             busy' = busy \/ (busy'[p].call = "reread" /\ busy'[p].stored = Stored
                              /\ \A q \in Process \ {p} : busy'[q] = busy[q]),
             KeptInv', UnitOK(u)',
             \A v \in Unit \ {u} : /\ at'[v] = at[v] /\ session'[v] = session[v]
                                   /\ at[v] \notin {"idle", "taken"} =>
                                          Held(v)'.token.grant = Held(v).token.grant
      PROVE  Kept
  <2>1. HeldInv' /\ \A q \in Process : StampsKept(q) /\ NotBack(q)
    BY <1>0, <1>a, SameHeld
  <2>2. CallInv'
    BY <1>0, <1>a, StoredReadable DEF CallInv, Readable
  <2>3. ASSUME NEW v \in Unit \ {u} PROVE UnitOK(v)'
    BY <1>0, <1>a, <2>1, UnitKept, ProcessAssumption DEF UnitInv
  <2> QED
    BY <1>0, <1>a, <2>1, <2>2, <2>3 DEF Kept, RowInv, SnapshotInv, UnitInv
<1>k. \A q \in Process : StampsKept(q) \/ <<held, adoptions>>' /= <<held, adoptions>>
  BY DEF StampsKept
<1>1. CASE Take(u)
  <2>1. /\ UNCHANGED <<table, loader, source, kept>> /\ at'[u] = "taken"
        /\ session'[u].stamp = held[p].adoption
        /\ session'[u].offer.token = held[p].plaintext /\ held[p].plaintext /= None
        /\ \A v \in Unit \ {u} : at'[v] = at[v] /\ session'[v] = session[v]
    BY <1>0, <1>1 DEF Take, SnapshotInv, AtType, SessionType, NoSession
  <2>2. held[p] /= NotHeld
    BY <2>1 DEF NotHeld
  <2>3. UnitOK(u)'
    BY <1>0, <2>1, <2>2 DEF UnitOK, Stamped, HeldInv, MayHold, loader
  <2>4. KeptInv'
    BY <1>0, <2>1 DEF KeptInv
  <2> QED
    BY <1>a, <2>1, <2>3, <2>4 DEF table, loader, Held
<1>2. CASE Open(u)
  <2>1. /\ UNCHANGED <<table, loader>> /\ at[u] = "taken" /\ at'[u] = "open"
        /\ \A v \in Unit \ {u} : at'[v] = at[v]
    BY <1>0, <1>2 DEF Open, AtType
  <2>2. Stamped(adoptions[p], held[p], session[u].stamp, session[u].offer.token.grant)
    BY <1>0, <2>1 DEF UnitInv, UnitOK
  <2>3. CASE Serves(p, session[u].offer)
    <3>1. /\ session'[u].adoption = session[u].stamp /\ session'[u].source = kept[p].source
          /\ \A v \in Unit \ {u} : session'[v] = session[v]
          /\ UNCHANGED <<source, kept>>
      BY <1>0, <1>2, <2>3 DEF Open, SessionType, NoSession
    <3>2. Held(u)'.token.grant = session[u].offer.token.grant
      BY <1>0, <2>3, <3>1 DEF Held, Serves, KeptInv
    <3>3. UnitOK(u)'
      BY <2>1, <2>2, <3>1, <3>2 DEF UnitOK, loader
    <3>4. KeptInv'
      BY <1>0, <3>1 DEF KeptInv
    <3> QED
      BY <1>a, <2>1, <3>1, <3>3, <3>4 DEF table, loader, Held
  <2>4. CASE ~ Serves(p, session[u].offer)
    <3>1. Build(u)
      BY <1>2, <2>4 DEF Open
    <3>2. UnitOK(u)'
      BY <1>0, <2>1, <2>2, <3>1, BuildKeeps DEF UnitOK, loader
    <3> QED
      BY <1>a, <1>0, <2>1, <3>1, <3>2, BuildKeeps DEF table, loader, SessionType
  <2> QED
    BY <2>3, <2>4
<1>3. CASE Rotate(u)
  <2>1. /\ UNCHANGED <<row, granted, loader, kept, at, session>> /\ at[u] = "open"
        /\ source' = [source EXCEPT ![p][session[u].source].token =
                          [grant |-> Held(u).token.grant, rotation |-> rotated + 1]]
    BY <1>3 DEF Rotate
  <2>2. \A q \in Process, s \in SourceId : source'[q][s].token.grant = source[q][s].token.grant
    <3> DEFINE s == session[u].source
               new == [grant |-> Held(u).token.grant, rotation |-> rotated + 1]
    <3>1. source' = [source EXCEPT ![p] = [source[p] EXCEPT ![s] = [source[p][s] EXCEPT !.token = new]]]
      BY <1>0, <2>1 DEF SourceType
    <3>2. [source[p][s] EXCEPT !.token = new].token.grant = source[p][s].token.grant
      BY <1>0, <2>1, HeldType DEF Held, Pair, SourceType
    <3> HIDE DEF new, s
    <3> QED
      BY <1>0, <3>1, <3>2 DEF SourceType
  <2>3. KeptInv'
    BY <1>0, <2>1, <2>2 DEF KeptInv, SourceType
  <2>4. ASSUME NEW v \in Unit, at[v] \notin {"idle", "taken"}
        PROVE  Held(v)'.token.grant = Held(v).token.grant
    BY ZenonT(40), <1>0, <2>1, <2>2, <2>4, HeldType DEF Held
  <2>5. UnitOK(u)'
    BY <1>0, <1>k, <2>1, <2>4, UnitKept, ProcessAssumption DEF UnitInv, loader
  <2> QED
    BY <1>a, <2>1, <2>3, <2>4, <2>5 DEF loader
<1>4. CASE Reread(u)
  <2>1. /\ UNCHANGED <<table, held, adoptions, snapshot, source, kept, session>>
        /\ at[u] = "open" /\ at'[u] = "rereading"
        /\ \A v \in Unit \ {u} : at'[v] = at[v]
        /\ busy'[p].call = "reread" /\ busy'[p].stored = Stored
        /\ \A q \in Process \ {p} : busy'[q] = busy[q]
    BY <1>0, <1>4 DEF Reread, AtType, BusyType, NotBusy
  <2>2. UnitOK(u)'
    BY <1>0, <1>k, <2>1, UnitMoved, ProcessAssumption DEF UnitInv, Held
  <2>3. KeptInv'
    BY <1>0, <2>1 DEF KeptInv
  <2> QED
    BY <1>a, <2>1, <2>2, <2>3 DEF table, Held
<1>5. CASE Retry(u)
  <2>1. /\ UNCHANGED <<table, loader>> /\ at[u] = "reread" /\ at'[u] = "open"
        /\ \A v \in Unit \ {u} : at'[v] = at[v]
    BY <1>0, <1>5 DEF Retry, AtType
  <2>2. CASE session[u].offer.token = None \/ session[u].offer = Held(u)
    <3>1. /\ session'[u].adoption = session[u].adoption /\ session'[u].source = session[u].source
          /\ \A v \in Unit \ {u} : session'[v] = session[v]
          /\ UNCHANGED <<source, kept>>
      BY <1>0, <1>5, <2>2 DEF Retry, SessionType
    <3>2. UnitOK(u)'
      BY <1>0, <1>k, <2>1, <3>1, UnitMoved, ProcessAssumption DEF UnitInv, Held, loader
    <3>3. KeptInv'
      BY <1>0, <3>1 DEF KeptInv
    <3> QED
      BY <1>a, <2>1, <3>1, <3>2, <3>3 DEF table, loader, Held
  <2>3. CASE ~ (session[u].offer.token = None \/ session[u].offer = Held(u))
    <3>1. Build(u)
      BY <1>5, <2>3 DEF Retry
    <3>2. Stamped(adoptions[p], held[p], session[u].stamp, session[u].offer.token.grant)
      BY <1>0, <2>1, <2>3 DEF UnitInv, UnitOK
    <3>3. UnitOK(u)'
      BY <1>0, <2>1, <3>2, <3>1, BuildKeeps DEF UnitOK, loader
    <3> QED
      BY <1>a, <1>0, <2>1, <3>1, <3>3, BuildKeeps DEF table, loader, SessionType
  <2> QED
    BY <2>2, <2>3
<1>6. CASE End(u)
  <2>1. /\ UNCHANGED <<table, loader, source, kept>> /\ at[u] = "open" /\ at'[u] = "ending"
        /\ \A v \in Unit \ {u} : at'[v] = at[v] /\ session'[v] = session[v]
        /\ session'[u].current = Held(u).token
        /\ session'[u].adoption = session[u].adoption /\ session'[u].source = session[u].source
    BY <1>0, <1>6 DEF End, AtType, SessionType
  <2>2. Held(u)' = Held(u)
    BY <2>1 DEF Held
  <2>3. UnitOK(u)'
    BY <1>0, <2>1, <2>2 DEF UnitInv, UnitOK, loader
  <2>4. KeptInv'
    BY <1>0, <2>1 DEF KeptInv
  <2> QED
    BY <1>a, <2>1, <2>3, <2>4 DEF table, loader, Held
<1>7. CASE HandOverNothing(u) \/ GoOn(u)
  <2>1. /\ UNCHANGED <<table, loader, source, kept>>
        /\ at[u] \in {"ending", "ended"} /\ at'[u] \in {"open", "ended"}
        /\ \A v \in Unit \ {u} : at'[v] = at[v] /\ session'[v] = session[v]
        /\ session'[u].adoption = session[u].adoption /\ session'[u].source = session[u].source
    BY <1>0, <1>7 DEF HandOverNothing, HandedOver, GoOn, AtType, SessionType
  <2>2. UnitOK(u)'
    BY <1>0, <1>k, <2>1, UnitMoved, ProcessAssumption DEF UnitInv, Held, loader
  <2>3. KeptInv'
    BY <1>0, <2>1 DEF KeptInv
  <2> QED
    BY <1>a, <2>1, <2>2, <2>3 DEF table, loader, Held
<1>8. CASE HandOver(u)
  <2> DEFINE h == [held[p] EXCEPT !.plaintext = session[u].current]
  <2>1. /\ Hold(p, h) /\ Publish(p, h) /\ UNCHANGED <<table, source, kept, session>>
        /\ at' = [at EXCEPT ![u] = "handing"]
        /\ busy'[p].call = "handover" /\ \A q \in Process \ {p} : busy'[q] = busy[q]
        /\ at[u] = "ending" /\ held[p].adoption = session[u].adoption
    BY <1>0, <1>8 DEF HandOver, BusyType, NotBusy
  <2>2. /\ h.known = held[p].known /\ h.baseline = held[p].baseline
        /\ h.plaintext = session[u].current /\ h.adoption = held[p].adoption
    BY <1>0, HeldGrants DEF Holding
  <2>3. /\ held[p] /= NotHeld /\ session[u].current.grant = held[p].known.token.grant
        /\ h.adoption \in 1..adoptions[p]
    BY <1>0, <2>1, <2>2 DEF UnitInv, UnitOK, Stamped, NotHeld
  <2> HIDE DEF h
  <2>4. /\ MayHold(h, adoptions[p] + 1) /\ Follows(p, h) /\ h.plaintext.grant >= held[p].plaintext.grant
    BY <1>0, <2>2, <2>3, HeldGrants DEF HeldInv, MayHold, Follows
  <2>5. HeldInv' /\ \A q \in Process : StampsKept(q) /\ NotBack(q)
    BY <1>0, <2>1, <2>4, HoldKeeps DEF table
  <2>6. held' = [held EXCEPT ![p] = h]
    BY <2>1 DEF Hold
  <2>7. SnapshotInv'
    BY <1>0, <2>1, <2>6 DEF Publish, SnapshotInv, HeldsType
  <2>8. CallInv'
    <3>1. held'[p] /= NotHeld
      BY <1>0, <2>2, <2>3, <2>6, HeldGrants DEF HeldInv, MayHold, HeldsType, NotHeld
    <3> QED
      BY <1>0, <2>1, <2>6, <3>1 DEF CallInv, HeldsType, table
  <2>9. UnitInv'
    <3>1. UnitOK(u)'
      BY <1>0, <2>1, <2>5, UnitMoved DEF UnitInv, Held, AtType
    <3>2. ASSUME NEW v \in Unit \ {u} PROVE UnitOK(v)'
      BY <1>0, <2>1, <2>5, UnitKept, ProcessAssumption DEF UnitInv, Held, AtType
    <3> QED
      BY <3>1, <3>2 DEF UnitInv
  <2> QED
    BY <1>0, <2>1, <2>5, <2>7, <2>8, <2>9 DEF Kept, RowInv, KeptInv, table
<1>9. CASE Close(u)
  <2> DEFINE c == Collected(p, u, source[p], kept[p].source, kept[p].source)
  <2>1. /\ UNCHANGED <<table, loader, kept>> /\ at'[u] = "idle"
        /\ \A v \in Unit \ {u} : at'[v] = at[v] /\ session'[v] = session[v]
        /\ source'[p] = c /\ \A q \in Process \ {p} : source'[q] = source[q]
    BY <1>0, <1>9 DEF Close, AtType, SessionType, SourceType
  <2>2. kept[p].source \in SourceId => c[kept[p].source] = source[p][kept[p].source]
    BY DEF Collected
  <2>3. ASSUME NEW v \in Unit \ {u}, At[v] = p, session[v].source \in SourceId
        PROVE  c[session[v].source] = source[p][session[v].source]
    BY <2>3 DEF Collected
  <2> HIDE DEF c
  <2>4. KeptInv'
    BY <1>0, <2>1, <2>2 DEF KeptInv, SourceType
  <2>5. UnitOK(u)'
    BY <2>1 DEF UnitOK
  <2>6. ASSUME NEW v \in Unit \ {u}, at[v] \notin {"idle", "taken"}
        PROVE  Held(v)' = Held(v)
    <3>1. session[v].source \in SourceId /\ At[v] \in Process
      BY <1>0, <2>6, HeldType
    <3> QED
      BY <2>1, <2>3, <3>1 DEF Held
  <2> QED
    BY <1>a, <2>1, <2>4, <2>5, <2>6 DEF table, loader
<1> QED
  BY <1>1, <1>2, <1>3, <1>4, <1>5, <1>6, <1>7, <1>8, <1>9 DEF UnitStep

-----------------------------------------------------------------------------
(* The operator's steps, and the invariant. *)

LEMMA OthersKeep ==
    ASSUME IInv, Connect \/ ReplaceKey \/ UNCHANGED vars
    PROVE  Kept
<1>0. /\ TypeOK /\ RowInv /\ HeldInv /\ SnapshotInv /\ KeptInv /\ CallInv /\ UnitInv
  BY DEF IInv, TypeInv
<1>1. UNCHANGED <<loader, sessions>>
  BY DEF Connect, ReplaceKey, vars
<1>2. granted \in Nat /\ (UNCHANGED <<row, granted>> \/ (granted' = granted + 1 /\ RowInv'))
  BY <1>0, HeldGrants, ProcessAssumption DEF Connect, ReplaceKey, vars, table, RowInv
<1>3. HeldInv' /\ \A p \in Process : StampsKept(p) /\ NotBack(p)
  <2>1. HeldInv'
    BY <1>0, <1>1, <1>2 DEF HeldInv, MayHold, loader
  <2> QED
    BY <1>0, <1>1, <2>1, HeldGrants DEF StampsKept, NotBack, loader
<1>4. RowInv' /\ SnapshotInv' /\ KeptInv'
  BY <1>0, <1>1, <1>2 DEF RowInv, SnapshotInv, KeptInv, loader, sessions
<1>5. CallInv'
  BY <1>0, <1>1, <1>2 DEF CallInv, loader
<1>6. UnitInv'
  BY <1>0, <1>1, <1>3, UnitKept, ProcessAssumption DEF UnitInv, Held, sessions
<1> QED
  BY <1>3, <1>4, <1>5, <1>6 DEF Kept

LEMMA InitInv == Init => IInv
<1> SUFFICES ASSUME Init PROVE IInv
  OBVIOUS
<1> USE DEF Init
<1>1. RowInv /\ HeldInv /\ SnapshotInv
  BY DEF RowInv, HeldInv, MayHold, SnapshotInv, NotHeld, None
<1>2. KeptInv /\ CallInv /\ UnitInv
  BY DEF KeptInv, NothingKept, CallInv, NotBusy, UnitInv, UnitOK
<1> QED
  BY <1>1, <1>2, InitType DEF IInv

LEMMA Step == IInv /\ [Next]_vars => IInv' /\ Kept
<1>1. IInv /\ [Next]_vars => Kept
  BY LoaderKeeps, ResealKeeps, UnitKeeps, OthersKeep DEF Next
<1> QED
  BY <1>1, StepTyped DEF IInv, Kept

LEMMA Invariant == Spec => []IInv
<1>1. IInv /\ [Next]_vars => IInv'
  BY Step
<1> QED
  BY <1>1, InitInv, PTL DEF Spec

\* A unit whose adoption stamp is still its loader's holds a token of the
\* grant the loader knows: what the stamp lets a hand-over write is never an
\* older grant's.
THEOREM StampCorrect == Spec => []StampTellsGrant
<1>1. IInv => StampTellsGrant
  <2> SUFFICES ASSUME IInv, NEW u \in Unit,
                      at[u] \in {"open", "rereading", "reread", "ending"},
                      session[u].adoption = held[At[u]].adoption
               PROVE  Held(u).token.grant = held[At[u]].known.token.grant
    BY DEF StampTellsGrant
  <2> QED
    BY DEF IInv, UnitInv, UnitOK, Stamped
<1> QED
  BY <1>1, Invariant, PTL

\* No loader goes back to a grant the operator has replaced, whatever it reads,
\* is handed or fails to write.
THEOREM LoaderCorrect == Spec => LoaderNeverGoesBack
<1>1. IInv /\ [Next]_vars =>
          [\A p \in Process : held'[p] = NotHeld
             \/ held'[p].plaintext.grant >= held[p].plaintext.grant]_vars
  BY Step DEF Kept, NotBack
<1> QED
  BY <1>1, Invariant, PTL DEF Spec, LoaderNeverGoesBack

-----------------------------------------------------------------------------
(* The row keeps the promise StoredCredential states. *)

\* A compare-and-set that succeeded is a write-back, a re-seal or no change.
LEMMA WrittenWhereHeld ==
    ASSUME IInv, NEW p \in Process, NEW token \in Token, Holds(p), Replace(p, token),
           held[p].known /= NotStored, token.grant = held[p].known.token.grant
    PROVE  Row!Next \/ UNCHANGED Row!vars
<1>1. TypeOK /\ RowInv /\ p \in Process
  BY DEF IInv, TypeInv
<1>2. row.token = held[p].known.token /\ granted > 0 /\ row.token.grant = granted
  <2>1. row.token = held[p].known.token /\ row.key = held[p].known.key
    BY <1>1 DEF Holds, Stored
  <2>2. granted /= 0
    BY <1>1, <2>1 DEF RowInv, Holds, Stored, NotStored
  <2> QED
    BY <1>1, <2>1, <2>2, Bounds DEF RowInv, TypeOK, Grant
<1>3. row'.token = token /\ row'.client = row.client /\ row'.key = key[p] /\ key[p] \in 1..MaxKey
  BY <1>1 DEF TypeOK, Replace
<1>4. token = [grant |-> token.grant, rotation |-> token.rotation]
      /\ token.rotation \in 0..MaxRotation
      /\ row.token = [grant |-> row.token.grant, rotation |-> row.token.rotation]
  BY <1>1 DEF TypeOK, Token
<1>5. CASE token.rotation /= row.token.rotation
  BY <1>2, <1>3, <1>4, <1>5 DEF Row!Next, Row!WriteBack
<1>6. CASE token.rotation = row.token.rotation
  <2>1. row'.token = row.token
    BY <1>2, <1>3, <1>4, <1>6
  <2> QED
    BY <1>2, <1>3, <2>1 DEF Row!Next, Row!Reseal, Row!vars
<1> QED
  BY <1>5, <1>6

LEMMA StepRefines == IInv /\ [Next]_vars => Row!Next \/ UNCHANGED Row!vars
<1> SUFFICES ASSUME IInv, [Next]_vars PROVE Row!Next \/ UNCHANGED Row!vars
  OBVIOUS
<1>0. TypeOK /\ RowInv /\ HeldInv /\ CallInv
  BY DEF IInv, TypeInv
<1>1. CASE UNCHANGED row
  BY <1>1 DEF Row!vars
<1>2. ASSUME NEW p \in Process, HandOverReplace(p) \/ HandOverFails(p), row' /= row
      PROVE  Row!Next \/ UNCHANGED Row!vars
  <2>1. Holds(p) /\ Replace(p, held[p].plaintext) /\ held[p] /= NotHeld
    BY <1>0, <1>2 DEF HandOverReplace, HandOverFails, CallInv
  <2>2. held[p].plaintext \in Token /\ held[p].plaintext.grant = held[p].known.token.grant
        /\ held[p].known /= NotStored
    BY <1>0, <2>1, HeldGrants DEF HeldInv, MayHold, Holding, NotStored, None
  <2> QED
    BY <2>1, <2>2, WrittenWhereHeld
<1>3. ASSUME ResealReplace \/ ResealFails, row' /= row
      PROVE  Row!Next \/ UNCHANGED Row!vars
  <2>1. /\ Holds(Resealer) /\ Replace(Resealer, row.token) /\ Resealer \in Process
        /\ held[Resealer].known /= NotStored
    BY <1>0, <1>3, ProcessAssumption DEF ResealReplace, ResealFails, CallInv
  <2>2. row.token \in Token /\ row.token = held[Resealer].known.token
    BY <1>0, <2>1 DEF TypeOK, Holds, Stored
  <2> QED
    BY <2>1, <2>2, WrittenWhereHeld
<1>4. CASE Connect
  <2> DEFINE g == granted + 1
             t == [grant |-> g, rotation |-> 0]
  <2>1. /\ g \in Grant /\ g > granted /\ ClientOf[g] \in Client /\ key[Operator] \in 1..MaxKey
        /\ row'.client = ClientOf[g] /\ row'.token = t /\ row'.key = key[Operator]
    BY <1>0, <1>4, Bounds, Values DEF Connect, TypeOK, Grant
  <2> HIDE DEF g
  <2>2. t \in [grant : {n \in Grant : n > row.token.grant}, rotation : 0..MaxRotation]
    BY <1>0, <2>1, Bounds DEF RowInv
  <2> QED
    BY <2>1, <2>2 DEF Row!Next, Row!Connect
<1>5. CASE row' /= row
  BY <1>2, <1>3, <1>4, <1>5 DEF Next, vars, table, LoaderStep, ResealStep, UnitStep, ReplaceKey,
     LoadClients, LoadCredential, LoadFails, RereadClient, RereadFails, HandOverRead, Restart,
     Reseal, ResealRead, Take, Open, Rotate, Reread, Retry, End, HandOverNothing, HandOver, GoOn, Close
<1> QED
  BY <1>1, <1>5

\* Through overlapping units, re-reads, reloads, re-seals and failed statements
\* of every process, no process's write puts back a grant the operator has
\* replaced: the row refines StoredCredential.
THEOREM Refinement == Spec => GrantNeverPutBack
<1>1. Init => Row!Init
  BY DEF Init, Row!Init, None
<1>2. IInv /\ [Next]_vars => [Row!Next]_Row!vars
  BY StepRefines
<1> QED
  BY <1>1, <1>2, Invariant, PTL DEF Spec, Row!Spec, GrantNeverPutBack

=============================================================================
