--------------------------- MODULE PlatformProofs ---------------------------
(***************************************************************************)
(* The administration of tenants and connections, the delivery of events,  *)
(* and the platform under them.                                            *)
(***************************************************************************)
EXTENDS TenantControl, Pairing, Supervisor, WebhookDelivery, WebhookRegistry, KafkaBridge,
        Migrations, StatusHistory, FiniteSetTheorems, PagingLemmas, TLAPS

-----------------------------------------------------------------------------
(***************************************************************************)
(* Proof that a suspended tenant's connections keep the states they had.   *)
(* The inductive invariant adds what the open Suspend transaction relies   *)
(* on: until it commits the tenant is active and nothing is being paired,  *)
(* since BeginPairing waits for its lock.                                  *)
(***************************************************************************)

ServiceStates == {"unpaired", "connected", "reauthorization-required", "suspended"}

Rows == [state : ServiceStates \cup {"absent", "pairing"},
         prior : ServiceStates \cup {NoState},
         from : ServiceStates \cup {NoState}]

TenantTypeOK ==
    /\ tenant \in [status : {NoState, "active", "suspended"}, quota : Nat]
    /\ connection \in [TenantConnections -> Rows]
    /\ admin \in [open : BOOLEAN, fenced : SUBSET TenantConnections]

\* A missing row holds nothing, and a pairing knows the state it came from.
RowsAreSound ==
    \A c \in TenantConnections :
        /\ connection[c].state = "absent" => connection[c].prior = NoState
        /\ connection[c].state = "pairing" => connection[c].from \in ServiceStates

\* Without a tenant there is no connection.
TenantFirst == tenant.status = NoState => \A c \in TenantConnections : connection[c] = Absent

\* What the open Suspend has checked stays true until it ends.
SuspendIsCurrent == admin.open => Suspendable

\* SuspensionKeepsState, and what is suspended has a state to go back to.
SuspendedRows ==
    tenant.status = "suspended" =>
        \A c \in Stored : /\ connection[c].state = "suspended"
                          /\ connection[c].prior = before[c]
                          /\ connection[c].prior # NoState

ActiveRows == tenant.status = "active" => \A c \in Stored : connection[c].prior = NoState

TenantInv ==
    TenantTypeOK /\ RowsAreSound /\ TenantFirst /\ SuspendIsCurrent /\ SuspendedRows /\ ActiveRows

\* No tenant and no connection exist at the start.
LEMMA TenantInitially == TenantInit => TenantInv
  BY DEF TenantInit, TenantInv, TenantTypeOK, Rows, ServiceStates, NoState, Absent, RowsAreSound,
         TenantFirst, SuspendIsCurrent, SuspendedRows, ActiveRows, Stored

\* A step that changes none of the rows the invariant is about.
LEMMA RowsUnchanged ==
    ASSUME TenantInv, UNCHANGED <<tenant, connection, admin, before>>
    PROVE  TenantInv'
  BY DEF TenantInv, TenantTypeOK, RowsAreSound, TenantFirst, SuspendIsCurrent, Suspendable,
         SuspendedRows, ActiveRows, Stored

\* A step that changes the row of one connection while the tenant is active and
\* leaves alone what a suspension stores.
LEMMA ActiveRowMoves ==
    ASSUME TenantInv, NEW c \in TenantConnections, NEW row \in Rows,
           tenant.status = "active", ~admin.open,
           row.prior = connection[c].prior,
           row.state # "absent",
           row.state = "pairing" => row.from \in ServiceStates,
           connection' = [connection EXCEPT ![c] = row],
           UNCHANGED <<tenant, admin, before>>
    PROVE  TenantInv'
  <1>1. connection' \in [TenantConnections -> Rows]
    BY DEF TenantInv, TenantTypeOK
  <1>2. RowsAreSound' /\ TenantFirst'
    BY DEF TenantInv, TenantTypeOK, RowsAreSound, TenantFirst, NoState
  <1>3. ActiveRows'
    BY DEF TenantInv, TenantTypeOK, RowsAreSound, ActiveRows, Stored
  <1> QED
    BY <1>1, <1>2, <1>3 DEF TenantInv, TenantTypeOK, SuspendIsCurrent, SuspendedRows

\* A connection is paired only while its tenant is active and no Suspend is open.
LEMMA PairingRowIsActive ==
    ASSUME TenantInv, NEW c \in TenantConnections, connection[c].state = "pairing"
    PROVE  tenant.status = "active" /\ ~admin.open
  BY DEF TenantInv, TenantTypeOK, TenantFirst, Absent, NoState, SuspendedRows, Stored,
         SuspendIsCurrent, Suspendable

\* Suspend stores every state it overwrites.
LEMMA SuspendKeeps ==
    ASSUME TenantInv, SuspendCommits
    PROVE  TenantInv'
  <1> USE DEF TenantInv, SuspendCommits
  <1>1. tenant.status = "active" /\ \A c \in TenantConnections : connection[c].state # "pairing"
    BY DEF SuspendIsCurrent, Suspendable
  <1>2. \A c \in Stored : SuspendableState(connection[c].state) /\ connection[c].prior = NoState
    BY <1>1 DEF TenantTypeOK, Rows, ServiceStates, Stored, SuspendableState, ActiveRows
  <1>3. \A c \in TenantConnections \ Stored : ~SuspendableState(connection[c].state)
    BY DEF Stored, SuspendableState
  <1>4. \A c \in TenantConnections :
          connection'[c] = IF c \in Stored
                           THEN [connection[c] EXCEPT !.state = "suspended", !.prior = connection[c].state]
                           ELSE connection[c]
    BY <1>2, <1>3
  <1>5. \A c \in Stored : connection[c].state \in ServiceStates
    BY <1>2 DEF SuspendableState, ServiceStates
  <1>6. connection' \in [TenantConnections -> Rows]
    <2>1. ASSUME NEW c \in TenantConnections PROVE connection'[c] \in Rows
      BY <1>4, <1>5, <2>1 DEF TenantTypeOK, Rows, ServiceStates
    <2> QED BY <2>1
  <1>7. TenantTypeOK'
    BY <1>6 DEF TenantTypeOK
  <1>8. /\ tenant'.status = "suspended" /\ ~admin'.open
        /\ before' = [c \in TenantConnections |-> connection[c].state]
    BY DEF TenantTypeOK
  <1>9. \A c \in TenantConnections :
          /\ c \in Stored => /\ connection'[c].state = "suspended"
                            /\ connection'[c].prior = connection[c].state
          /\ c \notin Stored => connection'[c] = connection[c] /\ connection'[c].state = "absent"
    BY <1>4 DEF TenantTypeOK, Rows, Stored
  <1>10. Stored' = Stored
    BY <1>9 DEF Stored
  <1>11. RowsAreSound'
    BY <1>9 DEF RowsAreSound
  <1>12. TenantFirst' /\ SuspendIsCurrent' /\ ActiveRows'
    BY <1>8 DEF TenantFirst, SuspendIsCurrent, ActiveRows, NoState
  <1>13. SuspendedRows'
    <2> HIDE DEF TenantInv, SuspendCommits
    <2>1. ASSUME NEW c \in Stored
          PROVE  /\ connection'[c].state = "suspended"
                 /\ connection'[c].prior = before'[c]
                 /\ connection'[c].prior # NoState
      <3>1. c \in TenantConnections
        BY DEF Stored
      <3>2. connection'[c].state = "suspended" /\ connection'[c].prior = connection[c].state
        BY <1>9, <3>1
      <3>3. before'[c] = connection[c].state
        BY <1>8, <3>1
      <3>4. connection[c].state # NoState
        BY <1>5 DEF ServiceStates, NoState
      <3> QED BY <3>2, <3>3, <3>4
    <2> QED BY <1>10, <2>1 DEF SuspendedRows
  <1> QED BY <1>7, <1>11, <1>12, <1>13

\* Resume restores what Suspend stored, and nothing else.
LEMMA ResumeRestores ==
    ASSUME TenantInv, ResumeTenant
    PROVE  TenantInv'
  <1> USE DEF TenantInv, ResumeTenant
  <1>1. \A c \in TenantConnections :
          connection'[c] = IF c \in Stored
                           THEN [connection[c] EXCEPT !.state = connection[c].prior, !.prior = NoState]
                           ELSE connection[c]
    BY DEF SuspendedRows, Stored
  <1>2. \A c \in Stored : connection[c].prior \in ServiceStates
    BY DEF SuspendedRows, TenantTypeOK, Rows, Stored
  <1>3. connection' \in [TenantConnections -> Rows]
    <2>1. ASSUME NEW c \in TenantConnections PROVE connection'[c] \in Rows
      BY <1>1, <1>2, <2>1 DEF TenantTypeOK, Rows, ServiceStates
    <2> QED BY <2>1
  <1>4. TenantTypeOK'
    BY <1>3 DEF TenantTypeOK
  <1>5. tenant'.status = "active" /\ ~admin'.open
    BY DEF TenantTypeOK
  <1>6. \A c \in TenantConnections :
          /\ c \in Stored => /\ connection'[c].state \in ServiceStates
                            /\ connection'[c].prior = NoState
          /\ c \notin Stored => connection'[c] = connection[c] /\ connection'[c].state = "absent"
    BY <1>1, <1>2 DEF TenantTypeOK, Rows, Stored
  <1>7. RowsAreSound' /\ ActiveRows'
    BY <1>6 DEF RowsAreSound, ActiveRows, ServiceStates, Stored
  <1>8. TenantFirst' /\ SuspendIsCurrent' /\ SuspendedRows'
    BY <1>5 DEF TenantFirst, SuspendIsCurrent, SuspendedRows, NoState
  <1> QED BY <1>4, <1>7, <1>8

\* Every administrative operation keeps the invariant.
LEMMA TenantStep == TenantInv /\ [TenantNext]_tenantVars => TenantInv'
  <1> SUFFICES ASSUME TenantInv, [TenantNext]_tenantVars PROVE TenantInv'
    OBVIOUS
  <1>1. ASSUME NEW quota \in Quotas, Provision(quota) PROVE TenantInv'
    BY <1>1, TenantAssumption
       DEF Provision, TenantInv, TenantTypeOK, RowsAreSound, TenantFirst, SuspendIsCurrent,
           Suspendable, SuspendedRows, ActiveRows, Stored, Absent, NoState
  <1>2. CASE SuspendStatements
    BY <1>2 DEF SuspendStatements, TenantInv, TenantTypeOK, RowsAreSound, TenantFirst,
                SuspendIsCurrent, Suspendable, SuspendedRows, ActiveRows, Stored
  <1>3. CASE SuspendFails
    BY <1>3 DEF SuspendFails, TenantInv, TenantTypeOK, RowsAreSound, TenantFirst,
                SuspendIsCurrent, Suspendable, SuspendedRows, ActiveRows, Stored
  <1>4. ASSUME NEW c \in TenantConnections, SaveConnection(c) PROVE TenantInv'
    <2> DEFINE row == [connection[c] EXCEPT !.state = "unpaired"]
    <2>1. row \in Rows /\ row.state = "unpaired" /\ row.prior = connection[c].prior
      BY DEF TenantInv, TenantTypeOK, Rows, ServiceStates
    <2>2. connection' = [connection EXCEPT ![c] = row]
      BY <1>4 DEF SaveConnection, MovedTo
    <2> QED BY <1>4, <2>1, <2>2, ActiveRowMoves DEF SaveConnection
  <1>5. ASSUME NEW c \in TenantConnections, BeginPairingOf(c) PROVE TenantInv'
    <2> DEFINE row == [connection[c] EXCEPT !.state = "pairing", !.from = connection[c].state]
    <2>1. row \in Rows /\ row.state = "pairing" /\ row.prior = connection[c].prior
          /\ row.from \in ServiceStates
      BY <1>5 DEF BeginPairingOf, TenantInv, TenantTypeOK, Rows, ServiceStates
    <2>2. connection' = [connection EXCEPT ![c] = row]
      BY <1>5 DEF BeginPairingOf
    <2> QED BY <1>5, <2>1, <2>2, ActiveRowMoves DEF BeginPairingOf
  <1>6. ASSUME NEW c \in TenantConnections, RestorePairingOf(c) PROVE TenantInv'
    <2> DEFINE row == [connection[c] EXCEPT !.state = connection[c].from, !.from = NoState]
    <2>1. row \in Rows /\ row.state \in ServiceStates /\ row.prior = connection[c].prior
      BY <1>6 DEF RestorePairingOf, TenantInv, TenantTypeOK, RowsAreSound, Rows, NoState
    <2>2. connection' = [connection EXCEPT ![c] = row]
      BY <1>6 DEF RestorePairingOf
    <2> QED BY <1>6, <2>1, <2>2, ActiveRowMoves, PairingRowIsActive
            DEF RestorePairingOf, ServiceStates
  <1>7. ASSUME NEW c \in TenantConnections, CommitPairedSessionOf(c) PROVE TenantInv'
    <2> DEFINE row == [connection[c] EXCEPT !.state = "connected", !.from = NoState]
    <2>1. row \in Rows /\ row.state = "connected" /\ row.prior = connection[c].prior
      BY DEF TenantInv, TenantTypeOK, Rows, ServiceStates, NoState
    <2>2. connection' = [connection EXCEPT ![c] = row]
      BY <1>7 DEF CommitPairedSessionOf
    <2> QED BY <1>7, <2>1, <2>2, ActiveRowMoves, PairingRowIsActive DEF CommitPairedSessionOf
  <1>8. ASSUME NEW c \in TenantConnections, MarkReauthorizationOf(c) PROVE TenantInv'
    <2> DEFINE row == [connection[c] EXCEPT !.state = "reauthorization-required"]
    <2>1. row \in Rows /\ row.state = "reauthorization-required" /\ row.prior = connection[c].prior
      BY DEF TenantInv, TenantTypeOK, Rows, ServiceStates
    <2>2. CASE OwnsConnection(c) /\ Markable(c)
      <3>1. connection' = [connection EXCEPT ![c] = row]
        BY <1>8, <2>2 DEF MarkReauthorizationOf, MovedTo
      <3>2. tenant.status = "active"
        BY <2>2 DEF Markable, TenantInv, TenantTypeOK, TenantFirst, SuspendedRows, Absent,
                    NoState, Stored
      <3> QED BY <1>8, <2>1, <3>1, <3>2, ActiveRowMoves DEF MarkReauthorizationOf
    <2>3. CASE ~(OwnsConnection(c) /\ Markable(c))
      BY <1>8, <2>3, RowsUnchanged DEF MarkReauthorizationOf
    <2> QED BY <2>2, <2>3
  <1>9. ASSUME NEW c \in TenantConnections, QuarantineConnection(c) PROVE TenantInv'
    <2> DEFINE row == [connection[c] EXCEPT !.state = "suspended"]
    <2>1. row \in Rows /\ row.state = "suspended" /\ row.prior = connection[c].prior
      BY DEF TenantInv, TenantTypeOK, Rows, ServiceStates
    <2>2. CASE connection[c].state \in {"connected", "suspended"} /\ tenant.status = "active"
      <3>1. connection' = [connection EXCEPT ![c] = row]
        BY <1>9, <2>2 DEF QuarantineConnection, MovedTo
      <3> QED BY <1>9, <2>1, <2>2, <3>1, ActiveRowMoves DEF QuarantineConnection
    <2>3. CASE connection[c].state \in {"connected", "suspended"} /\ tenant.status # "active"
      <3>1. connection[c].state = "suspended"
        BY <2>3 DEF TenantInv, TenantTypeOK, TenantFirst, SuspendedRows, Absent, Stored
      <3>2. connection' = connection
        BY <1>9, <2>3, <3>1 DEF QuarantineConnection, MovedTo, TenantInv, TenantTypeOK, Rows
      <3> QED BY <1>9, <3>2, RowsUnchanged DEF QuarantineConnection
    <2>4. CASE connection[c].state \notin {"connected", "suspended"}
      BY <1>9, <2>4, RowsUnchanged DEF QuarantineConnection
    <2> QED BY <2>2, <2>3, <2>4
  <1>10. ASSUME NEW c \in TenantConnections,
                \/ StartActor(c) \/ AcquireLeaseOf(c) \/ ActorStops(c) \/ ReadConnectionOf(c)
                \/ LinkActor(c) \/ LapseOf(c) \/ BackfillPoisoned(c)
         PROVE  TenantInv'
    BY <1>10, RowsUnchanged DEF StartActor, AcquireLeaseOf, ActorStops, ReadConnectionOf,
                                LinkActor, LapseOf, BackfillPoisoned
  <1>11. CASE UNCHANGED tenantVars
    BY <1>11, RowsUnchanged DEF tenantVars
  <1> QED
    BY <1>1, <1>2, <1>3, <1>4, <1>5, <1>6, <1>7, <1>8, <1>9, <1>10, <1>11, SuspendKeeps,
       ResumeRestores DEF TenantNext

\* Suspension loses no connection's state and resume restores it, for any number
\* of connections, any quota and any fencing tokens, whatever pairings, actors
\* and quarantines interleave with the operator's transactions (Suspend, Resume).
THEOREM SuspensionRestores == TenantSpec => []SuspensionKeepsState
  <1>1. TenantSpec => []TenantInv
    BY TenantInitially, TenantStep, PTL DEF TenantSpec
  <1>2. TenantInv => SuspensionKeepsState
    BY DEF TenantInv, SuspendedRows, ActiveRows, SuspensionKeepsState
  <1> QED BY <1>1, <1>2, PTL

-----------------------------------------------------------------------------
(***************************************************************************)
(* Proof that a late commit or cleanup of a pairing attempt never reaches  *)
(* the row of a newer one.  Two invariants carry it: the row in pairing    *)
(* names the attempt begun last, and the memory of an attempt determines   *)
(* what has become of its provider handle.                                 *)
(***************************************************************************)

Stands == {"unborn", "begin", "discover", "idle", "approve", "finish", "commit", "restore", "gone"}

Awaiting == {"awaiting_device_selection", "awaiting_phone_approval"}

Memories == [gateway : Gateways \cup {NoAttempt},
             state : Awaiting \cup {"", "ended"}, handle : {"none", "open"},
             pending : BOOLEAN, cleanup : BOOLEAN, expired : BOOLEAN,
             start : {"none", "approve", "choose"}]

ConnRows == [state : Restorable \cup {"pairing", "connected"}, prior : Restorable,
             by : Attempts \cup {NoAttempt}, fresh : BOOLEAN,
             session : Attempts \cup {NoAttempt}]

PairingTypeOK ==
    /\ conn \in ConnRows
    /\ at \in [Attempts -> Stands]
    /\ attempt \in [Attempts -> Memories]
    /\ orphans \subseteq Attempts

\* The row in pairing names the attempt begun last, which somebody may still end.
RowIsCurrent ==
    /\ conn.state = "connected" => conn.session = lastBegun
    /\ conn.state = "pairing" =>
         /\ conn.by \in Attempts /\ conn.by = lastBegun
         /\ at[conn.by] \notin {"unborn", "begin"}
         /\ at[conn.by] = "gone" => conn.by \in orphans

\* What an attempt has left of its provider handle and its sealed session.
MemoryFits(stand, m) ==
    /\ stand \in {"unborn", "begin", "discover"} =>
         m.handle = "none" /\ ~m.pending /\ ~m.cleanup /\ m.state \notin Awaiting
    /\ stand \notin {"idle", "restore", "gone"} => m.start = "none"
    /\ stand = "approve" => (m.handle = "open" \/ m.cleanup) /\ ~m.pending
    /\ stand = "finish" => m.handle = "open" /\ ~m.pending /\ ~m.cleanup
    /\ stand \in {"finish", "commit"} => m.state = "awaiting_phone_approval"
    /\ stand = "commit" => m.handle # "open" /\ m.pending /\ ~m.cleanup
    /\ stand \in {"restore", "gone"} => m.handle # "open"
    /\ stand = "idle" =>
         /\ m.state = "awaiting_phone_approval" =>
              (m.pending <=> m.handle # "open")
         /\ m.state # "awaiting_phone_approval" => (m.handle = "open" \/ m.cleanup) /\ ~m.pending
    /\ stand = "restore" => m.cleanup
    /\ m.cleanup => m.state # "awaiting_phone_approval" /\ m.handle # "open" /\ ~m.pending
    /\ m.start # "none" => m.state \notin Awaiting

HandlesFit == \A a \in Attempts : MemoryFits(at[a], attempt[a])

PairingInv == PairingTypeOK /\ RowIsCurrent /\ HandlesFit

\* The connection is unpaired at the start and no attempt exists.
LEMMA PairingInitially == PairingInit => PairingInv
  <1> SUFFICES ASSUME PairingInit PROVE PairingInv
    OBVIOUS
  <1>1. conn \in ConnRows /\ RowIsCurrent
    BY DEF PairingInit, ConnRows, Restorable, RowIsCurrent
  <1>2. at \in [Attempts -> Stands] /\ attempt \in [Attempts -> Memories] /\ orphans = {}
    BY DEF PairingInit, Stands, Memories, Awaiting
  <1>3. HandlesFit
    BY DEF PairingInit, HandlesFit, MemoryFits, Awaiting
  <1> QED BY <1>1, <1>2, <1>3 DEF PairingInv, PairingTypeOK

-----------------------------------------------------------------------------
(* The steps of one attempt change its own stand and memory; what is left to
   show is that they fit, and that the row still names the right attempt. *)

\* An attempt moves to a stand its memory fits; the others stay where they are.
LEMMA StandMoves ==
    ASSUME PairingInv, NEW a \in Attempts, NEW stand \in Stands, NEW m \in Memories,
           at' = [at EXCEPT ![a] = stand], attempt' = [attempt EXCEPT ![a] = m],
           MemoryFits(stand, m)
    PROVE  /\ at' \in [Attempts -> Stands] /\ attempt' \in [Attempts -> Memories]
           /\ HandlesFit'
  <1>1. at' \in [Attempts -> Stands] /\ attempt' \in [Attempts -> Memories]
    BY DEF PairingInv, PairingTypeOK
  <1>2. ASSUME NEW b \in Attempts PROVE MemoryFits(at'[b], attempt'[b])
    <2>1. CASE b = a
      BY <2>1 DEF PairingInv, PairingTypeOK
    <2>2. CASE b # a
      BY <2>2 DEF PairingInv, PairingTypeOK, HandlesFit
    <2> QED BY <2>1, <2>2
  <1> QED BY <1>1, <1>2 DEF HandlesFit

\* The row is left alone by an attempt that either goes on or does not own it.
LEMMA RowKept ==
    ASSUME PairingInv, NEW a \in Attempts, NEW stand \in Stands,
           at' = [at EXCEPT ![a] = stand], UNCHANGED <<conn, lastBegun, orphans>>,
           at[a] \in {"unborn", "begin"} \/ ~OwnsRow(a) \/ stand \notin {"unborn", "begin", "gone"}
    PROVE  RowIsCurrent'
  BY DEF PairingInv, PairingTypeOK, RowIsCurrent, OwnsRow

\* What the invariant says of one attempt.
LEMMA MemoryIsTyped ==
    ASSUME PairingInv, NEW a \in Attempts
    PROVE  /\ at[a] \in Stands /\ attempt[a] \in Memories /\ MemoryFits(at[a], attempt[a])
           /\ attempt = [attempt EXCEPT ![a] = attempt[a]]
  BY DEF PairingInv, PairingTypeOK, HandlesFit

\* finishReserved disposes of an open handle and leaves no sealed session.
LEMMA FinishKeeps ==
    ASSUME PairingInv, NEW a \in Attempts,
           at[a] \in {"idle", "approve", "finish"}, FinishReserved(a)
    PROVE  PairingInv'
  <1> DEFINE m == [attempt[a] EXCEPT !.handle = "none", !.pending = FALSE, !.state = "ended",
                                     !.cleanup = TRUE]
  <1>1. attempt' = [attempt EXCEPT ![a] = m]
    BY MemoryIsTyped DEF FinishReserved, Finished, PairingInv, PairingTypeOK
  <1>2. m \in Memories /\ MemoryFits("restore", m)
    <2>1. m \in Memories
      BY MemoryIsTyped DEF Memories
    <2>2. /\ m.handle = "none" /\ m.pending = FALSE
          /\ m.cleanup = TRUE /\ m.state = "ended" /\ m.start = attempt[a].start
      BY MemoryIsTyped DEF Memories
    <2> HIDE DEF m
    <2>3. MemoryFits("restore", m)
      BY <2>2, MemoryIsTyped DEF MemoryFits, Memories, Awaiting
    <2> QED BY <2>1, <2>3
  <1>3. "restore" \in Stands
    BY DEF Stands
  <1>4. HandlesFit' /\ at' \in [Attempts -> Stands] /\ attempt' \in [Attempts -> Memories]
    <2> HIDE DEF m
    <2> QED BY <1>1, <1>2, <1>3, StandMoves DEF FinishReserved
  <1>5. RowIsCurrent'
    BY <1>3, RowKept DEF FinishReserved
  <1> QED BY <1>4, <1>5 DEF PairingInv, PairingTypeOK, FinishReserved

\* An attempt moves on without touching its memory or the row.
LEMMA StandOnly ==
    ASSUME PairingInv, NEW a \in Attempts, NEW stand \in Stands,
           at' = [at EXCEPT ![a] = stand], MemoryFits(stand, attempt[a]),
           UNCHANGED <<conn, attempt, lastBegun, orphans>>,
           at[a] \in {"unborn", "begin"} \/ ~OwnsRow(a) \/ stand \notin {"unborn", "begin", "gone"}
    PROVE  PairingInv'
  <1>1. attempt' = [attempt EXCEPT ![a] = attempt[a]] /\ attempt[a] \in Memories
    BY MemoryIsTyped
  <1>2. at' \in [Attempts -> Stands] /\ attempt' \in [Attempts -> Memories] /\ HandlesFit'
    BY <1>1, StandMoves
  <1>3. RowIsCurrent'
    BY RowKept
  <1> QED BY <1>2, <1>3 DEF PairingInv, PairingTypeOK

\* An attempt moves on with a new memory and leaves the row alone.
LEMMA MemoryMoves ==
    ASSUME PairingInv, NEW a \in Attempts, NEW stand \in Stands, NEW m \in Memories,
           at' = [at EXCEPT ![a] = stand], attempt' = [attempt EXCEPT ![a] = m],
           MemoryFits(stand, m), UNCHANGED <<conn, lastBegun, orphans>>,
           at[a] \in {"unborn", "begin"} \/ ~OwnsRow(a) \/ stand \notin {"unborn", "begin", "gone"}
    PROVE  PairingInv'
  <1>1. at' \in [Attempts -> Stands] /\ attempt' \in [Attempts -> Memories] /\ HandlesFit'
    BY StandMoves
  <1>2. RowIsCurrent'
    BY RowKept
  <1> QED BY <1>1, <1>2 DEF PairingInv, PairingTypeOK

\* The owner of the row gives it back: it is restored or connected.
LEMMA RowLeaves ==
    ASSUME PairingInv, NEW a \in Attempts, NEW stand \in Stands, OwnsRow(a),
           conn' = Restored \/ conn' = Committed(a),
           at' = [at EXCEPT ![a] = stand], MemoryFits(stand, attempt[a]),
           UNCHANGED <<attempt, lastBegun, orphans>>
    PROVE  PairingInv'
  <1>1. attempt' = [attempt EXCEPT ![a] = attempt[a]] /\ attempt[a] \in Memories
    BY MemoryIsTyped
  <1>2. at' \in [Attempts -> Stands] /\ attempt' \in [Attempts -> Memories] /\ HandlesFit'
    BY <1>1, StandMoves
  <1>3. conn' \in ConnRows /\ RowIsCurrent'
    BY DEF PairingInv, PairingTypeOK, ConnRows, Restorable, RowIsCurrent, Restored, Committed,
           OwnsRow
  <1> QED BY <1>2, <1>3 DEF PairingInv, PairingTypeOK

\* BeginPairing takes the row for the attempt under a new token.
LEMMA BeginKeeps ==
    ASSUME PairingInv, NEW a \in Attempts, BeginPairing(a)
    PROVE  PairingInv'
  <1>1. /\ at[a] = "begin" /\ "discover" \in Stands /\ "gone" \in Stands
        /\ MemoryFits("discover", attempt[a]) /\ MemoryFits("gone", attempt[a])
    BY MemoryIsTyped DEF BeginPairing, MemoryFits, Stands
  <1>2. CASE UNCHANGED <<conn, lastBegun, orphans>> /\ at' = [at EXCEPT ![a] = "gone"]
    BY <1>1, <1>2, StandOnly DEF BeginPairing
  <1>3. ASSUME NEW stand \in {"discover", "gone"}, at' = [at EXCEPT ![a] = stand],
               conn' = Begun(a), Startable, lastBegun' = a,
               orphans' \subseteq Attempts, stand = "gone" => a \in orphans'
        PROVE  PairingInv'
    <2>1. attempt' = [attempt EXCEPT ![a] = attempt[a]] /\ attempt[a] \in Memories
      BY MemoryIsTyped DEF BeginPairing
    <2>2. at' \in [Attempts -> Stands] /\ attempt' \in [Attempts -> Memories] /\ HandlesFit'
      BY <1>1, <1>3, <2>1, StandMoves
    <2>3. conn' \in ConnRows /\ RowIsCurrent'
      BY <1>3 DEF PairingInv, PairingTypeOK, ConnRows, Restorable, RowIsCurrent, Begun, Startable
    <2> QED BY <1>3, <2>2, <2>3 DEF PairingInv, PairingTypeOK
  <1>4. CASE Startable /\ at' = [at EXCEPT ![a] = "discover"] /\ conn' = Begun(a)
             /\ lastBegun' = a /\ UNCHANGED orphans
    BY <1>3, <1>4 DEF PairingInv, PairingTypeOK
  <1>5. CASE Startable /\ at' = [at EXCEPT ![a] = "gone"] /\ conn' = Begun(a)
             /\ lastBegun' = a /\ orphans' = orphans \cup {a}
    BY <1>3, <1>5 DEF PairingInv, PairingTypeOK
  <1> QED BY <1>2, <1>4, <1>5 DEF BeginPairing

\* The discovery returns with devices, an error or after the attempt was lost.
LEMMA DiscoverKeeps ==
    ASSUME PairingInv, NEW a \in Attempts, DiscoverReturns(a)
    PROVE  PairingInv'
  <1>1. at[a] = "discover" /\ {"idle", "restore"} \subseteq Stands
    BY DEF DiscoverReturns, Stands
  <1>2. ASSUME NEW stand \in {"idle", "restore"}, NEW m \in Memories,
               at' = [at EXCEPT ![a] = stand], attempt' = [attempt EXCEPT ![a] = m],
               MemoryFits(stand, m)
        PROVE  PairingInv'
    BY <1>1, <1>2, MemoryMoves DEF DiscoverReturns
  <1>3. ASSUME NEW next \in {"approve", "choose"}, at' = [at EXCEPT ![a] = "idle"],
               attempt' = [attempt EXCEPT ![a].handle = "open", ![a].start = next]
        PROVE  PairingInv'
    <2> DEFINE m == [attempt[a] EXCEPT !.handle = "open", !.start = next]
    <2>1. m \in Memories /\ MemoryFits("idle", m)
      <3>1. m \in Memories
        BY MemoryIsTyped DEF Memories, Awaiting
      <3>2. /\ m.handle = "open" /\ m.pending = attempt[a].pending
            /\ m.cleanup = attempt[a].cleanup /\ m.state = attempt[a].state /\ m.start = next
        BY MemoryIsTyped DEF Memories
      <3> HIDE DEF m
      <3>3. MemoryFits("idle", m)
        BY <3>2, <1>1, MemoryIsTyped DEF MemoryFits, Memories, Awaiting
      <3> QED BY <3>1, <3>3
    <2>2. attempt' = [attempt EXCEPT ![a] = m]
      BY <1>3
    <2> QED BY <1>2, <1>3, <2>1, <2>2
  <1>4. CASE at' = [at EXCEPT ![a] = "restore"] /\ attempt' = Finished(a)
    <2> DEFINE m == [attempt[a] EXCEPT !.handle = "none", !.pending = FALSE, !.state = "ended",
                                       !.cleanup = TRUE]
    <2>1. m \in Memories /\ MemoryFits("restore", m)
      <3>1. m \in Memories
        BY MemoryIsTyped DEF Memories, Awaiting
      <3>2. /\ m.handle = "none" /\ m.pending = FALSE
            /\ m.cleanup = TRUE /\ m.state = "ended" /\ m.start = attempt[a].start
        BY MemoryIsTyped DEF Memories
      <3> HIDE DEF m
      <3>3. MemoryFits("restore", m)
        BY <3>2, MemoryIsTyped DEF MemoryFits, Memories, Awaiting
      <3> QED BY <3>1, <3>3
    <2>2. attempt' = [attempt EXCEPT ![a] = m]
      BY <1>4, MemoryIsTyped DEF Finished, PairingInv, PairingTypeOK, Memories
    <2> QED BY <1>2, <1>4, <2>1, <2>2
  <1> QED BY <1>3, <1>4 DEF DiscoverReturns

\* What Start does after the discovery fits an attempt that was swept meanwhile.
LEMMA StartGoesOn ==
    ASSUME PairingInv, NEW a \in Attempts, StartApproval(a) \/ AwaitSelection(a)
    PROVE  PairingInv'
  <1>1. at[a] \in Stands /\ at' = [at EXCEPT ![a] = at'[a]]
    BY MemoryIsTyped DEF StartApproval, AwaitSelection, PairingInv, PairingTypeOK
  <1>2. ASSUME NEW stand \in Stands, NEW m \in Memories, at' = [at EXCEPT ![a] = stand],
               attempt' = [attempt EXCEPT ![a] = m], MemoryFits(stand, m),
               stand = at[a] \/ stand = "approve"
        PROVE  PairingInv'
    <2>1. stand \notin {"unborn", "begin"}
      BY <1>2, MemoryIsTyped DEF MemoryFits, StartApproval, AwaitSelection
    <2>2. CASE stand # "gone"
      BY <1>2, <2>1, <2>2, MemoryMoves DEF StartApproval, AwaitSelection
    <2>3. CASE stand = "gone"
      <3>1. at' \in [Attempts -> Stands] /\ attempt' \in [Attempts -> Memories] /\ HandlesFit'
        BY <1>2, StandMoves
      <3>2. at' = at
        BY <1>2, <2>3 DEF PairingInv, PairingTypeOK
      <3>3. RowIsCurrent'
        BY <3>2 DEF PairingInv, RowIsCurrent, StartApproval, AwaitSelection
      <3> QED BY <3>1, <3>3 DEF PairingInv, PairingTypeOK, StartApproval, AwaitSelection
    <2> QED BY <2>2, <2>3
  <1>3. CASE StartApproval(a)
    <2> DEFINE m == [attempt[a] EXCEPT !.start = "none"]
               stand == IF at[a] = "idle" THEN "approve" ELSE at[a]
    <2>1. stand \in Stands /\ at' = [at EXCEPT ![a] = stand]
      BY <1>1, <1>3 DEF StartApproval, Stands, PairingInv, PairingTypeOK
    <2>2. m \in Memories /\ MemoryFits(stand, m)
      <3>1. m \in Memories
        BY MemoryIsTyped DEF Memories, Awaiting
      <3>2. MemoryFits(stand, m)
        BY <1>3, MemoryIsTyped DEF StartApproval, Memories, MemoryFits, Awaiting
      <3> QED BY <3>1, <3>2
    <2>3. attempt' = [attempt EXCEPT ![a] = m]
      BY <1>3 DEF StartApproval
    <2>4. stand = at[a] \/ stand = "approve"
      OBVIOUS
    <2> HIDE DEF m, stand
    <2> QED BY <1>2, <2>1, <2>2, <2>3, <2>4
  <1>4. CASE AwaitSelection(a)
    <2> DEFINE m == [attempt[a] EXCEPT !.start = "none", !.state = "awaiting_device_selection"]
    <2>1. at' = [at EXCEPT ![a] = at[a]]
      BY <1>4 DEF AwaitSelection, PairingInv, PairingTypeOK
    <2>2. m \in Memories /\ MemoryFits(at[a], m)
      <3>1. m \in Memories
        BY MemoryIsTyped DEF Memories, Awaiting
      <3>2. /\ m.handle = attempt[a].handle /\ m.pending = attempt[a].pending
            /\ m.cleanup = attempt[a].cleanup /\ m.state = "awaiting_device_selection" /\ m.start = "none"
        BY MemoryIsTyped DEF Memories
      <3> HIDE DEF m
      <3>3. MemoryFits(at[a], m)
        BY <3>2, <1>4, MemoryIsTyped DEF AwaitSelection, MemoryFits, Memories, Awaiting
      <3> QED BY <3>1, <3>3
    <2>3. attempt' = [attempt EXCEPT ![a] = m]
      BY <1>4 DEF AwaitSelection
    <2> HIDE DEF m
    <2> QED BY <1>1, <1>2, <2>1, <2>2, <2>3
  <1> QED BY <1>3, <1>4

\* The provider calls that return later change the row only under its token.
LEMMA ReturnsKeep ==
    ASSUME PairingInv, NEW a \in Attempts, Returns(a)
    PROVE  PairingInv'
  <1>1. {"idle", "commit", "gone"} \subseteq Stands
    BY DEF Stands
  <1>2. CASE ApprovalReturns(a)
    <2>1. CASE FinishReserved(a)
      BY <1>2, <2>1, FinishKeeps DEF ApprovalReturns
    <2>2. CASE ~FinishReserved(a)
      <3> DEFINE m == [attempt[a] EXCEPT !.state = "awaiting_phone_approval"]
      <3>1. m \in Memories /\ MemoryFits("idle", m)
        <4>1. m \in Memories
          BY MemoryIsTyped DEF Memories, Awaiting
        <4>2. /\ m.handle = attempt[a].handle /\ m.pending = attempt[a].pending
              /\ m.cleanup = attempt[a].cleanup /\ m.state = "awaiting_phone_approval" /\ m.start = attempt[a].start
          BY MemoryIsTyped DEF Memories
        <4> HIDE DEF m
        <4>3. MemoryFits("idle", m)
          BY <4>2, <1>2, <2>2, MemoryIsTyped DEF ApprovalReturns, MemoryFits, Memories, Awaiting
        <4> QED BY <4>1, <4>3
      <3>2. attempt' = [attempt EXCEPT ![a] = m]
        BY <1>2, <2>2 DEF ApprovalReturns
      <3> HIDE DEF m
      <3> QED BY <1>1, <1>2, <2>2, <3>1, <3>2, MemoryMoves DEF ApprovalReturns
    <2> QED BY <2>1, <2>2
  <1>3. CASE FinishReturns(a)
    <2>1. CASE FinishReserved(a)
      BY <1>3, <2>1, FinishKeeps DEF FinishReturns
    <2>2. CASE ~FinishReserved(a)
      <3> DEFINE m == [attempt[a] EXCEPT !.pending = TRUE, !.handle = "none"]
      <3>1. m \in Memories /\ MemoryFits("commit", m)
        <4>1. m \in Memories
          BY MemoryIsTyped DEF Memories, Awaiting
        <4>2. MemoryFits("commit", m)
          BY <1>3, MemoryIsTyped DEF FinishReturns, Memories, MemoryFits, Awaiting
        <4> QED BY <4>1, <4>2
      <3>2. attempt' = [attempt EXCEPT ![a] = m]
        BY <1>3, <2>2 DEF FinishReturns
      <3> HIDE DEF m
      <3> QED BY <1>1, <1>3, <2>2, <3>1, <3>2, MemoryMoves DEF FinishReturns
    <2> QED BY <2>1, <2>2
  <1>4. CASE CommitPairedSession(a)
    <2>1. MemoryFits("gone", attempt[a]) /\ MemoryFits("idle", attempt[a])
      BY <1>4, MemoryIsTyped DEF CommitPairedSession, MemoryFits, Awaiting
    <2>2. CASE OwnsRow(a) /\ conn' = Committed(a)
      BY <1>1, <1>4, <2>1, <2>2, RowLeaves DEF CommitPairedSession
    <2>3. CASE ~(OwnsRow(a) /\ conn' = Committed(a))
      BY <1>1, <1>4, <2>1, <2>3, StandOnly DEF CommitPairedSession
    <2> QED BY <2>2, <2>3
  <1>5. CASE RestorePairing(a)
    <2>1. MemoryFits("gone", attempt[a]) /\ MemoryFits("idle", attempt[a])
      BY <1>5, MemoryIsTyped DEF RestorePairing, MemoryFits, Awaiting
    <2>2. CASE OwnsRow(a) /\ conn' = Restored
      BY <1>1, <1>5, <2>1, <2>2, RowLeaves DEF RestorePairing, AfterFailedRestore
    <2>3. CASE ~(OwnsRow(a) /\ conn' = Restored)
      BY <1>1, <1>5, <2>1, <2>3, StandOnly DEF RestorePairing, AfterFailedRestore
    <2> QED BY <2>2, <2>3
  <1> QED BY <1>2, <1>3, <1>4, <1>5, BeginKeeps, DiscoverKeeps, StartGoesOn DEF Returns

\* The operations a client calls, and the expiry of an attempt, keep it.
LEMMA OperationsKeep ==
    ASSUME PairingInv, NEW a \in Attempts,
           \/ \E g \in Gateways : Start(a, g)
           \/ SelectDevice(a) \/ Complete(a) \/ Cancel(a) \/ SweepExpired(a) \/ AttemptExpires(a)
    PROVE  PairingInv'
  <1>1. {"begin", "approve", "commit", "finish"} \subseteq Stands
    BY DEF Stands
  <1>2. ASSUME NEW g \in Gateways, Start(a, g) PROVE PairingInv'
    <2> DEFINE m == [attempt[a] EXCEPT !.gateway = g]
    <2>1. m \in Memories /\ MemoryFits("begin", m)
      <3>1. m \in Memories
        BY MemoryIsTyped DEF Memories, Awaiting
      <3>2. MemoryFits("begin", m)
        BY <1>2, MemoryIsTyped DEF Start, Memories, MemoryFits, Awaiting
      <3> QED BY <3>1, <3>2
    <2>2. attempt' = [attempt EXCEPT ![a] = m]
      BY <1>2 DEF Start
    <2> HIDE DEF m
    <2> QED BY <1>1, <1>2, <2>1, <2>2, MemoryMoves DEF Start
  <1>3. CASE SelectDevice(a)
    <2>1. MemoryFits("approve", attempt[a])
      BY <1>3, MemoryIsTyped DEF SelectDevice, IdleOperation, MemoryFits, Awaiting
    <2> QED BY <1>1, <1>3, <2>1, StandOnly DEF SelectDevice
  <1>4. CASE Complete(a)
    <2>1. MemoryFits(IF attempt[a].pending THEN "commit" ELSE "finish", attempt[a])
      BY <1>4, MemoryIsTyped DEF Complete, IdleOperation, MemoryFits, Awaiting
    <2>2. CASE attempt[a].pending
      BY <1>1, <1>4, <2>1, <2>2, StandOnly DEF Complete
    <2>3. CASE ~attempt[a].pending
      BY <1>1, <1>4, <2>1, <2>3, StandOnly DEF Complete
    <2> QED BY <2>2, <2>3
  <1>5. CASE Cancel(a)
    BY <1>5, FinishKeeps DEF Cancel, IdleOperation
  <1>6. CASE SweepExpired(a)
    BY <1>6, FinishKeeps DEF SweepExpired, IdleOperation
  <1>7. CASE AttemptExpires(a)
    <2> DEFINE m == [attempt[a] EXCEPT !.expired = TRUE]
    <2>1. m \in Memories /\ MemoryFits(at[a], m)
      <3>1. m \in Memories
        BY MemoryIsTyped DEF Memories, Awaiting
      <3>2. /\ m.handle = attempt[a].handle /\ m.pending = attempt[a].pending
            /\ m.cleanup = attempt[a].cleanup /\ m.state = attempt[a].state /\ m.start = attempt[a].start
        BY MemoryIsTyped DEF Memories
      <3> HIDE DEF m
      <3>3. MemoryFits(at[a], m)
        BY <3>2, MemoryIsTyped DEF MemoryFits
      <3> QED BY <3>1, <3>3
    <2>2. attempt' = [attempt EXCEPT ![a] = m] /\ at' = [at EXCEPT ![a] = at[a]]
      BY <1>7 DEF AttemptExpires, PairingInv, PairingTypeOK
    <2>3. at[a] \in Stands \ {"unborn", "begin", "gone"}
      BY <1>7, MemoryIsTyped DEF AttemptExpires
    <2> HIDE DEF m
    <2> QED BY <1>7, <2>1, <2>2, <2>3, MemoryMoves DEF AttemptExpires
  <1> QED BY <1>2, <1>3, <1>4, <1>5, <1>6, <1>7

\* A crash ends every attempt of a process and makes it an orphan.
LEMMA CrashKeeps ==
    ASSUME PairingInv, NEW g \in Gateways, CrashGateway(g)
    PROVE  PairingInv'
  <1>1. ASSUME NEW a \in Attempts
        PROVE  at'[a] \in Stands /\ attempt'[a] \in Memories /\ MemoryFits(at'[a], attempt'[a])
    <2>1. CASE a \in Current(g)
      <3> DEFINE m == [attempt[a] EXCEPT !.handle = "none", !.start = "none"]
      <3>1. m \in Memories /\ MemoryFits("gone", m)
        <4>1. m \in Memories
          BY MemoryIsTyped DEF Memories, Awaiting
        <4>2. /\ m.handle = "none" /\ m.pending = attempt[a].pending
              /\ m.cleanup = attempt[a].cleanup /\ m.state = attempt[a].state /\ m.start = "none"
          BY MemoryIsTyped DEF Memories
        <4> HIDE DEF m
        <4>3. MemoryFits("gone", m)
          BY <4>2, MemoryIsTyped DEF MemoryFits, Memories
        <4> QED BY <4>1, <4>3
      <3> QED BY <2>1, <3>1 DEF CrashGateway, Stands
    <2>2. CASE a \notin Current(g)
      BY <2>2, MemoryIsTyped DEF CrashGateway
    <2> QED BY <2>1, <2>2
  <1>2. at' \in [Attempts -> Stands] /\ attempt' \in [Attempts -> Memories]
    BY <1>1 DEF CrashGateway
  <1>3. RowIsCurrent' /\ orphans' \subseteq Attempts
    BY DEF CrashGateway, Current, PairingInv, PairingTypeOK, RowIsCurrent
  <1> QED BY <1>1, <1>2, <1>3 DEF CrashGateway, PairingInv, PairingTypeOK, HandlesFit

\* Every step of the attempts, the sweeper and the store keeps the invariant.
LEMMA PairingStep == PairingInv /\ [PairingNext]_pairingVars => PairingInv'
  <1> SUFFICES ASSUME PairingInv, [PairingNext]_pairingVars PROVE PairingInv'
    OBVIOUS
  <1>1. CASE PairingAges \/ ReconcileStalePairings \/ MarkReauthorizationRequired
    <2>1. conn' \in ConnRows /\ RowIsCurrent'
      BY <1>1 DEF PairingAges, ReconcileStalePairings, MarkReauthorizationRequired, Restored,
                  PairingInv, PairingTypeOK, ConnRows, Restorable, RowIsCurrent
    <2> QED BY <1>1, <2>1 DEF PairingAges, ReconcileStalePairings, MarkReauthorizationRequired,
                              PairingInv, PairingTypeOK, HandlesFit
  <1>2. CASE UNCHANGED pairingVars
    BY <1>2 DEF pairingVars, PairingInv, PairingTypeOK, RowIsCurrent, HandlesFit
  <1> QED BY <1>1, <1>2, ReturnsKeep, OperationsKeep, CrashKeeps DEF PairingNext

\* A connected row holds the session of the attempt begun last, a row in pairing
\* belongs to an attempt somebody still has or whose process is known to have
\* lost it, and a provider call finds its handle open unless it is the approval
\* of an attempt whose cleanup has failed, which the provider refuses: for any
\* number of attempts, processes, crashes and lost replies (Start, Complete,
\* Cancel, SweepExpired and the row updates of the connection store).
THEOREM LateAttemptsChangeNothing == PairingSpec => []SessionIsFromLastOwner
  <1>1. PairingSpec => []PairingInv
    BY PairingInitially, PairingStep, PTL DEF PairingSpec
  <1>2. PairingInv => SessionIsFromLastOwner
    BY DEF PairingInv, PairingTypeOK, RowIsCurrent, HandlesFit, MemoryFits, SessionIsFromLastOwner
  <1> QED BY <1>1, <1>2, PTL

-----------------------------------------------------------------------------
(***************************************************************************)
(* The supervisor: a loop ends only with a report or because polling has   *)
(* stopped.                                                                *)
(***************************************************************************)

LoopRow == [pc : {"unborn", "work", "tick", "pass", "ended"}, failures : Nat, page : Seq(Nat),
            cursor : 0..ConnectionCount, failed : BOOLEAN]

\* Where a loop and the supervisor are, and that no loop ends unnoticed.
LoopInv ==
    /\ loop \in [Loops -> LoopRow]
    /\ fatal \in BOOLEAN
    /\ supervisor \in {"launching", "waiting", "joining", "shutdown", "returned"}
    /\ NoSilentLoopDeath

(* A loop whose work returned: it ends only with a report, or because the
   supervisor stopped polling. *)
LEMMA WorkReturnsKeeps ==
    ASSUME LoopInv, NEW l \in Loops, NEW failed \in BOOLEAN, WorkReturns(l, failed, loop[l]),
           supervisor' = supervisor
    PROVE  LoopInv'
<1> USE SupervisorAssumption
<1> DEFINE count == IF failed /\ Polling THEN loop[l].failures + 1 ELSE 0
           ending == count >= FatalErrorThreshold
           pc == IF ending \/ ~Polling THEN "ended" ELSE "tick"
           new == [loop[l] EXCEPT !.pc = pc, !.failures = count, !.failed = FALSE, !.page = <<>>]
<1>1. /\ loop' = [loop EXCEPT ![l] = new]
      /\ IF ending THEN fatal' = TRUE ELSE fatal' = fatal
  BY DEF WorkReturns, Report
<1>2. loop[l] \in LoopRow
  BY DEF LoopInv
<1>3. count \in Nat
  BY <1>2 DEF LoopRow
<1>4. pc \in {"ended", "tick"} /\ (pc = "ended" => ending \/ ~Polling)
  OBVIOUS
<1> HIDE DEF count, pc
<1>5. <<>> \in Seq(Nat)
  OBVIOUS
<1>6. new \in LoopRow /\ new.pc = pc
  BY <1>2, <1>3, <1>4, <1>5 DEF LoopRow
<1> HIDE DEF new
<1>7. loop' \in [Loops -> LoopRow] /\ \A k \in Loops : loop'[k] = IF k = l THEN new ELSE loop[k]
  BY <1>1, <1>6 DEF LoopInv
<1>8. fatal' \in BOOLEAN /\ (fatal => fatal') /\ (ending => fatal')
  BY <1>1 DEF LoopInv
<1>9. Polling' <=> Polling
  BY DEF Polling
<1> HIDE DEF ending
<1>10. NoSilentLoopDeath'
  <2> SUFFICES ASSUME NEW k \in Loops, loop'[k].pc = "ended"
               PROVE  fatal' \/ ~Polling'
    BY DEF NoSilentLoopDeath
  <2>1. CASE k = l
    BY <1>4, <1>6, <1>7, <1>8, <1>9, <2>1
  <2>2. CASE k # l
    BY <1>7, <1>8, <1>9, <2>2 DEF LoopInv, NoSilentLoopDeath
  <2> QED
    BY <2>1, <2>2
<1> QED
  BY <1>7, <1>8, <1>10 DEF LoopInv

(* A loop that moves on, to its end only when nobody polls. *)
LEMMA LoopMovesKeeps ==
    ASSUME LoopInv, NEW l \in Loops, NEW new \in LoopRow, loop' = [loop EXCEPT ![l] = new],
           new.pc = "ended" => (loop[l].pc = "ended" \/ ~Polling),
           supervisor' = supervisor, fatal' \in BOOLEAN, fatal => fatal'
    PROVE  LoopInv'
<1>1. loop' \in [Loops -> LoopRow] /\ \A k \in Loops : loop'[k] = IF k = l THEN new ELSE loop[k]
  BY DEF LoopInv
<1>2. Polling' <=> Polling
  BY DEF Polling
<1> QED
  BY <1>1, <1>2 DEF LoopInv, NoSilentLoopDeath

(* A page is a sequence of connections and the cursor one of them, or zero. *)
LEMMA PageListedType ==
    ASSUME LoopInv, NEW l \in Loops
    PROVE  PageListed(l).page \in Seq(Nat) /\ PageListed(l).next \in 0..ConnectionCount
<1> USE SupervisorAssumption
<1> DEFINE from == loop[l].cursor
           to == Least(from + ConnectionLimit, ConnectionCount)
<1>1. from \in 0..ConnectionCount
  BY DEF LoopInv, LoopRow
<1> HIDE DEF from
<1>2. to \in 0..ConnectionCount /\ to - from \in Nat
  BY <1>1 DEF Least
<1> HIDE DEF to
<1>3. [i \in 1..(to - from) |-> from + i] \in Seq(Nat)
  <2> DEFINE n == to - from
  <2>1. n \in Nat /\ \A i \in 1..n : from + i \in Nat
    BY <1>1, <1>2
  <2> HIDE DEF n
  <2>2. [i \in 1..n |-> from + i] \in Seq(Nat)
    BY <2>1
  <2> QED
    BY <2>2 DEF n
<1>4. (IF to < ConnectionCount THEN to ELSE 0) \in 0..ConnectionCount
  BY <1>2
<1> QED
  BY <1>3, <1>4 DEF PageListed, from, to

(* The loops by name. *)
LEMMA LoopNames == {"discover", "dispatch", "batch", "backfill"} \subseteq Loops
<1>1. DOMAIN LaunchOrder = 1..4
  BY DEF LaunchOrder
<1>2. /\ LaunchOrder[1] = "discover" /\ LaunchOrder[2] = "dispatch"
      /\ LaunchOrder[3] = "batch" /\ LaunchOrder[4] = "backfill"
  BY DEF LaunchOrder
<1>3. "discover" \in Loops /\ "dispatch" \in Loops /\ "batch" \in Loops /\ "backfill" \in Loops
  BY <1>1, <1>2 DEF Loops
<1> QED
  BY <1>3

(* A loop that changes its place or its page. *)
LEMMA LoopRowMoves ==
    ASSUME LoopInv, NEW l \in Loops
    PROVE  /\ loop[l] \in LoopRow
           /\ \A p \in {"work", "ended"} : /\ [loop[l] EXCEPT !.pc = p] \in LoopRow
                                           /\ [loop[l] EXCEPT !.pc = p].pc = p
           /\ loop[l].page # <<>> =>
                 /\ [loop[l] EXCEPT !.page = Tail(loop[l].page)] \in LoopRow
                 /\ [loop[l] EXCEPT !.page = Tail(loop[l].page)].pc = loop[l].pc
                 /\ [loop[l] EXCEPT !.page = Tail(loop[l].page), !.failed = TRUE] \in LoopRow
                 /\ [loop[l] EXCEPT !.page = Tail(loop[l].page), !.failed = TRUE].pc = loop[l].pc
<1>1. loop[l] \in LoopRow
  BY DEF LoopInv
<1>2. \A p \in {"work", "ended"} : /\ [loop[l] EXCEPT !.pc = p] \in LoopRow
                                   /\ [loop[l] EXCEPT !.pc = p].pc = p
  BY <1>1 DEF LoopRow
<1>3. ASSUME loop[l].page # <<>>
      PROVE  /\ [loop[l] EXCEPT !.page = Tail(loop[l].page)] \in LoopRow
             /\ [loop[l] EXCEPT !.page = Tail(loop[l].page)].pc = loop[l].pc
             /\ [loop[l] EXCEPT !.page = Tail(loop[l].page), !.failed = TRUE] \in LoopRow
             /\ [loop[l] EXCEPT !.page = Tail(loop[l].page), !.failed = TRUE].pc = loop[l].pc
  <2> DEFINE rest == Tail(loop[l].page)
  <2>1. rest \in Seq(Nat)
    BY <1>1, <1>3 DEF LoopRow
  <2> HIDE DEF rest
  <2>2. /\ [loop[l] EXCEPT !.page = rest] \in LoopRow
        /\ [loop[l] EXCEPT !.page = rest].pc = loop[l].pc
        /\ [loop[l] EXCEPT !.page = rest, !.failed = TRUE] \in LoopRow
        /\ [loop[l] EXCEPT !.page = rest, !.failed = TRUE].pc = loop[l].pc
    BY <1>1, <2>1 DEF LoopRow
  <2> QED
    BY <2>2 DEF rest
<1> QED
  BY <1>1, <1>2, <1>3

(* Launching and ticking. *)
LEMMA TickKeeps ==
    ASSUME LoopInv, NEW l \in Loops, LaunchLoop(l) \/ Tick(l)
    PROVE  LoopInv'
<1> DEFINE pc == IF Tick(l) /\ ~Polling THEN "ended" ELSE "work"
           new == [loop[l] EXCEPT !.pc = pc]
<1>1. CASE LaunchLoop(l)
  <2>1. loop' = [loop EXCEPT ![l] = [loop[l] EXCEPT !.pc = "work"]]
        /\ supervisor' = supervisor /\ fatal' = fatal
    BY <1>1 DEF LaunchLoop
  <2> QED
    BY <2>1, LoopRowMoves, LoopMovesKeeps DEF LoopInv
<1>2. CASE Tick(l) /\ Polling
  <2>1. loop' = [loop EXCEPT ![l] = [loop[l] EXCEPT !.pc = "work"]]
        /\ supervisor' = supervisor /\ fatal' = fatal
    BY <1>2 DEF Tick
  <2> QED
    BY <2>1, LoopRowMoves, LoopMovesKeeps DEF LoopInv
<1>3. CASE Tick(l) /\ ~Polling
  <2>1. loop' = [loop EXCEPT ![l] = [loop[l] EXCEPT !.pc = "ended"]]
        /\ supervisor' = supervisor /\ fatal' = fatal
    BY <1>3 DEF Tick
  <2> QED
    BY <1>3, <2>1, LoopRowMoves, LoopMovesKeeps DEF LoopInv
<1> QED
  BY <1>1, <1>2, <1>3

(* A pass begins or fails. *)
LEMMA ListConnectionsKeeps ==
    ASSUME LoopInv, NEW l \in Loops, NEW failed \in BOOLEAN, ListConnections(l, failed)
    PROVE  LoopInv'
<1>1. supervisor' = supervisor
  BY DEF ListConnections
<1>2. CASE WorkReturns(l, TRUE, loop[l])
  BY <1>1, <1>2, WorkReturnsKeeps
<1>3. CASE /\ loop' = [loop EXCEPT ![l].pc = "pass", ![l].page = PageListed(l).page,
                                   ![l].cursor = PageListed(l).next]
           /\ fatal' = fatal
  <2> DEFINE page == PageListed(l).page
             next == PageListed(l).next
             new == [loop[l] EXCEPT !.pc = "pass", !.page = page, !.cursor = next]
  <2>1. page \in Seq(Nat) /\ next \in 0..ConnectionCount
    BY PageListedType
  <2> HIDE DEF page, next
  <2>2. loop' = [loop EXCEPT ![l] = new]
    BY <1>3 DEF LoopInv, page, next
  <2>3. new \in LoopRow /\ new.pc = "pass"
    BY <2>1, LoopRowMoves DEF LoopRow
  <2> HIDE DEF new
  <2> QED
    BY <1>1, <1>3, <2>2, <2>3, LoopMovesKeeps DEF LoopInv
<1> QED
  BY <1>2, <1>3 DEF ListConnections

(* The next connection of a pass. *)
LEMMA DiscoverLoopKeeps ==
    ASSUME LoopInv, DiscoverActor
    PROVE  LoopInv'
<1> DEFINE new == [loop["discover"] EXCEPT !.page = Tail(loop["discover"].page)]
<1>1. "discover" \in Loops
  BY LoopNames
<1>2. loop["discover"].page # <<>> /\ loop' = [loop EXCEPT !["discover"] = new]
      /\ supervisor' = supervisor
  BY DEF DiscoverActor
<1>3. fatal' \in BOOLEAN /\ (fatal => fatal')
  <2>1. fatal' = TRUE \/ fatal' = fatal
    BY DEF DiscoverActor, Report
  <2> QED
    BY <2>1 DEF LoopInv
<1>4. new \in LoopRow /\ new.pc = loop["discover"].pc
  BY <1>1, <1>2, LoopRowMoves
<1> HIDE DEF new
<1> QED
  BY <1>1, <1>2, <1>3, <1>4, LoopMovesKeeps

(* The backfill of the next connection, and its quarantine. *)
LEMMA BackfillConnectionKeeps ==
    ASSUME LoopInv, NEW outcome, NEW error, BackfillConnection(outcome, error)
    PROVE  LoopInv'
<1> DEFINE l == "backfill"
           rest == [loop[l] EXCEPT !.page = Tail(loop[l].page)]
           failed == [loop[l] EXCEPT !.page = Tail(loop[l].page), !.failed = TRUE]
<1>1. l \in Loops
  BY LoopNames
<1>2. loop[l].page # <<>> /\ supervisor' = supervisor
  BY DEF BackfillConnection
<1>3. loop' = [loop EXCEPT ![l].page = Tail(@)]
      \/ loop' = [loop EXCEPT ![l].page = Tail(@), ![l].failed = IF error = "none" THEN @ ELSE TRUE]
  BY DEF BackfillConnection, QuarantineBackfill
<1>4. fatal' \in BOOLEAN /\ (fatal => fatal')
  <2>1. fatal' = TRUE \/ fatal' = fatal
    BY DEF BackfillConnection, Report
  <2> QED
    BY <2>1 DEF LoopInv
<1>5. /\ rest \in LoopRow /\ rest.pc = loop[l].pc
      /\ failed \in LoopRow /\ failed.pc = loop[l].pc
  BY <1>1, <1>2, LoopRowMoves
<1>6. CASE loop' = [loop EXCEPT ![l].page = Tail(@)]
  <2>1. loop' = [loop EXCEPT ![l] = rest]
    BY <1>6
  <2> HIDE DEF rest
  <2> QED
    BY <1>1, <1>2, <1>4, <1>5, <2>1, LoopMovesKeeps
<1>7. CASE loop' = [loop EXCEPT ![l].page = Tail(@), ![l].failed = IF error = "none" THEN @ ELSE TRUE]
  <2>1. loop' = [loop EXCEPT ![l] = failed] \/ loop' = [loop EXCEPT ![l] = rest]
    <3>1. CASE error # "none"
      BY <1>1, <1>7, <3>1 DEF LoopInv
    <3>2. CASE error = "none"
      <4>1. loop[l] \in LoopRow
        BY <1>1 DEF LoopInv
      <4>2. [loop[l] EXCEPT !.page = Tail(loop[l].page), !.failed = loop[l].failed] = rest
        BY <4>1 DEF LoopRow
      <4>3. loop' = [loop EXCEPT ![l] = [loop[l] EXCEPT !.page = Tail(loop[l].page),
                                                     !.failed = loop[l].failed]]
        BY <1>1, <1>7, <3>2 DEF LoopInv
      <4> QED
        BY <4>2, <4>3
    <3> QED
      BY <3>1, <3>2
  <2> HIDE DEF rest
  <2> HIDE DEF failed
  <2> QED
    BY <1>1, <1>2, <1>4, <1>5, <2>1, LoopMovesKeeps
<1> QED
  BY <1>3, <1>6, <1>7

(* Steps outside the loops only ever stop the polling. *)
LEMMA StopKeeps ==
    ASSUME LoopInv, loop' = loop, fatal' = fatal,
           supervisor' = supervisor \/ supervisor' \in {"joining", "shutdown", "returned"}
              \/ (supervisor = "launching" /\ supervisor' = "waiting")
    PROVE  LoopInv'
  BY DEF LoopInv, NoSilentLoopDeath, Polling

(* No worker of the gateway dies silently: a loop that has ended was stopped, or its
   error is about to be received by the supervisor. *)
THEOREM SupervisorNoSilentLoopDeath == SupervisorSpec => []NoSilentLoopDeath
<1>1. SupervisorInit => LoopInv
  <2> SUFFICES ASSUME SupervisorInit
               PROVE  LoopInv
    OBVIOUS
  <2>1. NewLoop \in LoopRow /\ NewLoop.pc = "unborn"
    <3>1. <<>> \in Seq(Nat)
      OBVIOUS
    <3> QED
      BY <3>1, SupervisorAssumption DEF NewLoop, LoopRow
  <2> QED
    BY <2>1 DEF SupervisorInit, LoopInv, NoSilentLoopDeath
<1>2. LoopInv /\ [SupervisorNext]_supervisorVars => LoopInv'
  <2> SUFFICES ASSUME LoopInv, [SupervisorNext]_supervisorVars
               PROVE  LoopInv'
    OBVIOUS
  <2>1. ASSUME NEW failed \in BOOLEAN, RunBatch(failed)
        PROVE  LoopInv'
    BY <2>1, LoopNames, WorkReturnsKeeps DEF RunBatch
  <2>2. ASSUME NEW lanes, NEW failed \in BOOLEAN, Dispatch(lanes, failed)
        PROVE  LoopInv'
    <3> DEFINE f == failed \/ \E c \in lanes : StartResult(c) = "shared"
    <3>1. f \in BOOLEAN /\ WorkReturns("dispatch", f, loop["dispatch"]) /\ supervisor' = supervisor
      BY <2>2 DEF Dispatch
    <3> HIDE DEF f
    <3> QED
      BY <3>1, LoopNames, WorkReturnsKeeps
  <2>3. ASSUME NEW l \in Loops, PassEnds(l)
        PROVE  LoopInv'
    <3>1. loop[l].failed \in BOOLEAN
      BY LoopRowMoves DEF LoopRow
    <3> QED
      BY <2>3, <3>1, WorkReturnsKeeps DEF PassEnds
  <2>4. ASSUME NEW l \in Loops, SupervisorLoopStep(l)
        PROVE  LoopInv'
    BY <2>1, <2>2, <2>3, <2>4, TickKeeps, ListConnectionsKeeps, DiscoverLoopKeeps,
       BackfillConnectionKeeps
    DEF SupervisorLoopStep
  <2>5. CASE StopStep
    BY <2>5, StopKeeps
    DEF StopStep, Launched, StopWorkers, ShutdownActors, SupervisorReturns, GatewayStops,
        CommandsStop, GatewayReturns, ProcessStops, ProcessExits
  <2>6. ASSUME NEW c, NEW left, ActorEnds(c, left)
        PROVE  LoopInv'
    BY <2>6, StopKeeps DEF ActorEnds
  <2>7. ASSUME NEW s, ServerFails(s)
        PROVE  LoopInv'
    BY <2>7, StopKeeps DEF ServerFails
  <2>8. CASE Failure
    <3>1. CASE ProcessStops(TRUE) \/ ProcessExits(TRUE)
      BY <3>1, StopKeeps DEF ProcessStops, ProcessExits
    <3> QED
      BY <2>1, <2>2, <2>6, <2>7, <2>8, <3>1, LoopNames, ListConnectionsKeeps,
         BackfillConnectionKeeps
      DEF Failure
  <2>9. CASE UNCHANGED supervisorVars
    BY <2>9, StopKeeps DEF supervisorVars
  <2> QED
    BY <2>4, <2>5, <2>8, <2>9 DEF SupervisorNext
<1>3. LoopInv => NoSilentLoopDeath
  BY DEF LoopInv
<1> QED
  BY <1>1, <1>2, <1>3, PTL DEF SupervisorSpec

-----------------------------------------------------------------------------
(***************************************************************************)
(* Webhook delivery: no event an endpoint is owed is lost, whatever worker *)
(* dies and whatever an endpoint answers.                                  *)
(***************************************************************************)

DeliveryRow == [state : {"none", "pending", "delivering", "succeeded", "dead"},
                owner : Workers \cup {NoWorker}, token : Nat, cycle : Nat,
                http : BOOLEAN, live : BOOLEAN]

AttemptTask == [pair : Pairs, owner : Workers, token : Nat, attempt : Nat,
                stage : {"claimed", "wire", "ok", "refused"}]

WebhookTypeOK ==
    /\ endpoint \in [Endpoints -> {"absent", "active", "revoked"}]
    /\ outbox \in [Events -> {"absent", "open", "closed"}]
    /\ owed \subseteq Pairs
    /\ delivery \in [Pairs -> DeliveryRow]
    /\ dlq \in [Pairs -> {"none", "dead", "replayed"}]
    /\ tasks \subseteq AttemptTask

\* What is owed was owed to an endpoint that existed, and a worker that was
\* answered with 2xx is not alone in knowing it.
WebhookInv ==
    /\ WebhookTypeOK
    /\ \A p \in owed : endpoint[p[1]] # "absent"
    /\ \A t \in tasks : t.stage = "ok" => t.pair \in accepted
    /\ NoEventLost

(* A step that forgets no delivery, no dead letter and no answer, and takes no
   event off the outbox before every active endpoint has its delivery. *)
LEMMA WebhookRowsKept ==
    ASSUME WebhookInv, WebhookTypeOK',
           owed' = owed, accepted \subseteq accepted',
           \A p \in owed : endpoint'[p[1]] # "absent" /\ (endpoint'[p[1]] = "active" => Active(p[1])),
           \A t \in tasks' : t.stage = "ok" => t.pair \in accepted',
           \A p \in Pairs : /\ delivery'[p].state = "none" =>
                                 delivery[p].state = "none" /\ (outbox'[p[2]] = outbox[p[2]] \/ ~Active(p[1]))
                            /\ delivery'[p].state = "succeeded" =>
                                 delivery[p].state = "succeeded" \/ p \in accepted'
                            /\ delivery'[p].state = "dead" =>
                                 delivery[p].state = "dead" \/ dlq'[p] # "none"
                            /\ dlq'[p] = "none" => dlq[p] = "none"
    PROVE  WebhookInv'
<1>1. owed \subseteq Pairs
  BY DEF WebhookInv, WebhookTypeOK
<1>2. ASSUME NEW p \in owed, endpoint'[p[1]] = "active", delivery'[p].state = "none"
      PROVE  outbox'[p[2]] = "open"
  <2>1. Active(p[1]) /\ p \in Pairs
    BY <1>1, <1>2
  <2>2. delivery[p].state = "none" /\ outbox'[p[2]] = outbox[p[2]]
    BY <1>2, <2>1
  <2> QED
    BY <1>1, <2>1, <2>2 DEF WebhookInv, NoEventLost
<1>3. NoEventLost'
  BY <1>1, <1>2 DEF WebhookInv, NoEventLost, Active
<1> QED
  BY <1>3 DEF WebhookInv

(* Endpoints come and go. *)
LEMMA CreateEndpointKeeps ==
    ASSUME WebhookInv, NEW e \in Endpoints, CreateEndpoint(e)
    PROVE  WebhookInv'
<1>1. /\ endpoint[e] = "absent" /\ endpoint' = [endpoint EXCEPT ![e] = "active"]
      /\ UNCHANGED <<outbox, owed, delivery, dlq, tasks, accepted>>
  BY DEF CreateEndpoint
<1>2. WebhookTypeOK'
  BY <1>1 DEF WebhookInv, WebhookTypeOK
<1>3. \A p \in owed : p[1] \in Endpoints /\ p[1] # e
  BY <1>1 DEF WebhookInv, WebhookTypeOK, Pairs
<1>4. \A p \in owed : endpoint'[p[1]] = endpoint[p[1]]
  BY <1>1, <1>3 DEF WebhookInv, WebhookTypeOK
<1> QED
  BY <1>1, <1>2, <1>4, WebhookRowsKept DEF WebhookInv, Active

(* A deletion dead-letters what it revokes. *)
LEMMA DeleteEndpointKeeps ==
    ASSUME WebhookInv, NEW e \in Endpoints, DeleteEndpoint(e)
    PROVE  WebhookInv'
<1> DEFINE revoked == {p \in Pairs : p[1] = e /\ Revocable(p)}
           gone(p) == [Dead(delivery[p]) EXCEPT !.token = @ + 1]
<1>1. /\ endpoint' = [endpoint EXCEPT ![e] = "revoked"]
      /\ delivery' = [p \in Pairs |-> IF p \in revoked THEN gone(p) ELSE delivery[p]]
      /\ dlq' = [p \in Pairs |-> IF p \in revoked THEN DeadLetter(p) ELSE dlq[p]]
      /\ UNCHANGED <<outbox, owed, tasks, accepted>>
  BY DEF DeleteEndpoint
<1>2. ASSUME NEW p \in Pairs
      PROVE  gone(p) \in DeliveryRow /\ gone(p).state = "dead"
  <2>1. delivery[p] \in DeliveryRow
    BY DEF WebhookInv, WebhookTypeOK
  <2>2. Dead(delivery[p]) \in DeliveryRow /\ Dead(delivery[p]).state = "dead"
    BY <2>1 DEF Dead, DeliveryRow
  <2> QED
    BY <2>2 DEF DeliveryRow
<1>3. \A p \in Pairs : DeadLetter(p) \in {"dead", "replayed"}
  BY DEF DeadLetter, WebhookInv, WebhookTypeOK
<1> HIDE DEF revoked, gone
<1>4. WebhookTypeOK'
  BY <1>1, <1>2, <1>3 DEF WebhookInv, WebhookTypeOK
<1>5. ASSUME NEW p \in owed
      PROVE  endpoint'[p[1]] # "absent" /\ (endpoint'[p[1]] = "active" => Active(p[1]))
  BY <1>1 DEF WebhookInv, WebhookTypeOK, Pairs, Active
<1>6. ASSUME NEW p \in Pairs
      PROVE  /\ delivery'[p].state = "none" =>
                   delivery[p].state = "none" /\ (outbox'[p[2]] = outbox[p[2]] \/ ~Active(p[1]))
             /\ delivery'[p].state = "succeeded" =>
                   delivery[p].state = "succeeded" \/ p \in accepted'
             /\ delivery'[p].state = "dead" => delivery[p].state = "dead" \/ dlq'[p] # "none"
             /\ dlq'[p] = "none" => dlq[p] = "none"
  BY <1>1, <1>2, <1>3
<1> QED
  BY <1>1, <1>4, <1>5, <1>6, WebhookRowsKept DEF WebhookInv

(* One row is written. *)
LEMMA DeliveryWritten ==
    ASSUME WebhookInv, NEW p \in Pairs, NEW new \in DeliveryRow,
           delivery' = [delivery EXCEPT ![p] = new],
           UNCHANGED <<endpoint, outbox, owed, accepted>>,
           tasks' \subseteq AttemptTask,
           \A t \in tasks' : t.stage = "ok" => t.pair \in accepted,
           dlq' \in [Pairs -> {"none", "dead", "replayed"}],
           \A q \in Pairs : dlq'[q] = "none" => dlq[q] = "none",
           new.state = "none" => delivery[p].state = "none",
           new.state = "succeeded" => delivery[p].state = "succeeded" \/ p \in accepted,
           new.state = "dead" => delivery[p].state = "dead" \/ dlq'[p] # "none"
    PROVE  WebhookInv'
<1>1. delivery' \in [Pairs -> DeliveryRow]
      /\ \A q \in Pairs : delivery'[q] = IF q = p THEN new ELSE delivery[q]
  BY DEF WebhookInv, WebhookTypeOK
<1>2. WebhookTypeOK'
  BY <1>1 DEF WebhookInv, WebhookTypeOK
<1>3. ASSUME NEW q \in Pairs
      PROVE  /\ delivery'[q].state = "none" =>
                   delivery[q].state = "none" /\ (outbox'[q[2]] = outbox[q[2]] \/ ~Active(q[1]))
             /\ delivery'[q].state = "succeeded" =>
                   delivery[q].state = "succeeded" \/ q \in accepted'
             /\ delivery'[q].state = "dead" => delivery[q].state = "dead" \/ dlq'[q] # "none"
             /\ dlq'[q] = "none" => dlq[q] = "none"
  BY <1>1
<1> QED
  BY <1>2, <1>3, WebhookRowsKept DEF WebhookInv, Active

(* A dead letter is queued again. *)
LEMMA ReplayKeeps ==
    ASSUME WebhookInv, NEW p \in Pairs, ReplayDLQ(p)
    PROVE  WebhookInv'
<1> DEFINE n == delivery[p].token + 1
           new == [delivery[p] EXCEPT !.state = "pending", !.cycle = 0, !.owner = NoWorker,
                                      !.live = FALSE, !.token = n]
<1>1. delivery[p] \in DeliveryRow
  BY DEF WebhookInv, WebhookTypeOK
<1>2. delivery' = [delivery EXCEPT ![p] = new]
  BY <1>1 DEF ReplayDLQ, WebhookInv, WebhookTypeOK, DeliveryRow
<1>6. n \in Nat
  BY <1>1 DEF DeliveryRow
<1> HIDE DEF n
<1>3. new \in DeliveryRow /\ new.state = "pending"
  BY <1>1, <1>6 DEF DeliveryRow
<1>4. /\ dlq' = [dlq EXCEPT ![p] = "replayed"]
      /\ UNCHANGED <<endpoint, outbox, owed, accepted, tasks>>
  BY DEF ReplayDLQ
<1>5. /\ dlq' \in [Pairs -> {"none", "dead", "replayed"}]
      /\ \A q \in Pairs : dlq'[q] = "none" => dlq[q] = "none"
  BY <1>4 DEF WebhookInv, WebhookTypeOK
<1> HIDE DEF new
<1> QED
  BY <1>2, <1>3, <1>4, <1>5, DeliveryWritten DEF WebhookInv, WebhookTypeOK

(* A claim expires. *)
LEMMA ClaimExpiresKeeps ==
    ASSUME WebhookInv, NEW p \in Pairs, ClaimExpires(p)
    PROVE  WebhookInv'
<1> DEFINE new == [delivery[p] EXCEPT !.live = FALSE]
<1>1. /\ delivery' = [delivery EXCEPT ![p] = new]
      /\ UNCHANGED <<endpoint, outbox, owed, dlq, tasks, accepted>>
  BY DEF ClaimExpires
<1>2. delivery[p] \in DeliveryRow
  BY DEF WebhookInv, WebhookTypeOK
<1>3. new \in DeliveryRow /\ new.state = delivery[p].state
  BY <1>2 DEF DeliveryRow
<1> HIDE DEF new
<1> QED
  BY <1>1, <1>3, DeliveryWritten DEF WebhookInv, WebhookTypeOK

(* An event is recorded and owed to the endpoints that are active. *)
LEMMA RecordEventKeeps ==
    ASSUME WebhookInv, NEW v \in Events, RecordEvent(v)
    PROVE  WebhookInv'
<1>1. /\ outbox' = [outbox EXCEPT ![v] = "open"]
      /\ owed' = owed \cup {<<e, v>> : e \in {x \in Endpoints : Active(x)}}
      /\ UNCHANGED <<endpoint, delivery, dlq, tasks, accepted>>
  BY DEF RecordEvent
<1>2. WebhookTypeOK'
  BY <1>1 DEF WebhookInv, WebhookTypeOK, Pairs
<1>3. ASSUME NEW p \in owed'
      PROVE  /\ p \in Pairs /\ endpoint[p[1]] # "absent"
             /\ p \in owed \/ p[2] = v
  BY <1>1 DEF WebhookInv, WebhookTypeOK, Pairs, Active
<1>4. outbox'[v] = "open" /\ \A u \in Events : u # v => outbox'[u] = outbox[u]
  BY <1>1 DEF WebhookInv, WebhookTypeOK
<1>5. ASSUME NEW p \in owed', Active(p[1])'
      PROVE  outbox'[p[2]] = "open" \/ delivery'[p].state # "none"
  <2>1. CASE p[2] = v
    BY <1>4, <2>1
  <2>2. CASE p[2] # v
    BY <1>1, <1>3, <1>4, <1>5, <2>2 DEF WebhookInv, NoEventLost, Active, Pairs
  <2> QED
    BY <2>1, <2>2
<1> QED
  BY <1>1, <1>2, <1>3, <1>5 DEF WebhookInv, NoEventLost

(* A claim closes an event only when every active endpoint has its delivery. *)
LEMMA ClaimKeeps ==
    ASSUME WebhookInv, NEW w \in Workers, Claim(w)
    PROVE  WebhookInv'
<1>1. PICK locked \in SUBSET Events, new \in SUBSET Pairs, taken \in SUBSET Pairs :
        /\ new \subseteq Missing(locked)
        /\ \A p \in taken : p \in new \/ Claimable(p)
        /\ outbox' = [v \in Events |->
                        IF v \in Completed(locked, new) THEN "closed" ELSE outbox[v]]
        /\ delivery' = [p \in Pairs |->
              IF p \in taken THEN ClaimedBy(delivery[p], w)
              ELSE IF p \in new THEN [NoDelivery EXCEPT !.state = "pending"]
              ELSE delivery[p]]
        /\ tasks' = tasks \cup {Task(p, w) : p \in taken}
  <2> DEFINE ready == {p \in Pairs : Claimable(p)}
  <2>1. PICK locked \in SUBSET {v \in Events : outbox[v] = "open"} :
        \E new \in SUBSET Missing(locked) :
        \E taken \in SUBSET (IF ready = {} THEN new ELSE ready) :
          /\ outbox' = [v \in Events |->
                          IF v \in Completed(locked, new) THEN "closed" ELSE outbox[v]]
          /\ delivery' = [p \in Pairs |->
                IF p \in taken THEN ClaimedBy(delivery[p], w)
                ELSE IF p \in new THEN [NoDelivery EXCEPT !.state = "pending"]
                ELSE delivery[p]]
          /\ tasks' = tasks \cup {Task(p, w) : p \in taken}
    BY DEF Claim
  <2>2. locked \subseteq Events /\ Missing(locked) \subseteq Pairs /\ ready \subseteq Pairs
    BY DEF Missing
  <2> QED
    BY <2>1, <2>2
<1>2. UNCHANGED <<endpoint, owed, dlq, accepted>>
  BY DEF Claim
<1> DEFINE fresh == [NoDelivery EXCEPT !.state = "pending"]
<1>3. fresh \in DeliveryRow /\ fresh.state = "pending"
  BY DEF NoDelivery, DeliveryRow
<1>4. ASSUME NEW p \in Pairs
      PROVE  /\ ClaimedBy(delivery[p], w) \in DeliveryRow
             /\ ClaimedBy(delivery[p], w).state = "delivering"
             /\ Task(p, w) \in AttemptTask /\ Task(p, w).stage = "claimed"
  <2>1. delivery[p] \in DeliveryRow
    BY DEF WebhookInv, WebhookTypeOK
  <2>2. Task(p, w) \in AttemptTask /\ Task(p, w).stage = "claimed"
    BY <2>1 DEF Task, AttemptTask, DeliveryRow
  <2> DEFINE n == delivery[p].token + 1
             c == delivery[p].cycle + 1
  <2>3. n \in Nat /\ c \in Nat
    BY <2>1 DEF DeliveryRow
  <2>4. ClaimedBy(delivery[p], w) = [delivery[p] EXCEPT !.state = "delivering", !.owner = w,
                                       !.live = TRUE, !.token = n, !.cycle = c, !.http = FALSE]
    BY <2>1 DEF ClaimedBy, DeliveryRow
  <2> HIDE DEF n, c
  <2>5. ClaimedBy(delivery[p], w) \in DeliveryRow /\ ClaimedBy(delivery[p], w).state = "delivering"
    BY <2>1, <2>3, <2>4 DEF DeliveryRow
  <2> QED
    BY <2>2, <2>5
<1> HIDE DEF fresh
<1>5. ASSUME NEW p \in Pairs
      PROVE  /\ delivery'[p] \in DeliveryRow
             /\ p \in taken => delivery'[p].state = "delivering"
             /\ p \notin taken /\ p \in new => delivery'[p].state = "pending"
             /\ p \notin taken /\ p \notin new => delivery'[p] = delivery[p]
  BY <1>1, <1>3, <1>4 DEF WebhookInv, WebhookTypeOK, fresh
<1>6. WebhookTypeOK'
  BY <1>1, <1>2, <1>4, <1>5 DEF WebhookInv, WebhookTypeOK
<1>7. ASSUME NEW p \in Pairs, delivery'[p].state = "none"
      PROVE  delivery[p].state = "none" /\ (outbox'[p[2]] = outbox[p[2]] \/ ~Active(p[1]))
  <2>1. p \notin taken /\ p \notin new /\ delivery[p].state = "none"
    BY <1>5, <1>7
  <2>2. p = <<p[1], p[2]>> /\ p[1] \in Endpoints /\ p[2] \in Events
    BY DEF Pairs
  <2>3. p[2] \in Completed(locked, new) => ~Active(p[1])
    BY <2>1, <2>2 DEF Completed
  <2> QED
    BY <1>1, <2>1, <2>2, <2>3
<1>8. \A t \in tasks' : t.stage = "ok" => t.pair \in accepted'
  BY <1>1, <1>2, <1>4 DEF WebhookInv
<1>9. ASSUME NEW p \in Pairs
      PROVE  /\ delivery'[p].state = "succeeded" => delivery[p].state = "succeeded"
             /\ delivery'[p].state = "dead" => delivery[p].state = "dead"
  BY <1>5
<1> QED
  BY <1>2, <1>6, <1>7, <1>8, <1>9, WebhookRowsKept DEF WebhookInv, Active

(* Attempts that only lose tasks, or move one without an answer. *)
LEMMA TasksKeep ==
    ASSUME WebhookInv, UNCHANGED <<endpoint, outbox, owed, delivery, dlq>>,
           accepted \subseteq accepted', tasks' \subseteq AttemptTask,
           \A t \in tasks' : t.stage = "ok" => t.pair \in accepted'
    PROVE  WebhookInv'
<1>1. WebhookTypeOK'
  BY DEF WebhookInv, WebhookTypeOK
<1> QED
  BY <1>1, WebhookRowsKept DEF WebhookInv, Active

(* The last check before the request. *)
LEMMA AdmitClaimKeeps ==
    ASSUME WebhookInv, NEW t \in tasks, AdmitClaim(t)
    PROVE  WebhookInv'
<1>1. t \in AttemptTask /\ t.pair \in Pairs
  BY DEF WebhookInv, WebhookTypeOK, AttemptTask
<1>2. UNCHANGED <<endpoint, outbox, owed, dlq, accepted>>
  BY DEF AdmitClaim
<1>3. CASE delivery' = [delivery EXCEPT ![t.pair].http = TRUE]
           /\ tasks' = (tasks \ {t}) \cup {[t EXCEPT !.stage = "wire"]}
  <2> DEFINE p == t.pair
             new == [delivery[p] EXCEPT !.http = TRUE]
             moved == [t EXCEPT !.stage = "wire"]
  <2>1. delivery[p] \in DeliveryRow
    BY <1>1 DEF WebhookInv, WebhookTypeOK
  <2>2. new \in DeliveryRow /\ new.state = delivery[p].state
    BY <2>1 DEF DeliveryRow
  <2>3. delivery' = [delivery EXCEPT ![p] = new]
    BY <1>3
  <2>4. moved \in AttemptTask /\ moved.stage = "wire"
    BY <1>1 DEF AttemptTask
  <2> HIDE DEF new, moved, p
  <2>5. /\ tasks' \subseteq AttemptTask /\ \A s \in tasks' : s.stage = "ok" => s.pair \in accepted
        /\ p \in Pairs
    BY <1>1, <1>3, <2>4 DEF WebhookInv, WebhookTypeOK, moved, p
  <2> QED
    BY <1>2, <2>2, <2>3, <2>5, DeliveryWritten DEF WebhookInv, WebhookTypeOK
<1>4. CASE tasks' = tasks \ {t} /\ delivery' = delivery
  BY <1>2, <1>4, TasksKeep DEF WebhookInv, WebhookTypeOK
<1> QED
  BY <1>3, <1>4 DEF AdmitClaim

(* The endpoint answers. *)
LEMMA DeliverKeeps ==
    ASSUME WebhookInv, NEW t \in tasks, Deliver(t)
    PROVE  WebhookInv'
<1>1. PICK answer \in {"ok", "refused"} :
          /\ tasks' = (tasks \ {t}) \cup {[t EXCEPT !.stage = answer]}
          /\ accepted' = IF answer = "ok" THEN accepted \cup {t.pair} ELSE accepted
  BY DEF Deliver
<1> DEFINE moved == [t EXCEPT !.stage = answer]
<1>2. t \in AttemptTask
  BY DEF WebhookInv, WebhookTypeOK
<1>3. moved \in AttemptTask /\ moved.stage = answer /\ moved.pair = t.pair
  BY <1>2 DEF AttemptTask
<1> HIDE DEF moved
<1>4. tasks' \subseteq AttemptTask /\ \A s \in tasks' : s.stage = "ok" => s.pair \in accepted'
  BY <1>1, <1>3 DEF WebhookInv, WebhookTypeOK, moved
<1> QED
  BY <1>1, <1>4, TasksKeep DEF Deliver

(* An attempt is settled, or finds that its claim is another's. *)
LEMMA CompleteAttemptKeeps ==
    ASSUME WebhookInv, NEW t \in tasks, CompleteAttempt(t)
    PROVE  WebhookInv'
<1> DEFINE p == t.pair
           outcome == Outcome(t, t.stage = "ok")
           new == [delivery[p] EXCEPT !.state = outcome, !.owner = NoWorker, !.live = FALSE]
<1>1. t \in AttemptTask /\ p \in Pairs /\ delivery[p] \in DeliveryRow
  BY DEF WebhookInv, WebhookTypeOK, AttemptTask
<1>2. UNCHANGED <<endpoint, outbox, owed, accepted>> /\ tasks' = tasks \ {t}
  BY DEF CompleteAttempt
<1>3. /\ tasks' \subseteq AttemptTask
      /\ \A s \in tasks' : s.stage = "ok" => s.pair \in accepted
  BY <1>2 DEF WebhookInv, WebhookTypeOK
<1>4. CASE /\ delivery' = [delivery EXCEPT ![p].state = outcome, ![p].owner = NoWorker,
                                           ![p].live = FALSE]
           /\ dlq' = IF outcome = "dead" THEN [dlq EXCEPT ![p] = DeadLetter(p)] ELSE dlq
  <2>1. /\ outcome \in {"dead", "succeeded", "pending"}
        /\ outcome = "succeeded" => p \in accepted
    BY DEF Outcome, WebhookInv
  <2> HIDE DEF outcome
  <2>2. delivery' = [delivery EXCEPT ![p] = new]
    BY <1>1, <1>4 DEF WebhookInv, WebhookTypeOK
  <2>3. new \in DeliveryRow /\ new.state = outcome
    BY <1>1, <2>1 DEF DeliveryRow
  <2>4. DeadLetter(p) \in {"dead", "replayed"}
    BY <1>1 DEF DeadLetter, WebhookInv, WebhookTypeOK
  <2> HIDE DEF new, p
  <2>5. /\ dlq' \in [Pairs -> {"none", "dead", "replayed"}]
        /\ \A q \in Pairs : dlq'[q] = "none" => dlq[q] = "none"
        /\ outcome = "dead" => dlq'[p] # "none"
    BY <1>1, <1>4, <2>4 DEF WebhookInv, WebhookTypeOK
  <2> QED
    BY <1>1, <1>2, <1>3, <2>1, <2>2, <2>3, <2>5, DeliveryWritten
<1>5. CASE delivery' = delivery /\ dlq' = dlq
  BY <1>2, <1>3, <1>5, TasksKeep
<1> QED
  BY <1>4, <1>5 DEF CompleteAttempt

(* No event is lost on its way to an endpoint, and no delivery settles without
   evidence. *)
THEOREM WebhookNoEventLost == WebhookSpec => []NoEventLost
<1>1. WebhookInit => WebhookInv
  <2> SUFFICES ASSUME WebhookInit
               PROVE  WebhookInv
    OBVIOUS
  <2>1. NoDelivery \in DeliveryRow /\ NoDelivery.state = "none"
    BY DEF NoDelivery, DeliveryRow
  <2> QED
    BY <2>1 DEF WebhookInit, WebhookInv, WebhookTypeOK, NoEventLost
<1>2. WebhookInv /\ [WebhookNext]_webhookVars => WebhookInv'
  <2> SUFFICES ASSUME WebhookInv, [WebhookNext]_webhookVars
               PROVE  WebhookInv'
    OBVIOUS
  <2>1. ASSUME NEW w \in Workers, AttemptsLost(w)
        PROVE  WebhookInv'
    <3>1. tasks' \subseteq tasks /\ UNCHANGED <<endpoint, outbox, owed, delivery, dlq, accepted>>
      BY <2>1 DEF AttemptsLost
    <3> QED
      BY <3>1, TasksKeep DEF WebhookInv, WebhookTypeOK
  <2>2. ASSUME NEW t \in tasks, RenewalLost(t)
        PROVE  WebhookInv'
    BY <2>2, TasksKeep DEF RenewalLost, WebhookInv, WebhookTypeOK
  <2>3. CASE UNCHANGED webhookVars
    BY <2>3, TasksKeep DEF webhookVars, WebhookInv, WebhookTypeOK
  <2> QED
    BY <2>1, <2>2, <2>3, CreateEndpointKeeps, DeleteEndpointKeeps, ReplayKeeps, ClaimExpiresKeeps,
       RecordEventKeeps, ClaimKeeps, AdmitClaimKeeps, DeliverKeeps, CompleteAttemptKeeps
    DEF WebhookNext
<1>3. WebhookInv => NoEventLost
  BY DEF WebhookInv
<1> QED
  BY <1>1, <1>2, <1>3, PTL DEF WebhookSpec

-----------------------------------------------------------------------------
(***************************************************************************)
(* Proof that the ledger tells the schema. The inductive invariant says    *)
(* what a runner may rely on where it is: it holds the lock, and the       *)
(* ledger it has read is a prefix of its catalog.                          *)
(***************************************************************************)

RunnerPlaces == {"stopped", "lock", "presence", "ensure", "read", "adopt", "apply", "record"}

\* The places in which a runner holds the advisory lock.
Holding == {"presence", "ensure", "read", "adopt", "apply", "record"}

RunnerRow == [pc : RunnerPlaces, adopt : BOOLEAN, found : BOOLEAN]

\* What a runner may rely on where it is.
RunnerKnows(b) ==
    /\ runner[b].pc # "stopped" => ValidCatalog(b)
    /\ runner[b].pc \in Holding => lock = b
    /\ runner[b].pc \in {"read", "adopt", "apply", "record"} => ledger # NoLedger
    /\ runner[b].pc \in {"apply", "record"} =>
          ValidLedger(b, ledger) /\ Len(ledger) < Len(Catalog[b])

\* The rows of a ledger: applied by the runner, or adopted with their markers.
Accounted(rows) == \A v \in DOMAIN rows : rows[v] \in schema \/ MarkedByHand(v)

MigrationTypeOK ==
    /\ runner \in [Binaries -> RunnerRow]
    /\ server \in [Binaries -> {"down", "checking", "ready", "unready"}]
    /\ ledger = NoLedger \/ ledger \in Seq(Digests)

MigrationInv ==
    /\ MigrationTypeOK
    /\ ledger = NoLedger => schema = byHand
    /\ LedgerTellsSchema
    /\ \A b \in Binaries : RunnerKnows(b)

(* A ledger with one more row. *)
LEMMA LedgerAppended ==
    ASSUME NEW s \in Seq(Digests), NEW d \in Digests
    PROVE  /\ Append(s, d) \in Seq(Digests)
           /\ Append(s, d) # NoLedger
           /\ Range(Append(s, d)) = Range(s) \cup {d}
           /\ IsInjective(s) /\ d \notin Range(s) => IsInjective(Append(s, d))
<1> DEFINE t == Append(s, d)
<1>1. /\ t \in Seq(Digests) /\ DOMAIN t = 1..(Len(s) + 1) /\ DOMAIN s = 1..Len(s)
      /\ \A i \in 1..Len(s) : t[i] = s[i]
      /\ t[Len(s) + 1] = d /\ Len(s) \in Nat
  OBVIOUS
<1> HIDE DEF t
<1>2. t # NoLedger
  <2>1. \A i \in DOMAIN t : t[i] \in Digests
    BY <1>1
  <2>2. 1 \in DOMAIN t
    BY <1>1
  <2>3. t[1] # "no ledger"
    BY <2>1, <2>2, CatalogAssumption
  <2>4. NoLedger[1] = "no ledger"
    BY DEF NoLedger
  <2> QED
    BY <2>3, <2>4
<1>3. Range(t) = Range(s) \cup {d}
  BY <1>1 DEF Range
<1>4. ASSUME IsInjective(s), d \notin Range(s)
      PROVE  IsInjective(t)
  <2> SUFFICES ASSUME NEW i \in DOMAIN t, NEW j \in DOMAIN t, t[i] = t[j]
               PROVE  i = j
    BY DEF IsInjective
  <2>1. \A k \in 1..Len(s) : s[k] # d
    BY <1>1, <1>4 DEF Range
  <2>2. CASE i \in 1..Len(s) /\ j \in 1..Len(s)
    BY <1>1, <1>4, <2>2 DEF IsInjective
  <2>3. CASE i = Len(s) + 1 \/ j = Len(s) + 1
    BY <1>1, <2>1, <2>3
  <2> QED
    BY <1>1, <2>2, <2>3
<1> QED
  BY <1>1, <1>2, <1>3, <1>4 DEF t

(* What the runner executes of a migration in a valid catalogue ends no
   transaction. *)
LEMMA PreparedHasNoCommit ==
    ASSUME NEW b \in Binaries, ValidCatalog(b), NEW d \in Range(Catalog[b])
    PROVE  "commit" \notin Range(Prepared(d))
<1>1. d \in Digests
  <2>1. Catalog[b] \in Seq(Digests)
    BY CatalogAssumption
  <2> QED
    BY <2>1 DEF Range
<1> DEFINE text == Text[d]
<1>2. text \in Seq({"ddl", "begin", "commit", "control"})
  BY <1>1, CatalogAssumption
<1>3. CASE Controls(text) = {}
  <2>1. \A i \in DOMAIN text : text[i] = "ddl"
    BY <1>3 DEF Controls
  <2>2. ~HasEnvelope(text)
    BY <1>2, <1>3 DEF HasEnvelope
  <2> QED
    BY <2>1, <2>2 DEF Prepared, Range
<1>4. CASE d \in Shipped /\ HasEnvelope(text)
  <2> DEFINE n == Len(text)
  <2> HIDE DEF text
  <2>1. n \in Nat /\ n > 2 /\ DOMAIN text = 1..n
    BY <1>2, <1>4 DEF HasEnvelope
  <2>2. \A i \in 2..(n - 1) : text[i] = "ddl"
    BY <1>4, <2>1 DEF HasEnvelope, Controls
  <2>3. Prepared(d) = SubSeq(text, 2, n - 1)
    BY <1>4 DEF Prepared, text
  <2>4. /\ DOMAIN SubSeq(text, 2, n - 1) = 1..(n - 2)
        /\ \A i \in 1..(n - 2) : SubSeq(text, 2, n - 1)[i] = text[i + 1]
    BY <1>2, <2>1
  <2>5. \A i \in 1..(n - 2) : text[i + 1] = "ddl"
    BY <2>1, <2>2
  <2> QED
    BY <2>3, <2>4, <2>5 DEF Range
<1> QED
  BY <1>3, <1>4 DEF ValidCatalog

(* A runner under the lock is the only one that knows anything. *)
LEMMA OthersWait ==
    ASSUME MigrationInv, NEW b \in Binaries, NEW c \in Binaries, c # b,
           lock = b \/ lock = NoOne
    PROVE  runner[c].pc \notin Holding
  BY CatalogAssumption DEF MigrationInv, RunnerKnows

(* A runner that returns: it knows nothing, and nobody else's lock is taken. *)
LEMMA ReturnKeeps ==
    ASSUME MigrationInv, NEW b \in Binaries, Return(b),
           server' = server, byHand' = byHand,
           MigrationTypeOK', ledger' = NoLedger => schema' = byHand', LedgerTellsSchema',
           (ledger' = ledger /\ schema' = schema) \/ lock = b
    PROVE  MigrationInv'
<1>1. runner' = [runner EXCEPT ![b] = Stopped] /\ lock' = IF lock = b THEN NoOne ELSE lock
  BY DEF Return
<1>2. runner'[b].pc = "stopped" /\ \A c \in Binaries : c # b => runner'[c] = runner[c]
  BY <1>1 DEF MigrationInv, MigrationTypeOK, Stopped
<1>3. RunnerKnows(b)'
  BY <1>2 DEF RunnerKnows, Holding
<1>4. ASSUME NEW c \in Binaries, c # b
      PROVE  RunnerKnows(c)'
  <2>1. RunnerKnows(c) /\ runner'[c] = runner[c]
    BY <1>2, <1>4 DEF MigrationInv
  <2>2. CASE lock = b
    <3>1. runner[c].pc \notin Holding
      BY <1>4, <2>2, OthersWait
    <3> QED
      BY <2>1, <3>1 DEF RunnerKnows, Holding, ValidCatalog
  <2>3. CASE lock # b /\ ledger' = ledger /\ schema' = schema
    BY <1>1, <2>1, <2>3 DEF RunnerKnows, ValidCatalog, ValidLedger, NextMigration
  <2> QED
    BY <2>2, <2>3
<1> QED
  BY <1>3, <1>4 DEF MigrationInv

(* A runner that moves on under the lock. *)
LEMMA HolderKeeps ==
    ASSUME MigrationInv, NEW b \in Binaries, NEW new \in RunnerRow,
           runner' = [runner EXCEPT ![b] = new],
           lock' = b, lock = b \/ lock = NoOne, byHand' = byHand, server' = server,
           MigrationTypeOK', ledger' = NoLedger => schema' = byHand', LedgerTellsSchema',
           ValidCatalog(b),
           new.pc \in {"read", "adopt", "apply", "record"} => ledger' # NoLedger,
           new.pc \in {"apply", "record"} =>
              ValidLedger(b, ledger') /\ Len(ledger') < Len(Catalog[b])
    PROVE  MigrationInv'
<1>1. runner'[b] = new /\ \A c \in Binaries : c # b => runner'[c] = runner[c]
  BY DEF MigrationInv, MigrationTypeOK
<1>2. RunnerKnows(b)'
  BY <1>1 DEF RunnerKnows, ValidCatalog, ValidLedger
<1>3. ASSUME NEW c \in Binaries, c # b
      PROVE  RunnerKnows(c)'
  <2>1. RunnerKnows(c) /\ runner'[c] = runner[c] /\ runner[c].pc \notin Holding
    BY <1>1, <1>3, OthersWait DEF MigrationInv
  <2> QED
    BY <2>1 DEF RunnerKnows, Holding, ValidCatalog
<1> QED
  BY <1>2, <1>3 DEF MigrationInv

(* A place of the runner. *)
LEMMA RunnerMoves ==
    ASSUME MigrationInv, NEW b \in Binaries, NEW pc \in RunnerPlaces
    PROVE  /\ runner[b] \in RunnerRow /\ RunnerKnows(b)
           /\ [runner[b] EXCEPT !.pc = pc] \in RunnerRow
           /\ [runner[b] EXCEPT !.pc = pc].pc = pc
  BY DEF MigrationInv, MigrationTypeOK, RunnerRow

(* A step of a runner that writes neither the schema nor the ledger keeps what is
   said of them. *)
LEMMA DatabaseKept ==
    ASSUME MigrationInv, UNCHANGED <<schema, byHand, ledger, server>>,
           runner' \in [Binaries -> RunnerRow]
    PROVE  /\ MigrationTypeOK' /\ LedgerTellsSchema'
           /\ ledger' = NoLedger => schema' = byHand'
  BY DEF MigrationInv, MigrationTypeOK, LedgerTellsSchema, MarkedByHand

(* The rows of a ledger that became longer. *)
LEMMA LedgerGrows ==
    ASSUME MigrationInv, UNCHANGED <<byHand, server>>, schema \subseteq schema',
           runner' \in [Binaries -> RunnerRow],
           ledger' \in Seq(Digests), ledger' # NoLedger,
           byHand \subseteq schema', schema' \ byHand \subseteq Range(ledger'),
           \A v \in DOMAIN ledger' : ledger'[v] \in schema' \/ MarkedByHand(v),
           IsInjective(ledger')
    PROVE  /\ MigrationTypeOK' /\ LedgerTellsSchema'
           /\ ledger' = NoLedger => schema' = byHand'
<1>1. \A v : MarkedByHand(v)' <=> MarkedByHand(v)
  BY DEF MarkedByHand
<1>2. \A b \in Binaries : server'[b] \in {"ready", "unready"} =>
        \A v \in DOMAIN Catalog[b] : Catalog[b][v] \in schema' \/ MarkedByHand(v)'
  BY <1>1 DEF MigrationInv, LedgerTellsSchema
<1>3. LedgerTellsSchema'
  BY <1>1, <1>2 DEF LedgerTellsSchema
<1> QED
  BY <1>3 DEF MigrationInv, MigrationTypeOK

(* Starting, waiting for the lock and getting it. *)
LEMMA BeginMigrationKeeps ==
    ASSUME MigrationInv, NEW b \in Binaries, NEW adopt \in BOOLEAN,
           MigrateUp(b, adopt) \/ AcquireLock(b) \/ LockTimesOut(b)
    PROVE  MigrationInv'
<1>1. CASE MigrateUp(b, adopt)
  <2> DEFINE new == [Stopped EXCEPT !.pc = "lock", !.adopt = adopt]
  <2>1. new \in RunnerRow /\ new.pc = "lock"
    BY DEF Stopped, RunnerRow, RunnerPlaces
  <2>2. /\ runner' = [runner EXCEPT ![b] = new] /\ ValidCatalog(b)
        /\ UNCHANGED <<schema, byHand, ledger, lock, server>>
    BY <1>1 DEF MigrateUp
  <2> HIDE DEF new
  <2>3. runner' \in [Binaries -> RunnerRow] /\ runner'[b] = new
        /\ \A c \in Binaries : c # b => runner'[c] = runner[c]
    BY <2>1, <2>2 DEF MigrationInv, MigrationTypeOK
  <2>4. ASSUME NEW c \in Binaries PROVE RunnerKnows(c)'
    <3>1. CASE c = b
      BY <2>1, <2>2, <2>3, <3>1 DEF RunnerKnows, Holding, ValidCatalog
    <3>2. CASE c # b
      BY <2>2, <2>3, <3>2 DEF MigrationInv, RunnerKnows, ValidCatalog, ValidLedger, NextMigration
    <3> QED
      BY <3>1, <3>2
  <2> QED
    BY <2>2, <2>3, <2>4, DatabaseKept DEF MigrationInv
<1>2. CASE AcquireLock(b)
  <2> DEFINE new == [runner[b] EXCEPT !.pc = "presence"]
  <2>1. new \in RunnerRow /\ new.pc = "presence" /\ RunnerKnows(b)
    BY RunnerMoves DEF RunnerPlaces
  <2>2. /\ runner[b].pc = "lock" /\ runner' = [runner EXCEPT ![b] = new]
        /\ lock = NoOne /\ lock' = b /\ UNCHANGED <<schema, byHand, ledger, server>>
    BY <1>2 DEF AcquireLock, Step
  <2> HIDE DEF new
  <2>3. runner' \in [Binaries -> RunnerRow]
    BY <2>1, <2>2 DEF MigrationInv, MigrationTypeOK
  <2>4. ValidCatalog(b)
    BY <2>1, <2>2 DEF RunnerKnows
  <2> QED
    BY <2>1, <2>2, <2>3, <2>4, DatabaseKept, HolderKeeps
<1>3. CASE LockTimesOut(b)
  <2>1. Return(b) /\ UNCHANGED <<schema, byHand, ledger, server>>
    BY <1>3 DEF LockTimesOut
  <2>2. Stopped \in RunnerRow /\ runner' \in [Binaries -> RunnerRow]
    BY <2>1 DEF Stopped, RunnerRow, RunnerPlaces, Return, MigrationInv, MigrationTypeOK
  <2> QED
    BY <2>1, <2>2, DatabaseKept, ReturnKeeps
<1> QED
  BY <1>1, <1>2, <1>3

(* A runner that returns without writing anything. *)
LEMMA ReturnsQuietly ==
    ASSUME MigrationInv, NEW b \in Binaries, Return(b),
           UNCHANGED <<schema, byHand, ledger, server>>
    PROVE  MigrationInv'
<1>1. Stopped \in RunnerRow /\ runner' \in [Binaries -> RunnerRow]
  BY DEF Stopped, RunnerRow, RunnerPlaces, Return, MigrationInv, MigrationTypeOK
<1> QED
  BY <1>1, DatabaseKept, ReturnKeeps

(* The first look at the database, and the ledger it may need. *)
LEMMA InspectKeeps ==
    ASSUME MigrationInv, NEW b \in Binaries, InspectPresence(b) \/ EnsureMigrationLedger(b)
    PROVE  MigrationInv'
<1>1. runner[b] \in RunnerRow /\ RunnerKnows(b)
  BY RunnerMoves DEF RunnerPlaces
<1>2. CASE InspectPresence(b)
  <2> DEFINE pc == IF ledger = NoLedger THEN "ensure" ELSE "read"
             found == SchemaExists
             new == [runner[b] EXCEPT !.pc = pc, !.found = found]
  <2>1. found \in BOOLEAN
    BY DEF SchemaExists
  <2>2. pc \in {"ensure", "read"} /\ (pc = "read" => ledger # NoLedger)
    OBVIOUS
  <2>3. runner' = [runner EXCEPT ![b].pc = pc, ![b].found = found]
    BY <1>2 DEF InspectPresence
  <2> HIDE DEF pc, found
  <2>4. runner' = [runner EXCEPT ![b] = new]
    BY <2>3 DEF MigrationInv, MigrationTypeOK
  <2>5. new \in RunnerRow /\ new.pc = pc
    BY <1>1, <2>1, <2>2 DEF RunnerRow, RunnerPlaces
  <2> HIDE DEF new
  <2>6. runner' \in [Binaries -> RunnerRow]
    BY <2>4, <2>5 DEF MigrationInv, MigrationTypeOK
  <2>7. /\ UNCHANGED <<schema, byHand, ledger, lock, server>>
        /\ lock = b /\ ValidCatalog(b)
    BY <1>1, <1>2 DEF InspectPresence, RunnerKnows, Holding
  <2> QED
    BY <2>2, <2>4, <2>5, <2>6, <2>7, DatabaseKept, HolderKeeps
<1>3. CASE EnsureMigrationLedger(b)
  <2> DEFINE new == [runner[b] EXCEPT !.pc = "read"]
  <2>1. new \in RunnerRow /\ new.pc = "read"
    BY RunnerMoves DEF RunnerPlaces
  <2>2. /\ runner' = [runner EXCEPT ![b] = new]
        /\ UNCHANGED <<schema, byHand, lock, server>>
        /\ lock = b /\ ValidCatalog(b)
        /\ ledger' = IF ledger = NoLedger THEN <<>> ELSE ledger
    BY <1>1, <1>3 DEF EnsureMigrationLedger, Step, RunnerKnows, Holding
  <2> HIDE DEF new
  <2>3. runner' \in [Binaries -> RunnerRow]
    BY <2>1, <2>2 DEF MigrationInv, MigrationTypeOK
  <2>4. CASE ledger # NoLedger
    <3>1. ledger' = ledger
      BY <2>2, <2>4
    <3> QED
      BY <2>1, <2>2, <2>3, <2>4, <3>1, DatabaseKept, HolderKeeps
  <2>5. CASE ledger = NoLedger
    <3>1. ledger' = <<>> /\ <<>> \in Seq(Digests) /\ Range(<<>>) = {} /\ IsInjective(<<>>)
      BY <2>2, <2>5 DEF Range, IsInjective
    <3>2. <<>> # NoLedger
      BY DEF NoLedger
    <3>3. schema = byHand
      BY <2>5 DEF MigrationInv
    <3>4. /\ schema' = byHand /\ DOMAIN ledger' = {}
          /\ \A v \in DOMAIN ledger' : ledger'[v] \in schema' \/ MarkedByHand(v)
      BY <2>2, <3>1, <3>3
    <3> QED
      BY <2>1, <2>2, <2>3, <3>1, <3>2, <3>4, LedgerGrows, HolderKeeps
  <2> QED
    BY <2>4, <2>5
<1> QED
  BY <1>2, <1>3

(* The ledger is read and judged. *)
LEMMA ReadKeeps ==
    ASSUME MigrationInv, NEW b \in Binaries, ReadMigrationLedger(b)
    PROVE  MigrationInv'
<1>1. runner[b] \in RunnerRow /\ RunnerKnows(b) /\ runner[b].pc = "read"
  BY RunnerMoves DEF RunnerPlaces, ReadMigrationLedger
<1>2. UNCHANGED <<schema, byHand, ledger, server>>
  BY DEF ReadMigrationLedger
<1>3. lock = b /\ ValidCatalog(b) /\ ledger # NoLedger
  BY <1>1 DEF RunnerKnows, Holding
<1>4. CASE Return(b)
  BY <1>2, <1>4, ReturnsQuietly
<1>5. ASSUME NEW pc \in {"adopt", "apply"}, Step(b, pc), lock' = lock,
             pc = "apply" => ValidLedger(b, ledger) /\ Len(ledger) # Len(Catalog[b])
      PROVE  MigrationInv'
  <2> DEFINE new == [runner[b] EXCEPT !.pc = pc]
  <2>1. new \in RunnerRow /\ new.pc = pc
    BY <1>5, RunnerMoves DEF RunnerPlaces
  <2>2. runner' = [runner EXCEPT ![b] = new]
    BY <1>5 DEF Step
  <2> HIDE DEF new
  <2>3. runner' \in [Binaries -> RunnerRow]
    BY <2>1, <2>2 DEF MigrationInv, MigrationTypeOK
  <2>4. pc = "apply" => Len(ledger) < Len(Catalog[b])
    <3>1. ledger \in Seq(Digests) /\ Catalog[b] \in Seq(Digests)
      BY <1>3, CatalogAssumption DEF MigrationInv, MigrationTypeOK
    <3>2. Len(ledger) \in Nat /\ Len(Catalog[b]) \in Nat
      BY <3>1
    <3> QED
      BY <1>5, <3>2 DEF ValidLedger
  <2> QED
    BY <1>2, <1>3, <1>5, <2>1, <2>2, <2>3, <2>4, DatabaseKept, HolderKeeps
<1> QED
  BY <1>4, <1>5 DEF ReadMigrationLedger

(* A hand-made schema is adopted whole or not at all. *)
LEMMA AdoptKeeps ==
    ASSUME MigrationInv, NEW b \in Binaries, AdoptExisting(b)
    PROVE  MigrationInv'
<1>1. /\ RunnerKnows(b) /\ runner[b].pc = "adopt" /\ Return(b)
      /\ UNCHANGED <<schema, byHand, server>>
      /\ ledger' = IF Adoptable(b) /\ ledger = <<>> THEN Catalog[b] ELSE ledger
  BY RunnerMoves DEF RunnerPlaces, AdoptExisting
<1>2. CASE Adoptable(b) /\ ledger = <<>>
  <2>1. /\ ledger' = Catalog[b] /\ Catalog[b] \in Seq(Digests) /\ IsInjective(Catalog[b])
        /\ lock = b /\ ValidCatalog(b) /\ ledger # NoLedger
    BY <1>1, <1>2, CatalogAssumption DEF RunnerKnows, Holding
  <2>2. \A v \in DOMAIN Catalog[b] : Probes[v] \subseteq Left(schema)
    BY <1>2 DEF Adoptable, AdoptionProbe
  <2>3. schema = byHand
    <3>1. byHand \subseteq schema /\ schema \ byHand \subseteq Range(<<>>)
      BY <1>2, <2>1 DEF MigrationInv, LedgerTellsSchema
    <3>2. Range(<<>>) = {}
      BY DEF Range
    <3> QED
      BY <3>1, <3>2
  <2>4. Catalog[b] # NoLedger
    <3>1. Len(Catalog[b]) > 0 /\ Catalog[b][1] \in Digests
      BY <2>1 DEF ValidCatalog
    <3>2. NoLedger[1] = "no ledger"
      BY DEF NoLedger
    <3> QED
      BY <3>1, <3>2, CatalogAssumption
  <2>5. Stopped \in RunnerRow /\ runner' \in [Binaries -> RunnerRow]
    BY <1>1 DEF Stopped, RunnerRow, RunnerPlaces, Return, MigrationInv, MigrationTypeOK
  <2>6. /\ schema' = byHand /\ schema \subseteq schema'
        /\ \A v \in DOMAIN ledger' : ledger'[v] \in schema' \/ MarkedByHand(v)
    BY <1>1, <2>1, <2>2, <2>3 DEF MarkedByHand
  <2> QED
    BY <1>1, <2>1, <2>4, <2>5, <2>6, LedgerGrows, ReturnKeeps
<1>3. CASE ~(Adoptable(b) /\ ledger = <<>>)
  BY <1>1, <1>3, ReturnsQuietly
<1> QED
  BY <1>2, <1>3

(* The migration that comes next. *)
LEMMA NextIsKnown ==
    ASSUME MigrationInv, NEW b \in Binaries, runner[b].pc \in {"apply", "record"}
    PROVE  /\ ledger \in Seq(Digests) /\ NextMigration(b) \in Digests
           /\ NextMigration(b) \in Range(Catalog[b]) /\ lock = b /\ ValidCatalog(b)
           /\ ValidLedger(b, ledger) /\ Len(ledger) < Len(Catalog[b])
           /\ byHand \subseteq schema /\ schema \ byHand \subseteq Range(ledger)
           /\ Accounted(ledger) /\ IsInjective(ledger)
<1>1. /\ ledger # NoLedger /\ lock = b /\ ValidCatalog(b)
      /\ ValidLedger(b, ledger) /\ Len(ledger) < Len(Catalog[b])
  BY RunnerMoves DEF RunnerPlaces, RunnerKnows, Holding, MigrationInv
<1>2. ledger \in Seq(Digests) /\ Catalog[b] \in Seq(Digests)
  BY <1>1, CatalogAssumption DEF MigrationInv, MigrationTypeOK
<1>3. Len(ledger) + 1 \in DOMAIN Catalog[b]
  BY <1>1, <1>2
<1>4. NextMigration(b) \in Range(Catalog[b]) /\ NextMigration(b) \in Digests
  BY <1>2, <1>3 DEF NextMigration, Range
<1> QED
  BY <1>1, <1>2, <1>4 DEF MigrationInv, LedgerTellsSchema, Accounted

(* The statements run and are not committed by themselves. *)
LEMMA ExecKeeps ==
    ASSUME MigrationInv, NEW b \in Binaries, ExecMigration(b)
    PROVE  MigrationInv'
<1> DEFINE d == NextMigration(b)
           new == [runner[b] EXCEPT !.pc = "record"]
<1>1. runner[b].pc = "apply" /\ UNCHANGED <<byHand, ledger, server>>
  BY DEF ExecMigration
<1>2. "commit" \notin Range(Prepared(d))
  BY <1>1, NextIsKnown, PreparedHasNoCommit
<1>3. CASE Return(b) /\ schema' = schema
  BY <1>1, <1>3, ReturnsQuietly
<1>4. CASE schema' = schema /\ Step(b, "record") /\ lock' = lock
  <2>1. new \in RunnerRow /\ new.pc = "record"
    BY RunnerMoves DEF RunnerPlaces
  <2>2. runner' = [runner EXCEPT ![b] = new]
    BY <1>4 DEF Step
  <2> HIDE DEF new
  <2>3. runner' \in [Binaries -> RunnerRow]
    BY <2>1, <2>2 DEF MigrationInv, MigrationTypeOK
  <2>4. ledger # NoLedger
    BY <1>1 DEF MigrationInv, RunnerKnows
  <2> QED
    BY <1>1, <1>4, <2>1, <2>2, <2>3, <2>4, NextIsKnown, DatabaseKept, HolderKeeps
<1> QED
  BY <1>2, <1>3, <1>4 DEF ExecMigration

(* The commit: the row and the statements become visible together, whether or not
   the runner hears of it. *)
LEMMA RecordKeeps ==
    ASSUME MigrationInv, NEW b \in Binaries, RecordMigration(b) \/ CommitAnswerLost(b)
    PROVE  MigrationInv'
<1> DEFINE d == NextMigration(b)
<1>1. /\ runner[b].pc = "record" /\ UNCHANGED <<byHand, server>>
      /\ schema' = schema \cup {d} /\ ledger' = Append(ledger, d)
  BY DEF RecordMigration, CommitAnswerLost
<1>2. /\ ledger \in Seq(Digests) /\ d \in Digests /\ lock = b /\ ValidCatalog(b)
      /\ ValidLedger(b, ledger) /\ Len(ledger) < Len(Catalog[b])
      /\ byHand \subseteq schema /\ schema \ byHand \subseteq Range(ledger)
      /\ Accounted(ledger) /\ IsInjective(ledger)
  BY <1>1, NextIsKnown
<1>3. d = Catalog[b][Len(ledger) + 1]
  BY DEF NextMigration
<1> HIDE DEF d
<1>4. d \notin Range(ledger)
  <2>1. Catalog[b] \in Seq(Digests) /\ IsInjective(Catalog[b])
    BY CatalogAssumption
  <2>2. /\ DOMAIN ledger = 1..Len(ledger) /\ Len(ledger) \in Nat /\ Len(Catalog[b]) \in Nat
        /\ DOMAIN Catalog[b] = 1..Len(Catalog[b])
    BY <1>2, <2>1
  <2>3. ASSUME NEW i \in DOMAIN ledger
        PROVE  ledger[i] # d
    <3>1. ledger[i] = Catalog[b][i] /\ i \in Nat /\ i < Len(ledger) + 1
      BY <1>2, <2>2, <2>3 DEF ValidLedger
    <3>2. i \in DOMAIN Catalog[b] /\ Len(ledger) + 1 \in DOMAIN Catalog[b]
      BY <1>2, <2>2, <3>1
    <3> QED
      BY <1>3, <2>1, <2>2, <3>1, <3>2 DEF IsInjective
  <2> QED
    BY <2>3 DEF Range
<1>5. /\ ledger' \in Seq(Digests) /\ ledger' # NoLedger /\ IsInjective(ledger')
      /\ byHand \subseteq schema' /\ schema' \ byHand \subseteq Range(ledger')
      /\ schema \subseteq schema'
      /\ \A v \in DOMAIN ledger' : ledger'[v] \in schema' \/ MarkedByHand(v)
  <2>1. /\ ledger' \in Seq(Digests) /\ ledger' # NoLedger /\ IsInjective(ledger')
        /\ Range(ledger') = Range(ledger) \cup {d}
    BY <1>1, <1>2, <1>4, LedgerAppended
  <2>2. /\ DOMAIN ledger' = 1..(Len(ledger) + 1) /\ DOMAIN ledger = 1..Len(ledger)
        /\ Len(ledger) \in Nat
        /\ \A i \in 1..Len(ledger) : ledger'[i] = ledger[i]
        /\ ledger'[Len(ledger) + 1] = d
    BY <1>1, <1>2
  <2>3. ASSUME NEW v \in DOMAIN ledger'
        PROVE  ledger'[v] \in schema' \/ MarkedByHand(v)
    <3>1. CASE v \in DOMAIN ledger
      BY <1>1, <1>2, <2>2, <3>1 DEF Accounted
    <3>2. CASE v = Len(ledger) + 1
      BY <1>1, <2>2, <3>2
    <3> QED
      BY <2>2, <2>3, <3>1, <3>2
  <2> QED
    BY <1>1, <1>2, <2>1, <2>3
<1>6. CASE Return(b)
  <2>1. Stopped \in RunnerRow /\ runner' \in [Binaries -> RunnerRow]
    BY <1>6 DEF Stopped, RunnerRow, RunnerPlaces, Return, MigrationInv, MigrationTypeOK
  <2> QED
    BY <1>1, <1>2, <1>5, <1>6, <2>1, LedgerGrows, ReturnKeeps
<1>7. CASE Len(ledger') # Len(Catalog[b]) /\ Step(b, "apply") /\ lock' = lock
  <2> DEFINE new == [runner[b] EXCEPT !.pc = "apply"]
  <2>1. new \in RunnerRow /\ new.pc = "apply"
    BY RunnerMoves DEF RunnerPlaces
  <2>2. runner' = [runner EXCEPT ![b] = new]
    BY <1>7 DEF Step
  <2> HIDE DEF new
  <2>3. runner' \in [Binaries -> RunnerRow]
    BY <2>1, <2>2 DEF MigrationInv, MigrationTypeOK
  <2>4. ValidLedger(b, ledger') /\ Len(ledger') < Len(Catalog[b])
    <3>1. Catalog[b] \in Seq(Digests)
      BY CatalogAssumption
    <3>2. /\ Len(ledger') = Len(ledger) + 1 /\ Len(ledger) \in Nat /\ Len(Catalog[b]) \in Nat
          /\ DOMAIN ledger' = 1..(Len(ledger) + 1)
          /\ \A i \in 1..Len(ledger) : ledger'[i] = ledger[i]
          /\ ledger'[Len(ledger) + 1] = d /\ DOMAIN ledger = 1..Len(ledger)
      BY <1>1, <1>2, <3>1
    <3>3. Len(ledger') < Len(Catalog[b])
      BY <1>2, <1>7, <3>2
    <3>4. \A i \in DOMAIN ledger' : ledger'[i] = Catalog[b][i]
      BY <1>2, <1>3, <3>2 DEF ValidLedger
    <3> QED
      BY <3>2, <3>3, <3>4 DEF ValidLedger
  <2> QED
    BY <1>1, <1>2, <1>5, <1>7, <2>1, <2>2, <2>3, <2>4, LedgerGrows, HolderKeeps
<1> QED
  BY <1>6, <1>7 DEF RecordMigration, CommitAnswerLost

(* A server sees only a ledger whose rows are accounted for. *)
LEMMA ServerKeeps ==
    ASSUME MigrationInv, NEW b \in Binaries,
           StartGateway(b) \/ CheckCurrent(b) \/ Readiness(b) \/ ServerStops(b)
    PROVE  MigrationInv'
<1>1. UNCHANGED <<schema, byHand, ledger, lock, runner>>
  BY DEF StartGateway, CheckCurrent, Readiness, ServerStops
<1>2. PICK s \in {"down", "checking", "ready", "unready"} :
        /\ server' = [server EXCEPT ![b] = s]
        /\ s \in {"ready", "unready"} =>
              SchemaIsCurrent(b) \/ server[b] \in {"ready", "unready"}
  BY DEF StartGateway, CheckCurrent, Readiness, ServerStops
<1>3. server' \in [Binaries -> {"down", "checking", "ready", "unready"}]
      /\ \A c \in Binaries : server'[c] = IF c = b THEN s ELSE server[c]
  BY <1>2 DEF MigrationInv, MigrationTypeOK
<1>4. SchemaIsCurrent(b) => Accounted(Catalog[b])
  BY DEF SchemaIsCurrent, MigrationInv, LedgerTellsSchema, Accounted
<1>5. LedgerTellsSchema'
  <2>1. \A c \in Binaries : server'[c] \in {"ready", "unready"} => Accounted(Catalog[c])
    BY <1>2, <1>3, <1>4 DEF MigrationInv, LedgerTellsSchema, Accounted
  <2>2. \A v : MarkedByHand(v)' <=> MarkedByHand(v)
    BY <1>1 DEF MarkedByHand
  <2> QED
    BY <1>1, <2>1, <2>2 DEF MigrationInv, LedgerTellsSchema, Accounted
<1>6. \A c \in Binaries : RunnerKnows(c)'
  BY <1>1 DEF MigrationInv, RunnerKnows, ValidCatalog, ValidLedger, NextMigration
<1> QED
  BY <1>1, <1>3, <1>5, <1>6 DEF MigrationInv, MigrationTypeOK

(* What the ledger tells of the schema, for every set of releases, every
   catalogue and every schema made by hand: what the runner recorded it applied,
   what it adopted has at least the markers of its version. *)
THEOREM MigrationLedgerTellsSchema == MigrationSpec => []LedgerTellsSchema
<1>1. MigrationInit => MigrationInv
  <2> SUFFICES ASSUME MigrationInit
               PROVE  MigrationInv
    OBVIOUS
  <2>1. Stopped \in RunnerRow /\ Stopped.pc = "stopped"
    BY DEF Stopped, RunnerRow, RunnerPlaces
  <2>2. MigrationTypeOK /\ LedgerTellsSchema
    BY <2>1 DEF MigrationInit, MigrationTypeOK, LedgerTellsSchema
  <2>3. \A b \in Binaries : RunnerKnows(b)
    BY <2>1 DEF MigrationInit, RunnerKnows, Holding
  <2> QED
    BY <2>2, <2>3 DEF MigrationInit, MigrationInv
<1>2. MigrationInv /\ [MigrationNext]_migrationVars => MigrationInv'
  <2> SUFFICES ASSUME MigrationInv, [MigrationNext]_migrationVars
               PROVE  MigrationInv'
    OBVIOUS
  <2>1. ASSUME NEW b \in Binaries, RunnerFails(b)
        PROVE  MigrationInv'
    BY <2>1, ReturnsQuietly DEF RunnerFails
  <2>2. CASE UNCHANGED migrationVars
    BY <2>2
    DEF migrationVars, MigrationInv, MigrationTypeOK, LedgerTellsSchema, MarkedByHand, RunnerKnows,
        ValidCatalog, ValidLedger, NextMigration
  <2> QED
    BY <2>1, <2>2, BeginMigrationKeeps, InspectKeeps, ReadKeeps, AdoptKeeps, ExecKeeps, RecordKeeps,
       ServerKeeps
    DEF MigrationNext
<1>3. MigrationInv => LedgerTellsSchema
  BY DEF MigrationInv
<1> QED
  BY <1>1, <1>2, <1>3, PTL DEF MigrationSpec

-----------------------------------------------------------------------------
(***************************************************************************)
(* Proof that a webhook is signed with a secret its endpoint keeps. The    *)
(* inductive invariant ties a row to the history of its secrets, a secret  *)
(* to the endpoint it was sealed for, and the attempt under way to an      *)
(* entry of that history.                                                  *)
(***************************************************************************)

EndpointEntry == [state : {"absent", "active", "revoked"}, key : 0..MaxSecrets,
                  previous : 0..MaxSecrets, expired : BOOLEAN]

ApiCall == [pc : {"idle", "generate", "refused", "store", "told", "lost", "more", "listed"},
            op : {"none", "create", "rotate"}, id : EndpointIds \cup {0},
            secret : 0..MaxSecrets, after : Nat, seen : SUBSET EndpointIds,
            due : SUBSET EndpointIds]

Flight == [pc : {"idle", "claimed", "signed"}, id : EndpointIds \cup {0},
           secret : 0..MaxSecrets, seen : Nat]

RegistryTypeOK ==
    /\ endpointRow \in [EndpointIds -> EndpointEntry]
    /\ sealedFor \in [Secrets -> EndpointIds \cup {0}]
    /\ apiCall \in [RegistryCalls -> ApiCall]
    /\ inFlight \in Flight
    /\ secretHistory \in [EndpointIds -> Seq(Secrets)]

\* A row has the last secret of its history, sealed for it, and the one before
\* until that is purged.
EndpointKeeps(e) ==
    LET r == endpointRow[e]
        n == Len(secretHistory[e])
    IN  /\ r.state # "absent" =>
             /\ n >= 1 /\ r.key = secretHistory[e][n] /\ sealedFor[r.key] = e
             /\ r.previous # NoSecret => n >= 2 /\ r.previous = secretHistory[e][n - 1]
        /\ r.expired => r.previous # NoSecret

\* What a call knows where it is.
Knows(a) ==
    /\ a.pc = "idle" => a = NoCall
    /\ a.pc \in {"generate", "store"} => a.id \in EndpointIds
    /\ a.pc = "store" => a.secret \in Secrets /\ sealedFor[a.secret] = a.id
    /\ a.pc = "told" =>
         /\ a.id \in EndpointIds /\ endpointRow[a.id].state # "absent"
         /\ \E i \in 1..Len(secretHistory[a.id]) : secretHistory[a.id][i] = a.secret
    /\ a.pc = "more" => \A e \in a.due : e \in KnownEndpoints /\ (e \in a.seen \/ e > a.after)
    /\ a.pc = "listed" => a.due \subseteq a.seen

CallKnows(c) == Knows(apiCall[c])

\* A creation is alone with its id, and the row is not there before it is stored.
CreatesAlone ==
    /\ \A c \in RegistryCalls :
          apiCall[c].op = "create" /\ apiCall[c].pc \in {"generate", "store"} =>
             endpointRow[apiCall[c].id].state = "absent"
    /\ \A c, d \in RegistryCalls :
          apiCall[c].op = "create" /\ apiCall[d].op = "create" /\ apiCall[c].id = apiCall[d].id => c = d

\* The attempt under way has a secret of its endpoint's history.
FlightKnows ==
    inFlight.pc # "idle" =>
        /\ inFlight.id \in EndpointIds /\ endpointRow[inFlight.id].state # "absent"
        /\ inFlight.seen \in 1..Len(secretHistory[inFlight.id])
        /\ inFlight.secret = secretHistory[inFlight.id][inFlight.seen]
        /\ sealedFor[inFlight.secret] = inFlight.id

RegistryInv ==
    /\ RegistryTypeOK /\ CreatesAlone /\ FlightKnows
    /\ \A e \in EndpointIds : EndpointKeeps(e)
    /\ \A c \in RegistryCalls : CallKnows(c)

(* The invariant says what the property asks. *)
LEMMA RegistryInvSuffices == RegistryInv => SignedWithKeptSecret
<1> SUFFICES ASSUME RegistryInv
             PROVE  SignedWithKeptSecret
  OBVIOUS
<1>1. inFlight.pc # "unsigned"
  BY DEF RegistryInv, RegistryTypeOK, Flight
<1>2. ASSUME inFlight.pc \in {"claimed", "signed"}
      PROVE  LET r == endpointRow[inFlight.id]
                 since == Len(secretHistory[inFlight.id]) - inFlight.seen
             IN  /\ since = 0 => inFlight.secret = r.key
                 /\ since = 1 => inFlight.secret = r.previous \/ r.previous = NoSecret
  <2> DEFINE e == inFlight.id
             h == secretHistory[e]
             k == inFlight.seen
  <2>1. /\ e \in EndpointIds /\ endpointRow[e].state # "absent" /\ k \in 1..Len(h)
        /\ inFlight.secret = h[k]
    BY <1>2 DEF RegistryInv, FlightKnows
  <2>2. h \in Seq(Secrets) /\ Len(h) \in Nat
    BY <2>1 DEF RegistryInv, RegistryTypeOK
  <2>3. /\ endpointRow[e].key = h[Len(h)]
        /\ endpointRow[e].previous # NoSecret => endpointRow[e].previous = h[Len(h) - 1]
    BY <2>1 DEF RegistryInv, EndpointKeeps
  <2> HIDE DEF e, h, k
  <2>4. Len(h) - k = 0 => k = Len(h)
    BY <2>1, <2>2
  <2>5. Len(h) - k = 1 => k = Len(h) - 1
    BY <2>1, <2>2
  <2>6. Len(h) - k = 0 => inFlight.secret = endpointRow[e].key
    BY <2>1, <2>3, <2>4
  <2>7. Len(h) - k = 1 => inFlight.secret = endpointRow[e].previous \/ endpointRow[e].previous = NoSecret
    BY <2>1, <2>3, <2>5
  <2> QED
    BY <2>6, <2>7 DEF e, h, k
<1>3. ASSUME NEW c \in RegistryCalls, apiCall[c].pc = "told"
      PROVE  LET h == secretHistory[apiCall[c].id] IN
             \E i \in 1..Len(h) : /\ h[i] = apiCall[c].secret
                                  /\ i = Len(h) => endpointRow[apiCall[c].id].key = h[i]
  <2>1. /\ apiCall[c].id \in EndpointIds /\ endpointRow[apiCall[c].id].state # "absent"
        /\ \E i \in 1..Len(secretHistory[apiCall[c].id]) :
              secretHistory[apiCall[c].id][i] = apiCall[c].secret
    BY <1>3 DEF RegistryInv, CallKnows, Knows
  <2> QED
    BY <2>1 DEF RegistryInv, EndpointKeeps
<1>4. \A c \in RegistryCalls : apiCall[c].pc = "listed" => apiCall[c].due \subseteq apiCall[c].seen
  BY DEF RegistryInv, CallKnows, Knows
<1>5. \A e \in EndpointIds : endpointRow[e].expired => endpointRow[e].previous # NoSecret
  BY DEF RegistryInv, EndpointKeeps
<1> QED
  BY <1>1, <1>2, <1>3, <1>4, <1>5 DEF SignedWithKeptSecret

\* Rows, histories and scopes only grow.
RegistryGrows ==
    /\ \A e \in EndpointIds : endpointRow[e].state # "absent" =>
          /\ endpointRow'[e].state # "absent"
          /\ Len(secretHistory[e]) <= Len(secretHistory'[e])
          /\ \A i \in 1..Len(secretHistory[e]) : secretHistory'[e][i] = secretHistory[e][i]
    /\ \A s \in Secrets : sealedFor[s] # 0 => sealedFor'[s] = sealedFor[s]

(* While they grow, an attempt under way and the calls that rest know what they
   knew. *)
LEMMA FlightRests ==
    ASSUME RegistryInv, RegistryTypeOK', RegistryGrows, inFlight' = inFlight
    PROVE  FlightKnows'
<1> SUFFICES ASSUME inFlight.pc # "idle"
             PROVE  FlightKnows'
  BY DEF FlightKnows
<1> DEFINE e == inFlight.id
           k == inFlight.seen
<1>1. /\ e \in EndpointIds /\ endpointRow[e].state # "absent"
      /\ k \in 1..Len(secretHistory[e]) /\ inFlight.secret = secretHistory[e][k]
      /\ sealedFor[inFlight.secret] = e
  BY DEF RegistryInv, FlightKnows
<1>2. secretHistory[e] \in Seq(Secrets) /\ secretHistory'[e] \in Seq(Secrets)
  BY <1>1 DEF RegistryInv, RegistryTypeOK
<1>3. Len(secretHistory[e]) \in Nat /\ Len(secretHistory'[e]) \in Nat
  BY <1>2
<1>4. inFlight.secret \in Secrets
  BY <1>1, <1>2
<1>5. e # 0
  BY <1>1, RegistryAssumption
<1>6. sealedFor'[inFlight.secret] = e
  BY <1>1, <1>4, <1>5 DEF RegistryGrows
<1>7. k \in 1..Len(secretHistory'[e]) /\ inFlight.secret = secretHistory'[e][k]
  BY <1>1, <1>3 DEF RegistryGrows
<1>8. endpointRow'[e].state # "absent"
  BY <1>1 DEF RegistryGrows
<1> QED
  BY <1>1, <1>6, <1>7, <1>8 DEF FlightKnows

(* The same of a call that rests. *)
LEMMA CallRests ==
    ASSUME RegistryInv, RegistryTypeOK', RegistryGrows,
           NEW c \in RegistryCalls, apiCall'[c] = apiCall[c]
    PROVE  CallKnows(c)'
<1> DEFINE a == apiCall[c]
<1>1. a \in ApiCall /\ CallKnows(c)
  BY DEF RegistryInv, RegistryTypeOK
<1>2. KnownEndpoints \subseteq KnownEndpoints'
  BY DEF RegistryGrows, KnownEndpoints
<1>3. a.pc = "store" => sealedFor'[a.secret] = a.id
  <2> SUFFICES ASSUME a.pc = "store"
               PROVE  sealedFor'[a.secret] = a.id
    OBVIOUS
  <2>1. a.secret \in Secrets /\ sealedFor[a.secret] = a.id /\ a.id \in EndpointIds
    BY <1>1 DEF CallKnows, Knows
  <2>2. a.id # 0
    BY <2>1, RegistryAssumption
  <2> QED
    BY <2>1, <2>2 DEF RegistryGrows
<1>4. ASSUME a.pc = "told"
      PROVE  /\ a.id \in EndpointIds /\ endpointRow'[a.id].state # "absent"
             /\ \E i \in 1..Len(secretHistory'[a.id]) : secretHistory'[a.id][i] = a.secret
  <2>1. /\ a.id \in EndpointIds /\ endpointRow[a.id].state # "absent"
        /\ \E i \in 1..Len(secretHistory[a.id]) : secretHistory[a.id][i] = a.secret
    BY <1>1, <1>4 DEF CallKnows, Knows
  <2>2. PICK i \in 1..Len(secretHistory[a.id]) : secretHistory[a.id][i] = a.secret
    BY <2>1
  <2>3. Len(secretHistory[a.id]) \in Nat /\ Len(secretHistory'[a.id]) \in Nat
    BY <2>1 DEF RegistryInv, RegistryTypeOK
  <2>4. i \in 1..Len(secretHistory'[a.id]) /\ secretHistory'[a.id][i] = a.secret
    BY <2>1, <2>2, <2>3 DEF RegistryGrows
  <2> QED
    BY <2>1, <2>4 DEF RegistryGrows
<1> QED
  BY <1>1, <1>2, <1>3, <1>4 DEF CallKnows, Knows

(* A call that moves while the rows and the scopes stay. *)
LEMMA CallWritten ==
    ASSUME RegistryInv, NEW c \in RegistryCalls, NEW a \in ApiCall,
           apiCall' = [apiCall EXCEPT ![c] = a],
           UNCHANGED <<endpointRow, sealedFor, inFlight, secretHistory>>,
           Knows(a),
           a.op = "create" =>
              /\ a.pc \in {"generate", "store"} => endpointRow[a.id].state = "absent"
              /\ \A d \in RegistryCalls \ {c} : apiCall[d].op = "create" => apiCall[d].id # a.id
    PROVE  RegistryInv'
<1>1. RegistryTypeOK'
  BY DEF RegistryInv, RegistryTypeOK
<1>2. apiCall'[c] = a /\ \A d \in RegistryCalls \ {c} : apiCall'[d] = apiCall[d]
  BY DEF RegistryInv, RegistryTypeOK
<1>3. RegistryGrows
  <2>1. \A e \in EndpointIds : Len(secretHistory[e]) \in Nat
    BY DEF RegistryInv, RegistryTypeOK
  <2> QED
    BY <2>1 DEF RegistryGrows
<1>4. FlightKnows'
  BY <1>1, <1>3, FlightRests
<1>5. \A e \in EndpointIds : EndpointKeeps(e)'
  BY DEF RegistryInv, EndpointKeeps
<1>6. ASSUME NEW d \in RegistryCalls
      PROVE  CallKnows(d)'
  <2>1. CASE d = c
    BY <1>2, <2>1 DEF CallKnows, Knows, KnownEndpoints
  <2>2. CASE d # c
    BY <1>1, <1>2, <1>3, <2>2, CallRests
  <2> QED
    BY <2>1, <2>2
<1>7. CreatesAlone'
  BY <1>2 DEF RegistryInv, CreatesAlone
<1> QED
  BY <1>1, <1>4, <1>5, <1>6, <1>7 DEF RegistryInv

(* The call that does nothing has its type. *)
LEMMA NoCallIsApiCall == NoCall \in ApiCall
<1>1. 0 \in 0..MaxSecrets
  BY RegistryAssumption
<1> QED
  BY <1>1 DEF ApiCall, NoCall, NoSecret

(* A creation takes an id that no row and no other creation has. *)
LEMMA CreateWebhookKeeps ==
    ASSUME RegistryInv, NEW c \in RegistryCalls, NEW acceptable \in BOOLEAN,
           CreateWebhook(c, acceptable)
    PROVE  RegistryInv'
<1>1. PICK e \in EndpointIds \ KnownEndpoints :
          /\ \A d \in RegistryCalls : apiCall[d].op = "create" => apiCall[d].id # e
          /\ apiCall' = [apiCall EXCEPT ![c] = [NoCall EXCEPT
               !.pc = IF acceptable THEN "generate" ELSE "refused", !.op = "create", !.id = e]]
  BY DEF CreateWebhook
<1> DEFINE a == [NoCall EXCEPT !.pc = IF acceptable THEN "generate" ELSE "refused", !.op = "create", !.id = e]
<1>2. a \in ApiCall /\ a.op = "create" /\ a.id = e /\ a.pc \in {"generate", "refused"}
  <2> DEFINE pc == IF acceptable THEN "generate" ELSE "refused"
  <2>1. pc \in {"generate", "refused"}
    OBVIOUS
  <2> HIDE DEF pc
  <2>2. [NoCall EXCEPT !.pc = pc, !.op = "create", !.id = e] \in ApiCall
    BY <2>1, NoCallIsApiCall DEF ApiCall
  <2>3. [NoCall EXCEPT !.pc = pc, !.op = "create", !.id = e].op = "create"
        /\ [NoCall EXCEPT !.pc = pc, !.op = "create", !.id = e].id = e
        /\ [NoCall EXCEPT !.pc = pc, !.op = "create", !.id = e].pc = pc
    BY DEF NoCall
  <2> QED
    BY <2>1, <2>2, <2>3 DEF pc
<1>3. Knows(a)
  BY <1>2 DEF Knows
<1>4. endpointRow[e].state = "absent"
  BY <1>1 DEF KnownEndpoints
<1>5. apiCall' = [apiCall EXCEPT ![c] = a]
  BY <1>1
<1> HIDE DEF a
<1> QED
  BY <1>1, <1>2, <1>3, <1>4, <1>5, CallWritten DEF CreateWebhook

(* A rotation names an endpoint. *)
LEMMA RotateWebhookKeeps ==
    ASSUME RegistryInv, NEW c \in RegistryCalls, NEW e \in EndpointIds, RotateWebhook(c, e)
    PROVE  RegistryInv'
<1> DEFINE a == [NoCall EXCEPT !.pc = "generate", !.op = "rotate", !.id = e]
<1>1. a \in ApiCall /\ a.op = "rotate" /\ a.id = e /\ a.pc = "generate"
  <2>1. a \in ApiCall
    BY NoCallIsApiCall DEF ApiCall
  <2> QED
    BY <2>1 DEF NoCall
<1>2. Knows(a)
  BY <1>1 DEF Knows
<1>3. apiCall' = [apiCall EXCEPT ![c] = a]
  BY DEF RotateWebhook
<1> HIDE DEF a
<1> QED
  BY <1>1, <1>2, <1>3, CallWritten DEF RotateWebhook

(* A caller that goes on has nothing. *)
LEMMA CallEndsKeeps ==
    ASSUME RegistryInv, NEW c \in RegistryCalls, CallEnds(c)
    PROVE  RegistryInv'
<1>1. NoCall \in ApiCall /\ NoCall.op = "none" /\ NoCall.pc = "idle"
  BY RegistryAssumption DEF ApiCall, NoCall, NoSecret
<1>2. Knows(NoCall)
  BY <1>1 DEF Knows
<1> QED
  BY <1>1, <1>2, CallWritten DEF CallEnds

(* A call that is refused. *)
LEMMA RefusedKeeps ==
    ASSUME RegistryInv, NEW c \in RegistryCalls, CallMoves(c, "refused"),
           UNCHANGED <<endpointRow, sealedFor, inFlight, secretHistory>>
    PROVE  RegistryInv'
<1> DEFINE a == [apiCall[c] EXCEPT !.pc = "refused"]
<1>1. apiCall[c] \in ApiCall
  BY DEF RegistryInv, RegistryTypeOK
<1>2. a \in ApiCall /\ a.op = apiCall[c].op /\ a.id = apiCall[c].id /\ a.pc = "refused"
  BY <1>1 DEF ApiCall
<1>3. Knows(a)
  BY <1>2 DEF Knows
<1>4. apiCall' = [apiCall EXCEPT ![c] = a]
  BY <1>1 DEF CallMoves, RegistryInv, RegistryTypeOK
<1>5. a.op = "create" => \A d \in RegistryCalls \ {c} : apiCall[d].op = "create" => apiCall[d].id # a.id
  BY <1>2 DEF RegistryInv, CreatesAlone
<1> HIDE DEF a
<1> QED
  BY <1>2, <1>3, <1>4, <1>5, CallWritten

(* A listing: what was there when it began is on a page read or after the
   cursor. *)
LEMMA ListWebhooksKeeps ==
    ASSUME RegistryInv, NEW c \in RegistryCalls, ListWebhooks(c)
    PROVE  RegistryInv'
<1> DEFINE b == apiCall[c]
           K == KnownEndpoints
           page == EndpointPage(b.after)
           more == \E e \in K : e > b.after /\ e \notin page
           last == CHOOSE e \in page : \A d \in page : d <= e
           due == IF b.pc = "more" THEN b.due ELSE K
           after == IF more THEN last ELSE b.after
           pc == IF more THEN "more" ELSE "listed"
           a == [b EXCEPT !.pc = pc, !.due = due, !.seen = b.seen \cup page, !.after = after]
<1>1. b \in ApiCall /\ b.after \in Nat /\ b.seen \in SUBSET EndpointIds /\ b.due \in SUBSET EndpointIds
      /\ Knows(b) /\ b.pc \in {"idle", "more"}
  BY DEF RegistryInv, RegistryTypeOK, ApiCall, CallKnows, ListWebhooks
<1>2. K \in SUBSET Nat /\ K \in SUBSET EndpointIds
  BY RegistryAssumption DEF KnownEndpoints
<1>3. page = PageAfter(K, b.after, EndpointsPerPage)
  BY DEF EndpointPage, PageAfter, UpTo
<1>4. page \subseteq K
  BY DEF EndpointPage
<1>5. more => last \in page /\ \A d \in page : d <= last
  BY <1>1, <1>2, <1>3, PageHasLast, RegistryAssumption
<1>6. after \in Nat
  BY <1>1, <1>2, <1>4, <1>5
<1>7. a \in ApiCall
  BY <1>1, <1>2, <1>4, <1>6 DEF ApiCall
<1>8. /\ a.pc = pc /\ a.due = due /\ a.seen = b.seen \cup page /\ a.after = after
      /\ a.op = b.op /\ a.id = b.id
  BY <1>1 DEF ApiCall
<1>9. apiCall' = [apiCall EXCEPT ![c] = a]
  <2>1. apiCall' = [apiCall EXCEPT ![c].pc = pc, ![c].due = due, ![c].seen = @ \cup page, ![c].after = after]
    BY DEF ListWebhooks
  <2>2. apiCall \in [RegistryCalls -> ApiCall]
    BY DEF RegistryInv, RegistryTypeOK
  <2> HIDE DEF pc, due, page, after
  <2> QED
    BY <1>1, <2>1, <2>2
\* What was due is known, and read or after the old cursor.
<1>10. \A e \in due : e \in K /\ (e \in b.seen \/ e > b.after)
  <2>1. CASE b.pc = "more"
    BY <1>1, <2>1 DEF Knows
  <2>2. CASE b.pc = "idle"
    <3>1. b.after = 0
      BY <1>1, <2>2 DEF Knows, NoCall
    <3>2. due = K
      BY <2>2
    <3>3. \A e \in K : e > 0
      BY RegistryAssumption DEF KnownEndpoints
    <3> QED
      BY <3>1, <3>2, <3>3
  <2> QED
    BY <1>1, <2>1, <2>2
<1>11. ASSUME NEW e \in due, more
       PROVE  e \in b.seen \cup page \/ e > last
  <2> SUFFICES ASSUME e > b.after, ~(e > last)
               PROVE  e \in page
    BY <1>10
  <2>1. e \in Nat /\ e \in K /\ last \in Nat /\ last \in page
    BY <1>2, <1>4, <1>5, <1>10, <1>11
  <2>2. e <= last
    BY <2>1
  <2> HIDE DEF page, last
  <2> QED
    BY <1>1, <1>2, <1>3, <2>1, <2>2, PageIsClosed, RegistryAssumption
<1>12. ~more => due \subseteq b.seen \cup page
  BY <1>10
<1>13. Knows(a)
  <2>1. CASE more
    BY <1>8, <1>10, <1>11, <2>1 DEF Knows
  <2>2. CASE ~more
    BY <1>8, <1>12, <2>2 DEF Knows
  <2> QED
    BY <2>1, <2>2
<1>14. /\ a.pc \notin {"generate", "store"}
       /\ a.op = "create" => \A d \in RegistryCalls \ {c} : apiCall[d].op = "create" => apiCall[d].id # a.id
  BY <1>8 DEF RegistryInv, CreatesAlone
<1> HIDE DEF a
<1> QED
  BY <1>7, <1>9, <1>13, <1>14, CallWritten DEF ListWebhooks

(* A secret is drawn once, and sealed for the endpoint of its call. *)
LEMMA GenerateSecretKeeps ==
    ASSUME RegistryInv, NEW c \in RegistryCalls, GenerateSecret(c)
    PROVE  RegistryInv'
<1>1. CASE CallMoves(c, "refused") /\ UNCHANGED sealedFor
  BY <1>1, RefusedKeeps DEF GenerateSecret
<1>2. CASE \E s \in Secrets :
             /\ sealedFor[s] = 0 /\ \A t \in Secrets : t < s => sealedFor[t] # 0
             /\ sealedFor' = [sealedFor EXCEPT ![s] = apiCall[c].id]
             /\ apiCall' = [apiCall EXCEPT ![c].pc = "store", ![c].secret = s]
  <2> DEFINE b == apiCall[c]
  <2>1. PICK s \in Secrets :
             /\ sealedFor[s] = 0
             /\ sealedFor' = [sealedFor EXCEPT ![s] = b.id]
             /\ apiCall' = [apiCall EXCEPT ![c].pc = "store", ![c].secret = s]
    BY <1>2
  <2> DEFINE a == [b EXCEPT !.pc = "store", !.secret = s]
  <2>2. b \in ApiCall /\ b.pc = "generate" /\ b.id \in EndpointIds
    BY DEF GenerateSecret, RegistryInv, RegistryTypeOK, CallKnows, Knows
  <2>3. s \in 0..MaxSecrets
    BY RegistryAssumption DEF Secrets
  <2>4. a \in ApiCall /\ a.pc = "store" /\ a.secret = s /\ a.id = b.id /\ a.op = b.op
    BY <2>2, <2>3 DEF ApiCall
  <2>5. apiCall' = [apiCall EXCEPT ![c] = a]
    BY <2>1, <2>2 DEF RegistryInv, RegistryTypeOK
  <2> HIDE DEF a
  <2>6. apiCall'[c] = a /\ \A d \in RegistryCalls \ {c} : apiCall'[d] = apiCall[d]
    BY <2>5 DEF RegistryInv, RegistryTypeOK
  <2>7. RegistryTypeOK'
    BY <2>1, <2>2, <2>4, <2>5 DEF GenerateSecret, RegistryInv, RegistryTypeOK
  <2>8. sealedFor'[s] = b.id /\ \A t \in Secrets \ {s} : sealedFor'[t] = sealedFor[t]
    BY <2>1 DEF RegistryInv, RegistryTypeOK
  <2>9. RegistryGrows
    <3>1. \A e \in EndpointIds : Len(secretHistory[e]) \in Nat
      BY DEF RegistryInv, RegistryTypeOK
    <3>2. \A t \in Secrets : sealedFor[t] # 0 => sealedFor'[t] = sealedFor[t]
      BY <2>1, <2>8
    <3> QED
      BY <3>1, <3>2 DEF RegistryGrows, GenerateSecret
  <2>10. FlightKnows'
    BY <2>7, <2>9, FlightRests DEF GenerateSecret
  <2>11. ASSUME NEW e \in EndpointIds
         PROVE  EndpointKeeps(e)'
    <3>1. EndpointKeeps(e) /\ endpointRow'[e] = endpointRow[e] /\ secretHistory'[e] = secretHistory[e]
      BY DEF RegistryInv, GenerateSecret
    <3>2. ASSUME endpointRow[e].state # "absent"
          PROVE  sealedFor'[endpointRow[e].key] = e
      <4>1. /\ sealedFor[endpointRow[e].key] = e /\ Len(secretHistory[e]) >= 1
            /\ endpointRow[e].key = secretHistory[e][Len(secretHistory[e])]
        BY <3>1, <3>2 DEF EndpointKeeps
      <4>2. secretHistory[e] \in Seq(Secrets)
        BY DEF RegistryInv, RegistryTypeOK
      <4>3. Len(secretHistory[e]) \in 1..Len(secretHistory[e])
        BY <4>1, <4>2
      <4>4. endpointRow[e].key \in Secrets
        BY <4>1, <4>2, <4>3
      <4>5. e # 0
        BY RegistryAssumption
      <4> QED
        BY <2>9, <4>1, <4>4, <4>5 DEF RegistryGrows
    <3> QED
      BY <3>1, <3>2 DEF EndpointKeeps
  <2>12. ASSUME NEW d \in RegistryCalls
         PROVE  CallKnows(d)'
    <3>1. CASE d = c
      BY <2>2, <2>4, <2>6, <2>8, <3>1 DEF CallKnows, Knows
    <3>2. CASE d # c
      BY <2>6, <2>7, <2>9, <3>2, CallRests
    <3> QED
      BY <3>1, <3>2
  <2>13. CreatesAlone'
    BY <2>2, <2>4, <2>6 DEF RegistryInv, CreatesAlone, GenerateSecret
  <2> QED
    BY <2>7, <2>10, <2>11, <2>12, <2>13 DEF RegistryInv
<1> QED
  BY <1>1, <1>2 DEF GenerateSecret

(* A secret that is stored becomes the last one of its endpoint's history, and
   its caller is told it or not. *)
LEMMA SecretStored ==
    ASSUME RegistryInv, NEW c \in RegistryCalls, apiCall[c].pc = "store",
           NEW row \in EndpointEntry, NEW h \in Seq(Secrets),
           endpointRow' = [endpointRow EXCEPT ![apiCall[c].id] = row],
           secretHistory' = [secretHistory EXCEPT ![apiCall[c].id] = h],
           SecretAnswered(c), UNCHANGED <<sealedFor, inFlight>>,
           row.state = "active", row.key = apiCall[c].secret, ~row.expired,
           Len(h) >= 1, h[Len(h)] = apiCall[c].secret,
           row.previous # NoSecret => Len(h) >= 2 /\ row.previous = h[Len(h) - 1],
           endpointRow[apiCall[c].id].state = "absent" => apiCall[c].op = "create",
           endpointRow[apiCall[c].id].state # "absent" =>
              /\ Len(secretHistory[apiCall[c].id]) <= Len(h)
              /\ \A i \in 1..Len(secretHistory[apiCall[c].id]) : h[i] = secretHistory[apiCall[c].id][i]
    PROVE  RegistryInv'
<1> DEFINE b == apiCall[c]
           e == b.id
           toldCall == [b EXCEPT !.pc = "told"]
           lostCall == [b EXCEPT !.pc = "lost", !.secret = NoSecret]
<1>1. b \in ApiCall /\ e \in EndpointIds /\ b.secret \in Secrets /\ sealedFor[b.secret] = e
  BY DEF RegistryInv, RegistryTypeOK, CallKnows, Knows
<1>2. Len(h) \in Nat /\ Len(h) \in 1..Len(h)
  OBVIOUS
<1>3. /\ toldCall \in ApiCall /\ toldCall.pc = "told" /\ toldCall.id = e /\ toldCall.secret = b.secret
      /\ toldCall.op = b.op
      /\ lostCall \in ApiCall /\ lostCall.pc = "lost" /\ lostCall.id = e /\ lostCall.op = b.op
  <2>1. 0 \in 0..MaxSecrets
    BY RegistryAssumption
  <2> QED
    BY <1>1, <2>1 DEF ApiCall, NoSecret
<1>4. apiCall' = [apiCall EXCEPT ![c] = toldCall] \/ apiCall' = [apiCall EXCEPT ![c] = lostCall]
  <2>1. apiCall \in [RegistryCalls -> ApiCall]
    BY DEF RegistryInv, RegistryTypeOK
  <2>2. CASE CallMoves(c, "told")
    BY <2>1, <2>2 DEF CallMoves
  <2>3. CASE apiCall' = [apiCall EXCEPT ![c].pc = "lost", ![c].secret = NoSecret]
    BY <2>1, <2>3
  <2> QED
    BY <2>2, <2>3 DEF SecretAnswered
<1> HIDE DEF toldCall, lostCall
<1>5. PICK a \in {toldCall, lostCall} : apiCall' = [apiCall EXCEPT ![c] = a]
  BY <1>4
<1>6. a \in ApiCall /\ a.id = e /\ a.op = b.op /\ a.pc \in {"told", "lost"} /\ (a.pc = "told" => a.secret = b.secret)
  BY <1>3, <1>5
<1>7. apiCall'[c] = a /\ \A d \in RegistryCalls \ {c} : apiCall'[d] = apiCall[d]
  BY <1>5 DEF RegistryInv, RegistryTypeOK
<1>8. RegistryTypeOK'
  BY <1>1, <1>5, <1>6 DEF RegistryInv, RegistryTypeOK
<1>9. /\ endpointRow'[e] = row /\ secretHistory'[e] = h
      /\ \A x \in EndpointIds \ {e} : endpointRow'[x] = endpointRow[x] /\ secretHistory'[x] = secretHistory[x]
  BY <1>1 DEF RegistryInv, RegistryTypeOK
<1>10. \A x \in EndpointIds : Len(secretHistory[x]) \in Nat
  BY DEF RegistryInv, RegistryTypeOK
<1>11. RegistryGrows
  <2> SUFFICES ASSUME NEW x \in EndpointIds, endpointRow[x].state # "absent"
               PROVE  /\ endpointRow'[x].state # "absent"
                      /\ Len(secretHistory[x]) <= Len(secretHistory'[x])
                      /\ \A i \in 1..Len(secretHistory[x]) : secretHistory'[x][i] = secretHistory[x][i]
    BY DEF RegistryGrows
  <2>1. CASE x = e
    BY <1>9, <2>1
  <2>2. CASE x # e
    BY <1>9, <1>10, <2>2
  <2> QED
    BY <2>1, <2>2
<1>12. FlightKnows'
  BY <1>8, <1>11, FlightRests
<1>13. ASSUME NEW x \in EndpointIds
       PROVE  EndpointKeeps(x)'
  <2>1. CASE x = e
    BY <1>1, <1>9, <2>1 DEF EndpointKeeps
  <2>2. CASE x # e
    BY <1>9, <2>2 DEF RegistryInv, EndpointKeeps
  <2> QED
    BY <2>1, <2>2
<1>14. ASSUME NEW d \in RegistryCalls
       PROVE  CallKnows(d)'
  <2>1. CASE d = c
    BY <1>1, <1>2, <1>6, <1>7, <1>9, <2>1 DEF CallKnows, Knows
  <2>2. CASE d # c
    BY <1>7, <1>8, <1>11, <2>2, CallRests
  <2> QED
    BY <2>1, <2>2
<1>15. CreatesAlone'
  <2>1. ASSUME NEW d \in RegistryCalls, apiCall'[d].op = "create", apiCall'[d].pc \in {"generate", "store"}
        PROVE  endpointRow'[apiCall'[d].id].state = "absent"
    <3>1. d # c /\ apiCall'[d] = apiCall[d]
      BY <1>6, <1>7, <2>1
    <3>2. endpointRow[apiCall[d].id].state = "absent" /\ apiCall[d].id \in EndpointIds
      BY <2>1, <3>1 DEF RegistryInv, CreatesAlone, CallKnows, Knows
    <3>3. apiCall[d].id # e
      BY <1>1, <2>1, <3>1, <3>2 DEF RegistryInv, CreatesAlone
    <3> QED
      BY <1>9, <3>1, <3>2, <3>3
  <2>2. \A d, f \in RegistryCalls :
          apiCall'[d].op = "create" /\ apiCall'[f].op = "create" /\ apiCall'[d].id = apiCall'[f].id => d = f
    BY <1>6, <1>7 DEF RegistryInv, CreatesAlone
  <2> QED
    BY <2>1, <2>2 DEF CreatesAlone
<1> QED
  BY <1>8, <1>12, <1>13, <1>14, <1>15 DEF RegistryInv

(* A new row has its first secret. *)
LEMMA StoreEndpointKeeps ==
    ASSUME RegistryInv, NEW c \in RegistryCalls, StoreEndpoint(c)
    PROVE  RegistryInv'
<1> DEFINE b == apiCall[c]
           e == b.id
           row == [NoEndpoint EXCEPT !.state = "active", !.key = b.secret]
           h == <<b.secret>>
<1>1. CASE CallMoves(c, "refused") /\ UNCHANGED <<endpointRow, secretHistory, lostAnswers>>
  BY <1>1, RefusedKeeps DEF StoreEndpoint
<1>2. CASE /\ endpointRow' = [endpointRow EXCEPT ![e] = row]
           /\ secretHistory' = [secretHistory EXCEPT ![e] = h]
           /\ SecretAnswered(c)
  <2>1. b.pc = "store" /\ b.op = "create" /\ b.secret \in Secrets /\ e \in EndpointIds
    BY DEF StoreEndpoint, RegistryInv, CallKnows, Knows
  <2>2. endpointRow[e].state = "absent"
    BY <2>1 DEF RegistryInv, CreatesAlone
  <2>3. b.secret \in 0..MaxSecrets /\ 0 \in 0..MaxSecrets
    BY <2>1, RegistryAssumption DEF Secrets
  <2>4. /\ row \in EndpointEntry /\ row.state = "active" /\ row.key = b.secret /\ ~row.expired
        /\ row.previous = NoSecret
    BY <2>3 DEF EndpointEntry, NoEndpoint, NoSecret
  <2>5. h \in Seq(Secrets) /\ Len(h) = 1 /\ h[Len(h)] = b.secret
    BY <2>1
  <2>6. UNCHANGED <<sealedFor, inFlight>>
    BY DEF StoreEndpoint
  <2> HIDE DEF row, h
  <2>7. Len(h) >= 1 /\ (row.previous # NoSecret => Len(h) >= 2 /\ row.previous = h[Len(h) - 1])
    BY <2>4, <2>5
  <2> QED
    BY <1>2, <2>1, <2>2, <2>4, <2>5, <2>6, <2>7, SecretStored
<1> QED
  BY <1>1, <1>2 DEF StoreEndpoint

(* A rotation adds a secret, and the row keeps the one before it. *)
LEMMA RotateEndpointKeeps ==
    ASSUME RegistryInv, NEW c \in RegistryCalls, RotateEndpoint(c)
    PROVE  RegistryInv'
<1> DEFINE b == apiCall[c]
           e == b.id
           old == endpointRow[e]
           row == Rotated(old, b.secret)
           h == Append(secretHistory[e], b.secret)
<1>1. CASE CallMoves(c, "refused") /\ UNCHANGED <<endpointRow, secretHistory, lostAnswers>>
  BY <1>1, RefusedKeeps DEF RotateEndpoint
<1>2. CASE endpointRow[e].state = "active"
  <2>1. b.pc = "store" /\ b.op = "rotate" /\ b.secret \in Secrets /\ e \in EndpointIds
    BY DEF RotateEndpoint, RegistryInv, CallKnows, Knows
  <2>2. /\ endpointRow' = [endpointRow EXCEPT ![e] = row]
        /\ secretHistory' = [secretHistory EXCEPT ![e] = h]
        /\ SecretAnswered(c) /\ UNCHANGED <<sealedFor, inFlight>>
    BY <1>2, <2>1 DEF RotateEndpoint, RegistryInv, RegistryTypeOK
  <2>3. b.secret \in 0..MaxSecrets /\ old \in EndpointEntry
    <3>1. b.secret \in 0..MaxSecrets
      BY <2>1, RegistryAssumption DEF Secrets
    <3>2. old \in EndpointEntry
      BY <2>1 DEF RegistryInv, RegistryTypeOK
    <3> QED
      BY <3>1, <3>2
  <2>4. /\ row \in EndpointEntry /\ row.state = "active" /\ row.key = b.secret /\ ~row.expired
        /\ row.previous = old.key
    BY <1>2, <2>3 DEF EndpointEntry, Rotated
  <2> DEFINE g == secretHistory[e]
             n == Len(g)
  <2>5. g \in Seq(Secrets) /\ n \in Nat
    BY <2>1 DEF RegistryInv, RegistryTypeOK
  <2>6. n >= 1 /\ old.key = g[n]
    BY <1>2, <2>1 DEF RegistryInv, EndpointKeeps
  <2>7. h \in Seq(Secrets) /\ Len(h) = n + 1 /\ h[n + 1] = b.secret /\ \A i \in 1..n : h[i] = g[i]
    BY <2>1, <2>5
  <2> HIDE DEF row, h, n, g
  <2>8. Len(h) >= 2 /\ n = Len(h) - 1 /\ n \in 1..n /\ h[Len(h) - 1] = old.key /\ h[Len(h)] = b.secret /\ n <= Len(h)
    BY <2>5, <2>6, <2>7
  <2>9. Len(secretHistory[e]) <= Len(h) /\ \A i \in 1..Len(secretHistory[e]) : h[i] = secretHistory[e][i]
    BY <2>7, <2>8 DEF n, g
  <2>10. Len(h) >= 1
    BY <2>5, <2>7, <2>8
  <2>11. endpointRow[apiCall[c].id].state = "absent" => apiCall[c].op = "create"
    BY <1>2
  <2> QED
    BY <2>1, <2>2, <2>4, <2>7, <2>8, <2>9, <2>10, <2>11, SecretStored
<1> QED
  BY <1>1, <1>2 DEF RotateEndpoint

(* Deletions, the end of a grace period and the purge change a row and keep its
   current secret. *)
LEMMA RowsRest ==
    ASSUME RegistryInv, endpointRow' \in [EndpointIds -> EndpointEntry],
           UNCHANGED <<sealedFor, apiCall, inFlight, secretHistory>>,
           \A e \in EndpointIds :
              /\ endpointRow'[e].state = "absent" <=> endpointRow[e].state = "absent"
              /\ endpointRow'[e].key = endpointRow[e].key
              /\ endpointRow'[e].previous \in {endpointRow[e].previous, NoSecret}
              /\ endpointRow'[e].expired => endpointRow'[e].previous # NoSecret
    PROVE  RegistryInv'
<1>1. RegistryTypeOK'
  BY DEF RegistryInv, RegistryTypeOK
<1>2. RegistryGrows
  <2>1. \A e \in EndpointIds : Len(secretHistory[e]) \in Nat
    BY DEF RegistryInv, RegistryTypeOK
  <2> QED
    BY <2>1 DEF RegistryGrows
<1>3. FlightKnows'
  BY <1>1, <1>2, FlightRests
<1>4. \A c \in RegistryCalls : CallKnows(c)'
  BY <1>1, <1>2, CallRests
<1>5. ASSUME NEW e \in EndpointIds
      PROVE  EndpointKeeps(e)'
  BY DEF RegistryInv, EndpointKeeps
<1>6. CreatesAlone'
  BY DEF RegistryInv, CreatesAlone, CallKnows, Knows
<1> QED
  BY <1>1, <1>3, <1>4, <1>5, <1>6 DEF RegistryInv

(* A deletion. *)
LEMMA DeleteWebhookKeeps ==
    ASSUME RegistryInv, NEW e \in EndpointIds, DeleteWebhook(e)
    PROVE  RegistryInv'
<1> DEFINE row == [endpointRow[e] EXCEPT !.state = "revoked"]
<1>1. endpointRow[e] \in EndpointEntry /\ endpointRow \in [EndpointIds -> EndpointEntry]
  BY DEF RegistryInv, RegistryTypeOK
<1>2. /\ row \in EndpointEntry /\ row.state = "revoked" /\ row.key = endpointRow[e].key
      /\ row.previous = endpointRow[e].previous /\ row.expired = endpointRow[e].expired
  BY <1>1 DEF EndpointEntry
<1>3. endpointRow' = [endpointRow EXCEPT ![e] = row]
  BY <1>1 DEF DeleteWebhook
<1> HIDE DEF row
<1>4. /\ endpointRow' \in [EndpointIds -> EndpointEntry] /\ endpointRow'[e] = row
      /\ \A x \in EndpointIds \ {e} : endpointRow'[x] = endpointRow[x]
  BY <1>1, <1>2, <1>3
<1>5. \A x \in EndpointIds : endpointRow[x].expired => endpointRow[x].previous # NoSecret
  BY DEF RegistryInv, EndpointKeeps
<1> QED
  BY <1>2, <1>4, <1>5, RowsRest DEF DeleteWebhook

(* The end of a grace period. *)
LEMMA GraceEndsKeeps ==
    ASSUME RegistryInv, NEW e \in EndpointIds, GraceEnds(e)
    PROVE  RegistryInv'
<1> DEFINE row == [endpointRow[e] EXCEPT !.expired = TRUE]
<1>1. endpointRow[e] \in EndpointEntry /\ endpointRow \in [EndpointIds -> EndpointEntry]
  BY DEF RegistryInv, RegistryTypeOK
<1>2. /\ row \in EndpointEntry /\ row.state = endpointRow[e].state /\ row.key = endpointRow[e].key
      /\ row.previous = endpointRow[e].previous
  BY <1>1 DEF EndpointEntry
<1>3. endpointRow' = [endpointRow EXCEPT ![e] = row]
  BY <1>1 DEF GraceEnds
<1> HIDE DEF row
<1>4. /\ endpointRow' \in [EndpointIds -> EndpointEntry] /\ endpointRow'[e] = row
      /\ \A x \in EndpointIds \ {e} : endpointRow'[x] = endpointRow[x]
  BY <1>1, <1>2, <1>3
<1>5. \A x \in EndpointIds : endpointRow[x].expired => endpointRow[x].previous # NoSecret
  BY DEF RegistryInv, EndpointKeeps
<1> QED
  BY <1>2, <1>4, <1>5, RowsRest DEF GraceEnds

(* The purge drops the previous secrets whose grace period ended. *)
LEMMA PurgeKeeps ==
    ASSUME RegistryInv, PurgeExpiredSecrets
    PROVE  RegistryInv'
<1>1. ASSUME NEW e \in EndpointIds
      PROVE  /\ PurgedRow(endpointRow[e]) \in EndpointEntry
             /\ PurgedRow(endpointRow[e]).state = endpointRow[e].state
             /\ PurgedRow(endpointRow[e]).key = endpointRow[e].key
             /\ PurgedRow(endpointRow[e]).previous \in {endpointRow[e].previous, NoSecret}
             /\ ~PurgedRow(endpointRow[e]).expired
  <2>1. endpointRow[e] \in EndpointEntry /\ 0 \in 0..MaxSecrets
    BY RegistryAssumption DEF RegistryInv, RegistryTypeOK
  <2>2. CASE endpointRow[e].expired
    BY <2>1, <2>2 DEF PurgedRow, EndpointEntry, NoSecret
  <2>3. CASE ~endpointRow[e].expired
    BY <2>1, <2>3 DEF PurgedRow
  <2> QED
    BY <2>2, <2>3
<1>2. endpointRow' = [e \in EndpointIds |-> PurgedRow(endpointRow[e])]
  BY DEF PurgeExpiredSecrets
<1>3. \A e \in EndpointIds : endpointRow'[e] = PurgedRow(endpointRow[e])
  BY <1>2
<1>4. endpointRow' \in [EndpointIds -> EndpointEntry]
  BY <1>1, <1>2
<1> QED
  BY <1>1, <1>3, <1>4, RowsRest DEF PurgeExpiredSecrets

(* The worker: a claim takes the current secret, which is sealed for its
   endpoint, so the attempt opens it. *)
LEMMA WorkerKeeps ==
    ASSUME RegistryInv,
           \/ \E e \in EndpointIds : ClaimSecret(e)
           \/ SignAttempt
           \/ AttemptEnded
    PROVE  RegistryInv'
<1>1. UNCHANGED <<endpointRow, sealedFor, apiCall, secretHistory>>
  BY DEF ClaimSecret, SignAttempt, AttemptEnded
<1>2. inFlight' \in Flight /\ FlightKnows'
  <2>1. ASSUME NEW e \in EndpointIds, ClaimSecret(e)
        PROVE  inFlight' \in Flight /\ FlightKnows'
    <3> DEFINE n == Len(secretHistory[e])
    <3>1. endpointRow[e] \in EndpointEntry /\ secretHistory[e] \in Seq(Secrets) /\ n \in Nat
      BY DEF RegistryInv, RegistryTypeOK
    <3>2. /\ n >= 1 /\ endpointRow[e].key = secretHistory[e][n] /\ sealedFor[endpointRow[e].key] = e
          /\ endpointRow[e].state # "absent"
      BY <2>1 DEF ClaimSecret, RegistryInv, EndpointKeeps
    <3>3. inFlight' = [pc |-> "claimed", id |-> e, secret |-> endpointRow[e].key, seen |-> n]
      BY <2>1 DEF ClaimSecret
    <3>4. inFlight' \in Flight
      BY <3>1, <3>3 DEF Flight, EndpointEntry
    <3>5. n \in 1..n
      BY <3>1, <3>2
    <3> HIDE DEF n
    <3> QED
      BY <1>1, <3>2, <3>3, <3>4, <3>5 DEF FlightKnows, n
  <2>2. ASSUME SignAttempt
        PROVE  inFlight' \in Flight /\ FlightKnows'
    <3>1. inFlight \in Flight /\ inFlight.pc = "claimed" /\ sealedFor[inFlight.secret] = inFlight.id
      BY <2>2 DEF SignAttempt, RegistryInv, RegistryTypeOK, FlightKnows
    <3>2. inFlight' = [inFlight EXCEPT !.pc = "signed"]
      BY <2>2, <3>1 DEF SignAttempt
    <3>3. /\ inFlight' \in Flight /\ inFlight'.pc = "signed" /\ inFlight'.id = inFlight.id
          /\ inFlight'.secret = inFlight.secret /\ inFlight'.seen = inFlight.seen
      BY <3>1, <3>2 DEF Flight
    <3> QED
      BY <1>1, <3>1, <3>3 DEF RegistryInv, FlightKnows
  <2>3. ASSUME AttemptEnded
        PROVE  inFlight' \in Flight /\ FlightKnows'
    <3>1. 0 \in 0..MaxSecrets /\ inFlight' = NoFlight
      BY <2>3, RegistryAssumption DEF AttemptEnded
    <3> QED
      BY <3>1 DEF NoFlight, Flight, FlightKnows, NoSecret
  <2> QED
    BY <2>1, <2>2, <2>3
<1>3. RegistryTypeOK'
  BY <1>1, <1>2 DEF RegistryInv, RegistryTypeOK
<1>4. \A e \in EndpointIds : EndpointKeeps(e)'
  BY <1>1 DEF RegistryInv, EndpointKeeps
<1>5. \A c \in RegistryCalls : CallKnows(c)'
  BY <1>1 DEF RegistryInv, CallKnows, Knows, KnownEndpoints
<1>6. CreatesAlone'
  BY <1>1 DEF RegistryInv, CreatesAlone
<1> QED
  BY <1>2, <1>3, <1>4, <1>5, <1>6 DEF RegistryInv

(* A gateway without endpoints. *)
LEMMA RegistryInitKeeps == RegistryInit => RegistryInv
<1> SUFFICES ASSUME RegistryInit
             PROVE  RegistryInv
  OBVIOUS
<1>1. NoEndpoint \in EndpointEntry /\ NoFlight \in Flight /\ NoFlight.pc = "idle"
  <2>1. 0 \in 0..MaxSecrets
    BY RegistryAssumption
  <2> QED
    BY <2>1 DEF NoEndpoint, EndpointEntry, NoFlight, Flight, NoSecret
<1>2. RegistryTypeOK
  BY <1>1, NoCallIsApiCall DEF RegistryInit, RegistryTypeOK
<1>3. \A e \in EndpointIds : EndpointKeeps(e)
  BY DEF RegistryInit, EndpointKeeps, NoEndpoint
<1>4. \A c \in RegistryCalls : apiCall[c] = NoCall
  BY DEF RegistryInit
<1>5. NoCall.pc = "idle" /\ NoCall.op = "none"
  BY DEF NoCall
<1>6. \A c \in RegistryCalls : CallKnows(c)
  BY <1>4, <1>5 DEF CallKnows, Knows
<1>7. CreatesAlone
  BY <1>4, <1>5 DEF CreatesAlone
<1>8. FlightKnows
  BY <1>1 DEF RegistryInit, FlightKnows
<1> QED
  BY <1>2, <1>3, <1>6, <1>7, <1>8 DEF RegistryInv

(* Every step of the registry keeps the invariant. *)
LEMMA RegistryStep == RegistryInv /\ [RegistryNext]_registryVars => RegistryInv'
<1> SUFFICES ASSUME RegistryInv, [RegistryNext]_registryVars
             PROVE  RegistryInv'
  OBVIOUS
<1>1. CASE UNCHANGED registryVars
  BY <1>1 DEF registryVars, RegistryInv, RegistryTypeOK, CreatesAlone, FlightKnows, EndpointKeeps,
              CallKnows, Knows, KnownEndpoints
<1>2. CASE RegistryNext
  BY <1>2, CreateWebhookKeeps, RotateWebhookKeeps, GenerateSecretKeeps, StoreEndpointKeeps,
     RotateEndpointKeeps, ListWebhooksKeeps, CallEndsKeeps, DeleteWebhookKeeps, GraceEndsKeeps,
     PurgeKeeps, WorkerKeeps DEF RegistryNext
<1> QED
  BY <1>1, <1>2

(* Signing and listing, for any number of callers, endpoints and secrets: a
   request is signed with a secret of its own endpoint that the row still has
   unless two rotations or the end of the grace period came after the claim; who
   was told a secret has the endpoint's or one a later rotation replaced; a
   listing has every endpoint that existed when it began. *)
THEOREM RegistrySignedWithKeptSecret == RegistrySpec => []SignedWithKeptSecret
<1>1. RegistryInv => SignedWithKeptSecret
  BY RegistryInvSuffices
<1> QED
  BY RegistryInitKeeps, RegistryStep, <1>1, PTL DEF RegistrySpec

-----------------------------------------------------------------------------
(***************************************************************************)
(* Proof that a committed command is settled. The inductive invariant says *)
(* of a consumer that nothing before its runs is left behind, and that     *)
(* whatever lies before its position is settled or still in its fetch, or  *)
(* the partition is paused.                                                *)
(***************************************************************************)

Run == [partition : Partitions, next : Nat \ {0}, last : Nat]

CommandTypeOK ==
    /\ fetched \in [Processes -> Seq(Run)]
    /\ stored \in [Processes -> BOOLEAN]
    /\ position \in [Processes -> [Partitions -> Nat]]
    /\ committedOffset \in [Partitions -> Nat]
    /\ paused \in [Processes -> SUBSET Partitions]

\* The records of a partition before i are audited or dead letters.
SettledBelow(p, i) == \A j \in Nat : 1 <= j /\ j < i => <<p, j>> \in audit \cup commandDLQ

\* What a consumer will handle of a partition begins where nothing is left behind.
RunIsSafe(r) == r.next <= r.last /\ SettledBelow(r.partition, r.next)

\* Whatever lies before the position of a partition is settled or in the fetch,
\* or the partition is paused.
Waits(o, p, i) ==
    \E k \in DOMAIN fetched[o] :
        fetched[o][k].partition = p /\ fetched[o][k].next <= i /\ i <= fetched[o][k].last

PositionIsSafe(o, p) ==
    p \notin paused[o] =>
        \A i \in Nat : 1 <= i /\ i <= position[o][p] =>
            <<p, i>> \in audit \cup commandDLQ \/ Waits(o, p, i)

ConsumerIsSafe(o) ==
    /\ \A k \in DOMAIN fetched[o] : RunIsSafe(fetched[o][k])
    /\ stored[o] => fetched[o] # <<>> /\ CurrentRecord(o) \in audit \cup commandDLQ
    /\ \A p \in Partitions : PositionIsSafe(o, p)

CommandInv ==
    /\ CommandTypeOK
    /\ \A p \in Partitions : SettledBelow(p, committedOffset[p] + 1)
    /\ \A o \in Processes : ConsumerIsSafe(o)

(* The invariant is what the property asks. *)
LEMMA CommandInvSuffices == CommandInv => CommittedIsSettled
<1> SUFFICES ASSUME CommandInv, NEW p \in Partitions, NEW i \in 1..committedOffset[p]
             PROVE  <<p, i>> \in audit \cup commandDLQ
  BY DEF CommittedIsSettled
<1>1. committedOffset[p] \in Nat
  BY DEF CommandInv, CommandTypeOK
<1>2. i \in Nat /\ 1 <= i /\ i < committedOffset[p] + 1
  BY <1>1
<1> QED
  BY <1>2 DEF CommandInv, SettledBelow

\* What is settled stays settled.
SettledGrows == audit \cup commandDLQ \subseteq audit' \cup commandDLQ'

(* A consumer that rests keeps what it knows while settled records stay so. *)
LEMMA ConsumerRests ==
    ASSUME CommandInv, SettledGrows, NEW o \in Processes,
           fetched'[o] = fetched[o], stored'[o] = stored[o],
           \A p \in Partitions : position'[o][p] = position[o][p] /\ (p \in paused'[o] <=> p \in paused[o])
    PROVE  ConsumerIsSafe(o)'
<1>1. \A p, i : SettledBelow(p, i) => SettledBelow(p, i)'
  BY DEF SettledBelow, SettledGrows
<1>2. \A k \in DOMAIN fetched'[o] : RunIsSafe(fetched[o][k])'
  BY <1>1 DEF CommandInv, ConsumerIsSafe, RunIsSafe
<1>3. stored'[o] => fetched'[o] # <<>> /\ CurrentRecord(o)' \in audit' \cup commandDLQ'
  BY DEF CommandInv, ConsumerIsSafe, SettledGrows, CurrentRecord
<1>4. ASSUME NEW p \in Partitions
      PROVE  PositionIsSafe(o, p)'
  BY DEF CommandInv, ConsumerIsSafe, PositionIsSafe, Waits, SettledGrows
<1> QED
  BY <1>2, <1>3, <1>4 DEF ConsumerIsSafe

(* A restart forgets the fetch and goes back to the committed offsets. *)
LEMMA RebornKeeps ==
    ASSUME CommandInv, NEW o \in Processes, Reborn(o)
    PROVE  CommandInv'
<1>1. UNCHANGED <<audit, commandDLQ, committedOffset>>
  BY DEF Reborn, commandStore
<1>2. CommandTypeOK'
  BY <1>1 DEF CommandInv, CommandTypeOK, Reborn
<1>3. /\ fetched'[o] = <<>> /\ ~stored'[o] /\ paused'[o] = {} /\ position'[o] = committedOffset
      /\ \A w \in Processes \ {o} : /\ fetched'[w] = fetched[w] /\ stored'[w] = stored[w]
                                   /\ paused'[w] = paused[w] /\ position'[w] = position[w]
  BY DEF CommandInv, CommandTypeOK, Reborn
<1>4. ConsumerIsSafe(o)'
  <2>1. ASSUME NEW p \in Partitions
        PROVE  PositionIsSafe(o, p)'
    <3>1. committedOffset[p] \in Nat /\ SettledBelow(p, committedOffset[p] + 1)
      BY DEF CommandInv, CommandTypeOK
    <3> QED
      BY <1>1, <1>3, <3>1 DEF PositionIsSafe, SettledBelow
  <2> QED
    BY <1>3, <2>1 DEF ConsumerIsSafe
<1>5. ASSUME NEW w \in Processes \ {o}
      PROVE  ConsumerIsSafe(w)'
  BY <1>1, <1>3, ConsumerRests DEF SettledGrows
<1> QED
  BY <1>1, <1>2, <1>4, <1>5 DEF CommandInv, SettledBelow

(* The outbox does not touch the commands, nor does a signature that lapses. *)
LEMMA CommandsRest ==
    ASSUME CommandInv, UNCHANGED <<commandVars, audit, commandDLQ>>
    PROVE  CommandInv'
BY DEF CommandInv, CommandTypeOK, SettledBelow, ConsumerIsSafe, RunIsSafe, PositionIsSafe, Waits,
       CurrentRecord, commandVars

(* A partition that moves is read from its committed offset. *)
LEMMA AssignKeeps ==
    ASSUME CommandInv, NEW o \in Processes, NEW p \in Partitions, Assign(p, o)
    PROVE  CommandInv'
<1>1. UNCHANGED <<audit, commandDLQ, committedOffset, fetched, stored>>
  BY DEF Assign, commandStore
<1>2. CommandTypeOK'
  <2>1. committedOffset[p] \in Nat
    BY DEF CommandInv, CommandTypeOK
  <2> QED
    BY <1>1, <2>1 DEF CommandInv, CommandTypeOK, Assign
<1>3. /\ position'[o][p] = committedOffset[p] /\ p \notin paused'[o]
      /\ \A q \in Partitions \ {p} : position'[o][q] = position[o][q] /\ (q \in paused'[o] <=> q \in paused[o])
      /\ \A w \in Processes \ {o} : position'[w] = position[w] /\ paused'[w] = paused[w]
  BY DEF CommandInv, CommandTypeOK, Assign
<1>4. ConsumerIsSafe(o)'
  <2>1. ASSUME NEW q \in Partitions
        PROVE  PositionIsSafe(o, q)'
    <3>1. CASE q = p
      <4>1. committedOffset[p] \in Nat /\ SettledBelow(p, committedOffset[p] + 1)
        BY DEF CommandInv, CommandTypeOK
      <4> QED
        BY <1>1, <1>3, <3>1, <4>1 DEF PositionIsSafe, SettledBelow
    <3>2. CASE q # p
      BY <1>1, <1>3, <3>2 DEF CommandInv, ConsumerIsSafe, PositionIsSafe, Waits
    <3> QED
      BY <3>1, <3>2
  <2>2. \A k \in DOMAIN fetched'[o] : RunIsSafe(fetched[o][k])'
    BY <1>1 DEF CommandInv, ConsumerIsSafe, RunIsSafe, SettledBelow
  <2>3. stored'[o] => fetched'[o] # <<>> /\ CurrentRecord(o)' \in audit' \cup commandDLQ'
    BY <1>1 DEF CommandInv, ConsumerIsSafe, CurrentRecord
  <2> QED
    BY <2>1, <2>2, <2>3 DEF ConsumerIsSafe
<1>5. ASSUME NEW w \in Processes \ {o}
      PROVE  ConsumerIsSafe(w)'
  BY <1>1, <1>3, ConsumerRests DEF SettledGrows
<1> QED
  BY <1>1, <1>2, <1>4, <1>5 DEF CommandInv, SettledBelow

(* A record that is handled is settled. *)
LEMMA HandleKeeps ==
    ASSUME CommandInv, NEW o \in Processes, Handle(o)
    PROVE  CommandInv'
<1>1. UNCHANGED <<committedOffset, fetched, paused, position>> /\ stored' = [stored EXCEPT ![o] = TRUE]
  BY DEF Handle
<1>2. SettledGrows /\ CurrentRecord(o) \in audit' \cup commandDLQ' /\ fetched[o] # <<>>
  BY DEF Handle, SettledGrows
<1>3. CommandTypeOK'
  BY <1>1 DEF CommandInv, CommandTypeOK
<1>4. \A p, i : SettledBelow(p, i) => SettledBelow(p, i)'
  BY <1>2 DEF SettledBelow, SettledGrows
<1>5. ConsumerIsSafe(o)'
  <2>1. \A k \in DOMAIN fetched'[o] : RunIsSafe(fetched[o][k])'
    BY <1>1, <1>4 DEF CommandInv, ConsumerIsSafe, RunIsSafe
  <2>2. fetched'[o] # <<>> /\ CurrentRecord(o)' \in audit' \cup commandDLQ'
    BY <1>1, <1>2 DEF CurrentRecord
  <2>3. ASSUME NEW p \in Partitions
        PROVE  PositionIsSafe(o, p)'
    BY <1>1, <1>2 DEF CommandInv, ConsumerIsSafe, PositionIsSafe, Waits, SettledGrows
  <2> QED
    BY <2>1, <2>2, <2>3 DEF ConsumerIsSafe
<1>6. ASSUME NEW w \in Processes \ {o}
      PROVE  ConsumerIsSafe(w)'
  <2>1. stored'[w] = stored[w]
    BY <1>1 DEF CommandInv, CommandTypeOK
  <2> QED
    BY <1>1, <1>2, <2>1, ConsumerRests
<1> QED
  BY <1>1, <1>3, <1>4, <1>5, <1>6 DEF CommandInv

(* A record is quarantined: the rest of its partition is skipped. *)
LEMMA QuarantineKeeps ==
    ASSUME CommandInv, NEW o \in Processes, Quarantine(o)
    PROVE  CommandInv'
<1> DEFINE f == fetched[o]
           q == Head(f).partition
<1>1. /\ UNCHANGED <<committedOffset, position, stored, audit, commandDLQ>>
      /\ f # <<>> /\ ~stored[o]
      /\ paused' = [paused EXCEPT ![o] = paused[o] \cup {q}]
      /\ fetched' = [fetched EXCEPT ![o] = Tail(f)]
  BY DEF Quarantine, commandStore, AfterBarrier, CurrentRecord
<1>2. f \in Seq(Run) /\ Tail(f) \in Seq(Run) /\ Head(f) \in Run /\ q \in Partitions
  <2>1. f \in Seq(Run)
    BY DEF CommandInv, CommandTypeOK
  <2>2. Head(f) \in Run /\ Tail(f) \in Seq(Run)
    BY <1>1, <2>1
  <2> QED
    BY <2>1, <2>2 DEF Run
<1>3. CommandTypeOK'
  BY <1>1, <1>2 DEF CommandInv, CommandTypeOK
<1>4. /\ fetched'[o] = Tail(f) /\ paused'[o] = paused[o] \cup {q}
      /\ \A w \in Processes \ {o} : fetched'[w] = fetched[w] /\ paused'[w] = paused[w]
  BY <1>1 DEF CommandInv, CommandTypeOK
<1>5. \A k \in DOMAIN Tail(f) : k + 1 \in DOMAIN f /\ Tail(f)[k] = f[k + 1]
  BY <1>1, <1>2
<1>6. \A k \in DOMAIN f : (k = 1 /\ f[k] = Head(f)) \/ (k - 1 \in DOMAIN Tail(f) /\ Tail(f)[k - 1] = f[k])
  BY <1>1, <1>2
<1>7. ConsumerIsSafe(o)'
  <2>1. ASSUME NEW k \in DOMAIN fetched'[o]
        PROVE  RunIsSafe(fetched[o][k])'
    <3>1. k + 1 \in DOMAIN f /\ fetched'[o][k] = f[k + 1]
      BY <1>4, <1>5
    <3>2. RunIsSafe(f[k + 1])
      BY <3>1 DEF CommandInv, ConsumerIsSafe
    <3> QED
      BY <1>1, <3>1, <3>2 DEF RunIsSafe, SettledBelow
  <2>2. ASSUME NEW p \in Partitions
        PROVE  PositionIsSafe(o, p)'
    <3> SUFFICES ASSUME p \notin paused[o], p # q, NEW i \in Nat, 1 <= i, i <= position[o][p],
                        <<p, i>> \notin audit \cup commandDLQ
                 PROVE  Waits(o, p, i)'
      BY <1>1, <1>4 DEF PositionIsSafe
    <3>1. Waits(o, p, i)
      BY DEF CommandInv, ConsumerIsSafe, PositionIsSafe
    <3>2. PICK k \in DOMAIN f : f[k].partition = p /\ f[k].next <= i /\ i <= f[k].last
      BY <3>1 DEF Waits
    <3>3. k - 1 \in DOMAIN Tail(f) /\ Tail(f)[k - 1] = f[k]
      BY <1>6, <3>2
    <3> QED
      BY <1>4, <3>2, <3>3 DEF Waits
  <2> QED
    BY <1>1, <1>4, <2>1, <2>2 DEF ConsumerIsSafe
<1>8. ASSUME NEW w \in Processes \ {o}
      PROVE  ConsumerIsSafe(w)'
  BY <1>1, <1>4, ConsumerRests DEF SettledGrows
<1> QED
  BY <1>1, <1>3, <1>7, <1>8 DEF CommandInv, SettledBelow

(* A commit: the record is settled, and so is everything before it. *)
LEMMA CommitKeeps ==
    ASSUME CommandInv, NEW o \in Processes, Commit(o)
    PROVE  CommandInv'
<1> DEFINE f == fetched[o]
           h == Head(f)
           p == h.partition
           n == h.next
           moved == [h EXCEPT !.next = n + 1]
           g == AfterRecord(f)
<1>1. f \in Seq(Run) /\ f # <<>> /\ <<p, n>> \in audit \cup commandDLQ
  BY DEF Commit, CommandInv, CommandTypeOK, ConsumerIsSafe, CurrentRecord
<1>2. h \in Run /\ h = f[1] /\ 1 \in DOMAIN f
  BY <1>1
<1>3. p \in Partitions /\ n \in Nat /\ n # 0 /\ h.last \in Nat
  BY <1>2 DEF Run
<1>4. n <= h.last /\ SettledBelow(p, n)
  BY <1>2 DEF CommandInv, ConsumerIsSafe, RunIsSafe
<1>5. SettledBelow(p, n + 1)
  <2> SUFFICES ASSUME NEW j \in Nat, 1 <= j, j < n + 1
               PROVE  <<p, j>> \in audit \cup commandDLQ
    BY DEF SettledBelow
  <2>1. CASE j = n
    BY <1>1, <2>1
  <2>2. CASE j # n
    <3>1. j < n
      BY <1>3, <2>2
    <3> QED
      BY <1>4, <3>1 DEF SettledBelow
  <2> QED
    BY <2>1, <2>2
<1>6. /\ UNCHANGED <<position, paused, audit, commandDLQ>>
      /\ committedOffset' = [committedOffset EXCEPT ![p] = n]
      /\ fetched' = [fetched EXCEPT ![o] = g]
      /\ stored' = [stored EXCEPT ![o] = FALSE]
  BY DEF Commit, commandStore, CurrentRecord
<1>7. /\ moved \in Run /\ moved.next = n + 1 /\ moved.partition = p /\ moved.last = h.last
  BY <1>2, <1>3 DEF Run
\* A run of g is one of f, or the head moved on.
<1>8. /\ g \in Seq(Run)
      /\ \A k \in DOMAIN g : \/ \E l \in DOMAIN f : g[k] = f[l]
                             \/ g[k] = moved /\ n # h.last
      /\ \A l \in DOMAIN f : \/ \E k \in DOMAIN g : g[k] = f[l]
                             \/ f[l] = h /\ n = h.last
                             \/ f[l] = h /\ \E k \in DOMAIN g : g[k] = moved
  <2>1. CASE n = h.last
    <3>1. g = Tail(f)
      BY <2>1 DEF AfterRecord
    <3>2. g \in Seq(Run) /\ \A k \in DOMAIN g : k + 1 \in DOMAIN f /\ g[k] = f[k + 1]
      BY <1>1, <3>1
    <3>3. \A l \in DOMAIN f : l = 1 \/ (l - 1 \in DOMAIN g /\ g[l - 1] = f[l])
      BY <1>1, <3>1
    <3> HIDE DEF g
    <3> QED
      BY <1>2, <2>1, <3>2, <3>3
  <2>2. CASE n # h.last
    <3>1. g = [f EXCEPT ![1].next = @ + 1]
      BY <2>2 DEF AfterRecord
    <3>2. g = [f EXCEPT ![1] = moved]
      BY <1>1, <1>2, <3>1
    <3> HIDE DEF g, moved
    <3>3. g \in Seq(Run) /\ DOMAIN g = DOMAIN f /\ g[1] = moved /\ \A k \in DOMAIN f \ {1} : g[k] = f[k]
      BY <1>1, <1>2, <1>7, <3>2
    <3> QED
      BY <1>2, <2>2, <3>3
  <2> QED
    BY <2>1, <2>2
<1> HIDE DEF g, moved
<1>9. CommandTypeOK'
  BY <1>3, <1>6, <1>8 DEF CommandInv, CommandTypeOK
<1>10. /\ fetched'[o] = g /\ ~stored'[o] /\ committedOffset'[p] = n
       /\ \A w \in Processes \ {o} : fetched'[w] = fetched[w] /\ stored'[w] = stored[w]
       /\ \A x \in Partitions \ {p} : committedOffset'[x] = committedOffset[x]
  BY <1>3, <1>6 DEF CommandInv, CommandTypeOK
<1>11. \A k \in DOMAIN g : RunIsSafe(g[k])
  <2> SUFFICES ASSUME NEW k \in DOMAIN g
               PROVE  RunIsSafe(g[k])
    OBVIOUS
  <2>1. CASE \E l \in DOMAIN f : g[k] = f[l]
    BY <2>1 DEF CommandInv, ConsumerIsSafe
  <2>2. CASE g[k] = moved /\ n # h.last
    <3>1. n + 1 <= h.last
      BY <1>3, <1>4, <2>2
    <3> QED
      BY <1>5, <1>7, <2>2, <3>1 DEF RunIsSafe
  <2> QED
    BY <1>8, <2>1, <2>2
<1>12. \A k \in DOMAIN fetched'[o] : RunIsSafe(fetched[o][k])'
  BY <1>6, <1>10, <1>11 DEF RunIsSafe, SettledBelow
<1>13. ASSUME NEW x \in Partitions
       PROVE  PositionIsSafe(o, x)'
  <2> SUFFICES ASSUME x \notin paused[o], NEW i \in Nat, 1 <= i, i <= position[o][x],
                      <<x, i>> \notin audit \cup commandDLQ
               PROVE  Waits(o, x, i)'
    BY <1>6 DEF PositionIsSafe
  <2>1. Waits(o, x, i)
    BY DEF CommandInv, ConsumerIsSafe, PositionIsSafe
  <2>2. PICK l \in DOMAIN f : f[l].partition = x /\ f[l].next <= i /\ i <= f[l].last
    BY <2>1 DEF Waits
  <2>3. f[l] = h => i # n /\ n < i
    BY <1>1, <1>3, <2>2
  <2>4. \E k \in DOMAIN g : g[k].partition = x /\ g[k].next <= i /\ i <= g[k].last
    <3>1. CASE \E k \in DOMAIN g : g[k] = f[l]
      BY <2>2, <3>1
    <3>2. CASE f[l] = h /\ n = h.last
      BY <1>3, <2>2, <2>3, <3>2
    <3>3. CASE f[l] = h /\ \E k \in DOMAIN g : g[k] = moved
      <4>1. n + 1 <= i
        BY <1>3, <2>3, <3>3
      <4> QED
        BY <1>7, <2>2, <3>3, <4>1
    <3> QED
      BY <1>8, <3>1, <3>2, <3>3
  <2> QED
    BY <1>10, <2>4 DEF Waits
<1>14. ConsumerIsSafe(o)'
  BY <1>10, <1>12, <1>13 DEF ConsumerIsSafe
<1>15. ASSUME NEW w \in Processes \ {o}
       PROVE  ConsumerIsSafe(w)'
  BY <1>6, <1>10, ConsumerRests DEF SettledGrows
<1>16. ASSUME NEW x \in Partitions
       PROVE  SettledBelow(x, committedOffset[x] + 1)'
  <2>1. CASE x = p
    BY <1>5, <1>10, <1>6, <2>1 DEF SettledBelow
  <2>2. CASE x # p
    BY <1>10, <1>6, <2>2 DEF CommandInv, SettledBelow
  <2> QED
    BY <2>1, <2>2
<1> QED
  BY <1>9, <1>14, <1>15, <1>16 DEF CommandInv

(* A fetch begins where the positions are, and everything before is settled. *)
LEMMA PollFetchesKeeps ==
    ASSUME CommandInv, NEW o \in Processes, PollFetches(o)
    PROVE  CommandInv'
<1> DEFINE run(order, upto, k) ==
             [partition |-> order[k], next |-> position[o][order[k]] + 1, last |-> upto[order[k]]]
<1>1. PICK served \in SUBSET {p \in Partitions : assigned[p] = o /\ p \notin paused[o]} \ {{}} :
       \E upto \in [served -> UNION {1..Len(Log[p]) : p \in served}], order \in SetToSeqs(served) :
          /\ \A p \in served : upto[p] \in (position[o][p] + 1)..Len(Log[p])
          /\ fetched' = [fetched EXCEPT ![o] = [k \in 1..Len(order) |-> run(order, upto, k)]]
          /\ position' = [position EXCEPT ![o] = [p \in Partitions |->
                IF p \in served THEN upto[p] ELSE position[o][p]]]
  BY DEF PollFetches
<1>2. PICK upto \in [served -> UNION {1..Len(Log[p]) : p \in served}], order \in SetToSeqs(served) :
          /\ \A p \in served : upto[p] \in (position[o][p] + 1)..Len(Log[p])
          /\ fetched' = [fetched EXCEPT ![o] = [k \in 1..Len(order) |-> run(order, upto, k)]]
          /\ position' = [position EXCEPT ![o] = [p \in Partitions |->
                IF p \in served THEN upto[p] ELSE position[o][p]]]
  BY <1>1
<1> DEFINE g == [k \in 1..Len(order) |-> run(order, upto, k)]
           place == position[o]
           to == [p \in Partitions |-> IF p \in served THEN upto[p] ELSE place[p]]
<1>3. place \in [Partitions -> Nat] /\ fetched[o] = <<>>
  BY DEF CommandInv, CommandTypeOK, PollFetches
<1>4. served \in SUBSET Partitions /\ served \cap paused[o] = {}
  BY <1>1
<1>5. \A p \in served : upto[p] \in Nat /\ place[p] + 1 <= upto[p]
  BY <1>2, <1>3, <1>4, KafkaAssumption
<1>6. IsFiniteSet(served) /\ Cardinality(served) \in Nat
  BY <1>4, KafkaAssumption, FS_Subset, FS_CardinalityType
<1>7. order \in [1..Cardinality(served) -> served]
  BY DEF SetToSeqs
<1>8. Len(order) \in Nat /\ order \in [1..Len(order) -> served]
  BY <1>6, <1>7
<1>9. \A p \in served : \E k \in 1..Len(order) : order[k] = p
  <2> DEFINE N == Cardinality(served)
  <2>1. order \in Injection(1..N, served)
    <3>1. \A i, j \in 1..N : i # j => order[i] # order[j]
      BY DEF SetToSeqs
    <3> QED
      BY <1>7, <3>1 DEF Injection, IsInjective
  <2>2. Cardinality(1..N) = N
    BY <1>6, FS_Interval
  <2>3. order \in Surjection(1..N, served)
    BY <1>6, <2>1, <2>2, FS_Injection
  <2>4. Len(order) = N
    BY <1>6, <1>7
  <2> QED
    BY <2>3, <2>4 DEF Surjection
<1>10. \A k \in 1..Len(order) : g[k] = run(order, upto, k) /\ order[k] \in served
  BY <1>8
<1>11. \A k \in 1..Len(order) : /\ g[k] \in Run /\ g[k].partition = order[k]
                                /\ g[k].next = place[order[k]] + 1 /\ g[k].last = upto[order[k]]
  <2> SUFFICES ASSUME NEW k \in 1..Len(order)
               PROVE  /\ g[k] \in Run /\ g[k].partition = order[k]
                      /\ g[k].next = place[order[k]] + 1 /\ g[k].last = upto[order[k]]
    OBVIOUS
  <2>1. g[k] = run(order, upto, k) /\ order[k] \in served /\ order[k] \in Partitions
    BY <1>4, <1>10
  <2>2. place[order[k]] \in Nat /\ upto[order[k]] \in Nat
    BY <1>3, <1>5, <2>1
  <2> HIDE DEF place, g
  <2> QED
    BY <2>1, <2>2 DEF Run, place
<1>12. g \in Seq(Run) /\ DOMAIN g = 1..Len(order)
  BY <1>8, <1>11
<1>13. to \in [Partitions -> Nat]
  BY <1>3, <1>5
<1>14. fetched' = [fetched EXCEPT ![o] = g] /\ position' = [position EXCEPT ![o] = to]
  BY <1>2
<1> HIDE DEF g, to
<1>15. /\ UNCHANGED <<committedOffset, paused, stored, audit, commandDLQ>>
  BY DEF PollFetches, commandStore
<1>16. /\ fetched'[o] = g /\ position'[o] = to
       /\ \A w \in Processes \ {o} : fetched'[w] = fetched[w] /\ position'[w] = position[w]
  BY <1>14 DEF CommandInv, CommandTypeOK
<1>17. CommandTypeOK'
  BY <1>12, <1>13, <1>14, <1>15 DEF CommandInv, CommandTypeOK
\* Nothing was left of the fetch before, so what lies before the positions is settled.
<1>18. \A p \in Partitions \ paused[o] : SettledBelow(p, place[p] + 1)
  <2> SUFFICES ASSUME NEW p \in Partitions \ paused[o], NEW i \in Nat, 1 <= i, i < place[p] + 1
               PROVE  <<p, i>> \in audit \cup commandDLQ
    BY DEF SettledBelow
  <2>1. i <= place[p]
    BY <1>3
  <2>2. ~Waits(o, p, i)
    BY <1>3 DEF Waits
  <2> QED
    BY <2>1, <2>2 DEF CommandInv, ConsumerIsSafe, PositionIsSafe
<1>19. ASSUME NEW k \in DOMAIN g
       PROVE  RunIsSafe(g[k])
  <2>1. k \in 1..Len(order) /\ order[k] \in served /\ order[k] \in Partitions \ paused[o]
    BY <1>4, <1>10, <1>12
  <2>2. /\ g[k].partition = order[k] /\ g[k].next = place[order[k]] + 1 /\ g[k].last = upto[order[k]]
    BY <1>11, <2>1
  <2>3. place[order[k]] + 1 <= upto[order[k]] /\ SettledBelow(order[k], place[order[k]] + 1)
    BY <1>5, <1>18, <2>1
  <2> QED
    BY <2>2, <2>3 DEF RunIsSafe
<1>20. \A k \in DOMAIN fetched'[o] : RunIsSafe(fetched[o][k])'
  BY <1>15, <1>16, <1>19 DEF RunIsSafe, SettledBelow
<1>21. ASSUME NEW p \in Partitions
       PROVE  PositionIsSafe(o, p)'
  <2> SUFFICES ASSUME p \notin paused[o], NEW i \in Nat, 1 <= i, i <= to[p],
                      <<p, i>> \notin audit \cup commandDLQ
               PROVE  Waits(o, p, i)'
    BY <1>15, <1>16 DEF PositionIsSafe
  <2>1. ~(i <= place[p]) /\ place[p] \in Nat
    BY <1>3, <1>18 DEF SettledBelow
  <2>2. p \in served /\ i <= upto[p]
    BY <2>1 DEF to
  <2>3. PICK k \in 1..Len(order) : order[k] = p
    BY <1>9, <2>2
  <2>4. k \in DOMAIN g /\ g[k].partition = p /\ g[k].next <= i /\ i <= g[k].last
    BY <1>11, <1>12, <2>1, <2>2, <2>3
  <2> QED
    BY <1>16, <2>4 DEF Waits
<1>22. ~stored[o]
  BY <1>3 DEF CommandInv, ConsumerIsSafe
<1>23. ConsumerIsSafe(o)'
  BY <1>15, <1>20, <1>21, <1>22 DEF ConsumerIsSafe
<1>24. ASSUME NEW w \in Processes \ {o}
       PROVE  ConsumerIsSafe(w)'
  BY <1>15, <1>16, ConsumerRests DEF SettledGrows
<1> QED
  BY <1>15, <1>17, <1>23, <1>24 DEF CommandInv, SettledBelow

(* No process has fetched or committed anything. *)
LEMMA CommandInitKeeps == KafkaInit => CommandInv
<1> SUFFICES ASSUME KafkaInit
             PROVE  CommandInv
  OBVIOUS
<1>1. CommandTypeOK
  BY DEF KafkaInit, CommandTypeOK
<1>2. \A p \in Partitions : SettledBelow(p, committedOffset[p] + 1)
  BY DEF KafkaInit, SettledBelow
<1>3. \A o \in Processes : ConsumerIsSafe(o)
  BY DEF KafkaInit, ConsumerIsSafe, PositionIsSafe
<1> QED
  BY <1>1, <1>2, <1>3 DEF CommandInv

(* Every step of the outbox and of the consumers keeps the invariant. *)
LEMMA CommandStep == CommandInv /\ [KafkaNext]_kafkaVars => CommandInv'
<1> SUFFICES ASSUME CommandInv, [KafkaNext]_kafkaVars
             PROVE  CommandInv'
  OBVIOUS
<1>1. CASE UNCHANGED kafkaVars
  BY <1>1, CommandsRest DEF kafkaVars, commandVars
<1>2. ASSUME NEW o \in Processes, OutboxStep(o) \/ BatchFails(o)
      PROVE  CommandInv'
  BY <1>2, CommandsRest
     DEF OutboxStep, ClaimEvents, Publish, MarkPublished, BatchFails, commandStore
<1>3. ASSUME NEW o \in Processes, ConsumerStep(o)
      PROVE  CommandInv'
  BY <1>3, PollFetchesKeeps, QuarantineKeeps, HandleKeeps, CommitKeeps, RebornKeeps
     DEF ConsumerStep, CommitRefused, HandleFails
<1>4. ASSUME NEW o \in Processes, Restart(o)
      PROVE  CommandInv'
  BY <1>4, RebornKeeps DEF Restart
<1>5. ASSUME NEW v \in KafkaEvents, ClaimElapses(v)
      PROVE  CommandInv'
  BY <1>5, CommandsRest DEF ClaimElapses, commandStore
<1>6. ASSUME NEW p \in Partitions, NEW i \in DOMAIN Log[p], SignatureLapses(p, i)
      PROVE  CommandInv'
  BY <1>6, CommandsRest DEF SignatureLapses
<1> QED
  BY <1>1, <1>2, <1>3, <1>4, <1>5, <1>6, AssignKeeps DEF KafkaNext

(* A committed offset hides nothing, for any number of partitions, records and
   processes and however often partitions move and processes restart: every
   record below it is an audited command or a dead letter. *)
THEOREM CommandsCommittedAreSettled == KafkaSpec => []CommittedIsSettled
<1>1. CommandInv => CommittedIsSettled
  BY CommandInvSuffices
<1> QED
  BY CommandInitKeeps, CommandStep, <1>1, PTL DEF KafkaSpec

-----------------------------------------------------------------------------
(***************************************************************************)
(* Proof that the message state the single pass derives is the declarative *)
(* reference.  What a recursive function computes cannot be proved by      *)
(* induction over its argument here; the history grows one row at a time,  *)
(* so the induction runs over the behaviour instead.  The invariant says   *)
(* that a fold over the history exists (it is unique: two folds have no    *)
(* first difference) and which observations explain its last value.        *)
(***************************************************************************)

\* The fold's initial value.
Unobserved == ""

Decisive == CarrierStates \cup {"failed"}

\* c is observed at one of the positions, and nothing observed at them is stronger.
Tops(h, positions, c) ==
    \E i \in positions :
        h[i] = c /\ \A j \in positions : MessageStateRank[h[j]] <= MessageStateRank[c]

\* The first decisive observation is a failure.
FailedBy(h, c) ==
    /\ c = "failed"
    /\ \E d \in 1..Len(h) : h[d] = "failed" /\ \A j \in 1..Len(h) : h[j] \in Decisive => d <= j

\* The first decisive observation is evidence; the strongest evidence counts.
SentBy(h, c) ==
    /\ \E d \in 1..Len(h) :
          h[d] \in CarrierStates /\ \A j \in 1..Len(h) : h[j] \in Decisive => d <= j
    /\ Tops(h, {i \in 1..Len(h) : h[i] \in CarrierStates}, c)

\* Nothing is decided; u is the last uncertain observation, or 0.
OpenSince(h, u, c) ==
    /\ \A i \in 1..Len(h) : h[i] \notin Decisive
    /\ u > 0 => h[u] = "uncertain"
    /\ \A j \in 1..Len(h) : j > u => h[j] # "uncertain"
    /\ u = Len(h) => c = IF u = 0 THEN Unobserved ELSE "uncertain"
    /\ u < Len(h) => Tops(h, (u + 1)..Len(h), c)

References(h, c) ==
    \/ FailedBy(h, c)
    \/ SentBy(h, c)
    \/ \E u \in 0..Len(h) : OpenSince(h, u, c)

\* f is the fold over the history, position by position.
IsFoldOf(h, f) ==
    f = [i \in 0..Len(h) |-> IF i = 0 THEN Unobserved ELSE Observe(f[i - 1], h[i])]

HistoryInv ==
    /\ history \in Seq(MessageStates)
    /\ \E f : IsFoldOf(history, f) /\ References(history, f[Len(history)])

\* The ranks.
LEMMA Ranks ==
    /\ MessageStateRank["queued"] = 1 /\ MessageStateRank["dispatching"] = 2
    /\ MessageStateRank["provider_accepted"] = 3 /\ MessageStateRank["uncertain"] = 3
    /\ MessageStateRank["awaiting_phone"] = 4 /\ MessageStateRank["sent"] = 5
    /\ MessageStateRank["delivered"] = 6 /\ MessageStateRank["read"] = 7
    /\ MessageStateRank["failed"] = 8
BY DEF MessageStateRank, MessageStates

\* The initial value ranks below every state.
LEMMA NoRank == MessageStateRank[Unobserved] = 0 /\ Unobserved # "failed"
BY DEF MessageStateRank, MessageStates, Unobserved

\* Ranks are numbers.
LEMMA RankIsNat ==
    ASSUME NEW s \in MessageStates
    PROVE  MessageStateRank[s] \in Nat
BY Ranks DEF MessageStates

\* Two states of one rank are one state, uncertain apart.
LEMMA RankNamesState ==
    ASSUME NEW s \in MessageStates \ {"uncertain"}, NEW r \in MessageStates \ {"uncertain"},
           MessageStateRank[s] = MessageStateRank[r]
    PROVE  s = r
BY Ranks DEF MessageStates

\* A failure stays.
LEMMA ObserveAfterFailure ==
    ASSUME NEW s \in MessageStates
    PROVE  Observe("failed", s) = "failed"
BY Ranks DEF Observe, MessageStates

\* Evidence gives way to stronger evidence only.
LEMMA ObserveAfterEvidence ==
    ASSUME NEW c \in CarrierStates, NEW s \in MessageStates
    PROVE  \/ /\ s \in CarrierStates /\ Observe(c, s) = s
              /\ MessageStateRank[c] <= MessageStateRank[s]
           \/ /\ Observe(c, s) = c
              /\ s \in CarrierStates => MessageStateRank[s] <= MessageStateRank[c]
BY Ranks DEF Observe, CarrierStates, MessageStates

\* The first observation counts.
LEMMA ObserveFirst ==
    ASSUME NEW s \in MessageStates
    PROVE  Observe(Unobserved, s) = s
<1>1. /\ MessageStateRank[s] \in Nat /\ MessageStateRank["sent"] = 5
      /\ MessageStateRank[Unobserved] = 0 /\ Unobserved # "failed"
  BY Ranks, RankIsNat, NoRank
<1> QED BY <1>1 DEF Observe

\* Any observation ends an uncertain one.
LEMMA ObserveAfterUncertain ==
    ASSUME NEW s \in MessageStates
    PROVE  Observe("uncertain", s) = s
BY Ranks DEF Observe

\* Before a decision, evidence, failure and uncertainty always count.
LEMMA ObserveDecisive ==
    ASSUME NEW c \in MessageStates \ Decisive, NEW s \in Decisive \cup {"uncertain"}
    PROVE  Observe(c, s) = s
BY Ranks DEF Observe, MessageStates, Decisive, CarrierStates

\* Before a decision, progress counts when it is not a step back.
LEMMA ObserveUndecided ==
    ASSUME NEW c \in MessageStates \ (Decisive \cup {"uncertain"}),
           NEW s \in MessageStates \ (Decisive \cup {"uncertain"})
    PROVE  \/ Observe(c, s) = s /\ MessageStateRank[c] <= MessageStateRank[s]
           \/ Observe(c, s) = c /\ MessageStateRank[s] <= MessageStateRank[c]
BY Ranks DEF Observe, MessageStates, Decisive, CarrierStates

\* A fold, position by position.
LEMMA FoldSteps ==
    ASSUME NEW h, Len(h) \in Nat, NEW f, IsFoldOf(h, f)
    PROVE  /\ f[0] = Unobserved
           /\ f = [i \in 0..Len(h) |-> f[i]]
           /\ \A i \in 1..Len(h) : f[i] = Observe(f[i - 1], h[i])
<1> DEFINE V(i) == IF i = 0 THEN Unobserved ELSE Observe(f[i - 1], h[i])
<1>1. f = [i \in 0..Len(h) |-> V(i)]
  BY DEF IsFoldOf
<1>2. 0 \in 0..Len(h) /\ \A i \in 1..Len(h) : i \in 0..Len(h) /\ i # 0
  OBVIOUS
<1>3. V(0) = Unobserved /\ \A i \in 1..Len(h) : V(i) = Observe(f[i - 1], h[i])
  BY <1>2
<1> HIDE DEF V
<1>4. \A i \in 0..Len(h) : f[i] = V(i)
  BY <1>1
<1>5. f = [i \in 0..Len(h) |-> f[i]]
  BY <1>1, <1>4
<1> QED BY <1>2, <1>3, <1>4, <1>5

\* A fold from its positions.
LEMMA FoldFromSteps ==
    ASSUME NEW h, Len(h) \in Nat, NEW f, f[0] = Unobserved, f = [i \in 0..Len(h) |-> f[i]],
           \A i \in 1..Len(h) : f[i] = Observe(f[i - 1], h[i])
    PROVE  IsFoldOf(h, f)
<1> DEFINE V(i) == IF i = 0 THEN Unobserved ELSE Observe(f[i - 1], h[i])
<1>1. ASSUME NEW n \in Nat
      PROVE  \A i \in 0..n : i = 0 \/ i \in 1..n
  BY ONLY n \in Nat
<1>2. ASSUME NEW i \in 0..Len(h)
      PROVE  f[i] = V(i)
  <2>1. i = 0 \/ i \in 1..Len(h)
    BY <1>1
  <2> QED BY <2>1
<1> HIDE DEF V
<1>3. [i \in 0..Len(h) |-> f[i]] = [i \in 0..Len(h) |-> V(i)]
  BY <1>2
<1>4. f = [i \in 0..Len(h) |-> V(i)]
  BY <1>3
<1> QED BY <1>4 DEF V, IsFoldOf

\* Two folds over one history agree at every position: there is no first difference.
LEMMA FoldsAgree ==
    ASSUME NEW h, Len(h) \in Nat, NEW f, NEW g, IsFoldOf(h, f), IsFoldOf(h, g)
    PROVE  f = g
<1>1. /\ f[0] = Unobserved /\ f = [i \in 0..Len(h) |-> f[i]]
      /\ \A i \in 1..Len(h) : f[i] = Observe(f[i - 1], h[i])
  BY FoldSteps
<1>2. /\ g[0] = Unobserved /\ g = [i \in 0..Len(h) |-> g[i]]
      /\ \A i \in 1..Len(h) : g[i] = Observe(g[i - 1], h[i])
  BY FoldSteps
<1> DEFINE T == {i \in 0..Len(h) : f[i] # g[i]}
<1>3. ASSUME T # {} PROVE FALSE
  <2>1. T \in SUBSET Nat
    OBVIOUS
  <2>2. PICK x \in T : \A y \in T : x <= y
    BY <1>3, <2>1, SmallestExists
  <2>3. x # 0 /\ x \in 0..Len(h)
    BY <1>1, <1>2
  <2>4. x \in 1..Len(h) /\ x - 1 \in 0..Len(h) /\ ~(x <= x - 1)
    BY <2>3
  <2>5. x - 1 \notin T
    BY <2>2, <2>4
  <2>6. f[x - 1] = g[x - 1]
    BY <2>4, <2>5
  <2>7. f[x] = g[x]
    BY <1>1, <1>2, <2>4, <2>6
  <2> QED BY <2>7
<1>4. \A i \in 0..Len(h) : f[i] = g[i]
  BY <1>3
<1>5. [i \in 0..Len(h) |-> f[i]] = [i \in 0..Len(h) |-> g[i]]
  BY <1>4
<1> QED BY <1>1, <1>2, <1>5

\* What DeriveMessageState returns is the last value of the fold.
LEMMA DeriveIsFold ==
    ASSUME NEW h, Len(h) \in Nat, NEW f, IsFoldOf(h, f)
    PROVE  DeriveMessageState(h) = f[Len(h)]
<1> DEFINE IsFold(g) == g = [i \in 0..Len(h) |-> IF i = 0 THEN Unobserved ELSE Observe(g[i - 1], h[i])]
           fold == CHOOSE g : IsFold(g)
<1>1. IsFold(f)
  BY DEF IsFoldOf
<1>2. IsFold(fold)
  BY <1>1
<1>3. IsFoldOf(h, fold)
  BY <1>2 DEF IsFoldOf
<1>4. DeriveMessageState(h) = fold[Len(h)]
  BY DEF DeriveMessageState, Unobserved
<1> HIDE DEF fold
<1>5. fold = f
  BY <1>3, FoldsAgree
<1> QED BY <1>4, <1>5

\* Appending one observation extends the fold by one Observe.
LEMMA FoldExtends ==
    ASSUME NEW h \in Seq(MessageStates), NEW s \in MessageStates, NEW f, IsFoldOf(h, f)
    PROVE  \E g : /\ IsFoldOf(Append(h, s), g)
                  /\ g[Len(Append(h, s))] = Observe(f[Len(h)], s)
<1>1. PICK k : k = Append(h, s)
  OBVIOUS
<1>2. PICK n \in Nat : n = Len(h)
  OBVIOUS
<1>3. /\ Len(k) = n + 1 /\ k[n + 1] = s
      /\ \A i \in 1..n : k[i] = h[i]
  BY <1>1, <1>2
<1>4. /\ f[0] = Unobserved /\ \A i \in 1..n : f[i] = Observe(f[i - 1], h[i])
  BY <1>2, FoldSteps
<1> DEFINE W(i) == IF i = n + 1 THEN Observe(f[n], s) ELSE f[i]
           g == [i \in 0..(n + 1) |-> W(i)]
<1>5. /\ \A i \in 0..n : g[i] = f[i]
      /\ g[n + 1] = Observe(f[n], s)
      /\ g = [i \in 0..(n + 1) |-> g[i]]
  <2>1. W(n + 1) = Observe(f[n], s) /\ \A i \in 0..n : W(i) = f[i] /\ i \in 0..(n + 1)
    OBVIOUS
  <2>2. n + 1 \in 0..(n + 1)
    OBVIOUS
  <2> HIDE DEF W
  <2>3. \A i \in 0..(n + 1) : g[i] = W(i)
    OBVIOUS
  <2>4. g = [i \in 0..(n + 1) |-> g[i]]
    BY <2>3
  <2> QED BY <2>1, <2>2, <2>3, <2>4
<1> HIDE DEF g
<1>6. g[0] = Unobserved
  <2>1. 0 \in 0..n
    OBVIOUS
  <2> QED BY <1>4, <1>5, <2>1
<1>7. \A i \in 1..(n + 1) : g[i] = Observe(g[i - 1], k[i])
  <2> TAKE i \in 1..(n + 1)
  <2>1. CASE i = n + 1
    <3>1. i - 1 = n /\ n \in 0..n
      BY <2>1
    <3> QED BY <1>3, <1>5, <2>1, <3>1
  <2>2. CASE i # n + 1
    <3>1. i \in 1..n /\ i \in 0..n /\ i - 1 \in 0..n
      BY <2>2
    <3> QED BY <1>3, <1>4, <1>5, <3>1
  <2> QED BY <2>1, <2>2
<1>8. IsFoldOf(k, g)
  <2>1. /\ Len(k) \in Nat /\ g = [i \in 0..Len(k) |-> g[i]]
        /\ \A i \in 1..Len(k) : g[i] = Observe(g[i - 1], k[i])
    <3>1. n + 1 \in Nat
      OBVIOUS
    <3>2. Len(k) = n + 1
      BY <1>3
    <3>3. g = [i \in 0..(n + 1) |-> g[i]]
      BY <1>5
    <3> QED BY ONLY <1>7, <3>1, <3>2, <3>3, Zenon
  <2> QED BY <1>6, <2>1, FoldFromSteps
<1> QED BY <1>1, <1>2, <1>3, <1>5, <1>8

\* One more observation keeps the reference true of what Observe makes of it.
LEMMA ObserveReferences ==
    ASSUME NEW h \in Seq(MessageStates), NEW c, NEW s \in MessageStates, References(h, c)
    PROVE  References(Append(h, s), Observe(c, s))
<1>1. PICK k : k = Append(h, s)
  OBVIOUS
<1>2. PICK n \in Nat : n = Len(h)
  OBVIOUS
<1>3. /\ Len(k) = n + 1 /\ k[n + 1] = s
      /\ \A i \in 1..n : k[i] = h[i] /\ h[i] \in MessageStates
  BY <1>1, <1>2
<1>4. \A i \in 1..(n + 1) : i = n + 1 \/ i \in 1..n
  OBVIOUS
<1>5. n + 1 \in 1..(n + 1) /\ \A i \in 1..n : i \in 1..(n + 1) /\ i <= n + 1
  OBVIOUS
<1>6. CASE FailedBy(h, c)
  <2>1. Observe(c, s) = "failed"
    BY <1>6, ObserveAfterFailure DEF FailedBy
  <2>2. PICK d \in 1..n : h[d] = "failed" /\ \A j \in 1..n : h[j] \in Decisive => d <= j
    BY <1>2, <1>6 DEF FailedBy
  <2>3. \A j \in 1..(n + 1) : k[j] \in Decisive => d <= j
    BY <1>3, <1>4, <1>5, <2>2
  <2>4. FailedBy(k, "failed")
    BY <1>3, <1>5, <2>2, <2>3 DEF FailedBy
  <2> QED BY <1>1, <2>1, <2>4 DEF References
<1>7. CASE SentBy(h, c)
  <2>1. PICK d \in 1..n :
           h[d] \in CarrierStates /\ \A j \in 1..n : h[j] \in Decisive => d <= j
    BY <1>2, <1>7 DEF SentBy
  <2>2. PICK i \in 1..n :
           /\ h[i] = c /\ c \in CarrierStates
           /\ \A j \in 1..n : h[j] \in CarrierStates =>
                                  MessageStateRank[h[j]] <= MessageStateRank[c]
    BY <1>2, <1>7 DEF SentBy, Tops
  <2>3. \A j \in 1..(n + 1) : k[j] \in Decisive => d <= j
    BY <1>3, <1>4, <1>5, <2>1
  <2>4. \/ /\ s \in CarrierStates /\ Observe(c, s) = s
           /\ MessageStateRank[c] <= MessageStateRank[s]
        \/ /\ Observe(c, s) = c
           /\ s \in CarrierStates => MessageStateRank[s] <= MessageStateRank[c]
    BY <2>2, ObserveAfterEvidence
  <2>5. \A x \in CarrierStates : MessageStateRank[x] \in Nat
    BY RankIsNat DEF CarrierStates, MessageStates
  <2> DEFINE Q == {j \in 1..Len(k) : k[j] \in CarrierStates}
  <2>6. /\ Q = {j \in 1..(n + 1) : k[j] \in CarrierStates}
        /\ i \in Q /\ k[i] = c
    BY <1>3, <1>5, <2>2
  <2>7. Tops(k, Q, Observe(c, s))
    <3>1. CASE /\ s \in CarrierStates /\ Observe(c, s) = s
               /\ MessageStateRank[c] <= MessageStateRank[s]
      <4>1. n + 1 \in Q
        BY <1>3, <1>5, <2>6, <3>1
      <4>2. ASSUME NEW j \in Q
            PROVE  MessageStateRank[k[j]] <= MessageStateRank[s]
        <5>1. k[j] \in CarrierStates /\ (j = n + 1 \/ j \in 1..n)
          BY <1>4, <2>6
        <5> QED BY <1>3, <2>2, <2>5, <3>1, <5>1
      <4> HIDE DEF Q
      <4> QED BY <1>3, <3>1, <4>1, <4>2 DEF Tops
    <3>2. CASE /\ Observe(c, s) = c
               /\ s \in CarrierStates => MessageStateRank[s] <= MessageStateRank[c]
      <4>1. ASSUME NEW j \in Q
            PROVE  MessageStateRank[k[j]] <= MessageStateRank[c]
        <5>1. k[j] \in CarrierStates /\ (j = n + 1 \/ j \in 1..n)
          BY <1>4, <2>6
        <5> QED BY <1>3, <2>2, <3>2, <5>1
      <4> HIDE DEF Q
      <4> QED BY <2>6, <3>2, <4>1 DEF Tops
    <3> QED BY <2>4, <3>1, <3>2
  <2>8. SentBy(k, Observe(c, s))
    <3>1. d \in 1..Len(k) /\ k[d] \in CarrierStates
      BY <1>3, <1>5, <2>1
    <3>2. \A j \in 1..Len(k) : k[j] \in Decisive => d <= j
      BY <1>3, <2>3
    <3> QED BY <2>7, <3>1, <3>2 DEF SentBy
  <2> QED BY <1>1, <2>8 DEF References
<1>8. ASSUME NEW u \in 0..n, OpenSince(h, u, c)
      PROVE  References(Append(h, s), Observe(c, s))
  <2>1. /\ \A i \in 1..n : h[i] \notin Decisive
        /\ u > 0 => h[u] = "uncertain"
        /\ \A j \in 1..n : j > u => h[j] # "uncertain"
        /\ u = n => c = IF u = 0 THEN Unobserved ELSE "uncertain"
        /\ u < n => Tops(h, (u + 1)..n, c)
    BY <1>2, <1>8 DEF OpenSince
  <2>2. \/ u = n /\ c \in {Unobserved, "uncertain"}
        \/ u < n /\ c \in MessageStates \ (Decisive \cup {"uncertain"})
    <3>1. CASE u = n
      BY <2>1, <3>1, Zenon
    <3>2. CASE u < n
      <4>1. PICK i \in (u + 1)..n : h[i] = c
        BY <2>1, <3>2 DEF Tops
      <4>2. i \in 1..n /\ i > u
        OBVIOUS
      <4>3. c \in MessageStates /\ c # "uncertain" /\ c \notin Decisive
        BY <1>3, <2>1, <4>1, <4>2
      <4> QED BY <3>2, <4>3
    <3>3. u = n \/ u < n
      OBVIOUS
    <3> QED BY <3>1, <3>2, <3>3
  <2>3. s \in Decisive \cup {"uncertain"} => Observe(c, s) = s
    BY <2>2, ObserveFirst, ObserveAfterUncertain, ObserveDecisive
  <2>4. CASE s = "failed"
    <3>1. \A j \in 1..(n + 1) : k[j] \in Decisive => n + 1 <= j
      <4>1. \A j \in 1..(n + 1) : k[j] \in Decisive => j = n + 1
        BY <1>3, <1>4, <2>1
      <4> QED BY <4>1
    <3>2. FailedBy(k, "failed")
      BY <1>3, <1>5, <2>4, <3>1 DEF FailedBy
    <3> QED BY <1>1, <2>3, <2>4, <3>2 DEF References, Decisive
  <2>5. CASE s \in CarrierStates
    <3>1. \A j \in 1..(n + 1) : k[j] \in Decisive => j = n + 1
      BY <1>3, <1>4, <2>1
    <3>2. {j \in 1..Len(k) : k[j] \in CarrierStates} = {n + 1}
      BY <1>3, <1>5, <2>5, <3>1 DEF Decisive
    <3>3. MessageStateRank[s] <= MessageStateRank[s]
      BY RankIsNat
    <3>4. Tops(k, {n + 1}, s)
      BY <1>3, <3>3 DEF Tops
    <3>5. \E d \in 1..Len(k) :
            k[d] \in CarrierStates /\ \A j \in 1..Len(k) : k[j] \in Decisive => d <= j
      BY <1>3, <1>5, <2>5, <3>1
    <3>6. SentBy(k, s)
      BY <3>2, <3>4, <3>5 DEF SentBy
    <3> QED BY <1>1, <2>3, <2>5, <3>6 DEF References, Decisive
  <2>6. CASE s = "uncertain"
    <3>1. \A i \in 1..Len(k) : k[i] \notin Decisive
      BY <1>3, <1>4, <2>1, <2>6 DEF Decisive, CarrierStates
    <3>2. OpenSince(k, n + 1, "uncertain")
      BY <1>3, <1>4, <2>6, <3>1 DEF OpenSince
    <3>3. n + 1 \in 0..Len(k)
      BY <1>3
    <3> QED BY <1>1, <2>3, <2>6, <3>2, <3>3 DEF References
  <2>7. CASE s \notin Decisive \cup {"uncertain"}
    <3>1. \A i \in 1..Len(k) : k[i] \notin Decisive
      BY <1>3, <1>4, <2>1, <2>7
    <3>2. \A j \in 1..(n + 1) : j > u => k[j] # "uncertain"
      BY <1>3, <1>4, <2>1, <2>7
    <3>3. u > 0 => k[u] = "uncertain"
      <4>1. u > 0 => u \in 1..n
        OBVIOUS
      <4> QED BY <1>3, <2>1, <4>1
    <3>4. Tops(k, (u + 1)..(n + 1), Observe(c, s))
      <4>1. CASE u = n
        <5>1. Observe(c, s) = s
          <6>1. ~(u < n)
            BY <4>1
          <6> QED BY <2>2, <6>1, ObserveFirst, ObserveAfterUncertain
        <5>2. (u + 1)..(n + 1) = {n + 1}
          BY <4>1
        <5>3. MessageStateRank[s] <= MessageStateRank[s]
          BY RankIsNat
        <5>4. Tops(k, {n + 1}, s)
          BY <1>3, <5>3 DEF Tops
        <5> QED BY <5>1, <5>2, <5>4
      <4>2. CASE u < n
        <5>1. PICK i \in (u + 1)..n :
                 h[i] = c /\ \A j \in (u + 1)..n :
                                MessageStateRank[h[j]] <= MessageStateRank[c]
          BY <2>1, <4>2 DEF Tops
        <5>2. \/ Observe(c, s) = s /\ MessageStateRank[c] <= MessageStateRank[s]
              \/ Observe(c, s) = c /\ MessageStateRank[s] <= MessageStateRank[c]
          <6>1. u # n
            BY <4>2
          <6> QED BY <2>2, <2>7, <6>1, ObserveUndecided
        <5>3. \A x \in MessageStates : MessageStateRank[x] \in Nat
          BY RankIsNat
        <5>4. c \in MessageStates /\ k[i] = c /\ i \in (u + 1)..(n + 1) /\ n + 1 \in (u + 1)..(n + 1)
          BY <1>3, <4>2, <5>1
        <5>5. \A j \in (u + 1)..(n + 1) : j = n + 1 \/ (j \in (u + 1)..n /\ j \in 1..n)
          OBVIOUS
        <5>6. CASE Observe(c, s) = s /\ MessageStateRank[c] <= MessageStateRank[s]
          <6>1. ASSUME NEW j \in (u + 1)..(n + 1)
                PROVE  MessageStateRank[k[j]] <= MessageStateRank[s]
            BY <1>3, <5>1, <5>3, <5>4, <5>5, <5>6
          <6> QED BY <1>3, <5>4, <5>6, <6>1 DEF Tops
        <5>7. CASE Observe(c, s) = c /\ MessageStateRank[s] <= MessageStateRank[c]
          <6>1. ASSUME NEW j \in (u + 1)..(n + 1)
                PROVE  MessageStateRank[k[j]] <= MessageStateRank[c]
            BY <1>3, <5>1, <5>3, <5>4, <5>5, <5>7
          <6> QED BY <5>4, <5>7, <6>1 DEF Tops
        <5> QED BY <5>2, <5>6, <5>7
      <4> QED BY <4>1, <4>2
    <3>5. OpenSince(k, u, Observe(c, s)) /\ u \in 0..Len(k)
      <4>1. Len(k) = n + 1 /\ u < n + 1 /\ u \in 0..(n + 1)
        BY <1>3
      <4>2. u # Len(k) /\ u < Len(k)
        BY <4>1
      <4>3. Tops(k, (u + 1)..Len(k), Observe(c, s)) /\ u \in 0..Len(k)
        BY <3>4, <4>1, Zenon
      <4>4. \A j \in 1..Len(k) : j > u => k[j] # "uncertain"
        BY <3>2, <4>1, Zenon
      <4> QED BY <3>1, <3>3, <4>2, <4>3, <4>4, Zenon DEF OpenSince
    <3> QED BY <1>1, <3>5 DEF References
  <2> QED BY <2>4, <2>5, <2>6, <2>7 DEF Decisive
<1> QED BY <1>2, <1>6, <1>7, <1>8 DEF References

\* An element of a set that no other exceeds is its maximum.
LEMMA MaxIs ==
    ASSUME NEW S \in SUBSET Nat, NEW m \in S, \A y \in S : y <= m
    PROVE  Max(S) = m
<1>1. m \in S /\ \A y \in S : m >= y
  OBVIOUS
<1>2. Max(S) \in S /\ \A y \in S : Max(S) >= y
  BY <1>1 DEF Max
<1>3. Max(S) >= m /\ m >= Max(S) /\ Max(S) \in Nat /\ m \in Nat
  BY <1>1, <1>2
<1> QED BY <1>3

\* An element of a set that exceeds no other is its minimum.
LEMMA MinIs ==
    ASSUME NEW S \in SUBSET Nat, NEW m \in S, \A y \in S : m <= y
    PROVE  Min(S) = m
<1>1. Min(S) \in S /\ \A y \in S : Min(S) <= y
  BY DEF Min
<1>2. Min(S) <= m /\ m <= Min(S) /\ Min(S) \in Nat /\ m \in Nat
  BY <1>1
<1> QED BY <1>2

\* The strongest state at some positions is the one no other exceeds.
LEMMA StrongestIs ==
    ASSUME history \in Seq(MessageStates), NEW P \in SUBSET (1..Len(history)), NEW c,
           Tops(history, P, c), \A i \in P : history[i] # "uncertain"
    PROVE  Strongest(P) = c
<1>1. PICK i \in P : /\ history[i] = c
                     /\ \A j \in P : MessageStateRank[history[j]] <= MessageStateRank[c]
  BY DEF Tops
<1>2. \A j \in P : history[j] \in MessageStates \ {"uncertain"}
  OBVIOUS
<1> DEFINE R == {MessageStateRank[history[j]] : j \in P}
           best == Max(R)
           top == CHOOSE j \in P : MessageStateRank[history[j]] = best
<1>3. best = MessageStateRank[c]
  <2>1. R \in SUBSET Nat
    BY <1>2, RankIsNat
  <2>2. MessageStateRank[c] \in R /\ \A y \in R : y <= MessageStateRank[c]
    BY <1>1
  <2> HIDE DEF R
  <2> QED BY <2>1, <2>2, MaxIs
<1>4. Strongest(P) = history[top]
  BY <1>1 DEF Strongest
<1> HIDE DEF best
<1>5. top \in P /\ MessageStateRank[history[top]] = best
  BY <1>1, <1>3
<1> HIDE DEF top
<1>6. history[top] = c
  BY <1>1, <1>2, <1>3, <1>5, RankNamesState
<1> QED BY <1>4, <1>6

\* What the observations leave is the declarative reference.
LEMMA ReferencesName ==
    ASSUME history \in Seq(MessageStates), NEW c, References(history, c)
    PROVE  ReferenceState = c
<1> DEFINE D == Positions(CarrierStates \cup {"failed"})
           lost == Positions({"uncertain"})
<1>1. D \in SUBSET Nat /\ lost \in SUBSET Nat
  BY DEF Positions
<1>2. ReferenceState =
        IF D # {}
        THEN IF history[Min(D)] = "failed"
             THEN "failed"
             ELSE Strongest(Positions(CarrierStates))
        ELSE IF lost = {}
             THEN Strongest(1..Len(history))
             ELSE IF Max(lost) = Len(history)
                  THEN "uncertain"
                  ELSE Strongest((Max(lost) + 1)..Len(history))
  BY DEF ReferenceState
<1>3. /\ \A i : i \in D <=> i \in 1..Len(history) /\ history[i] \in Decisive
      /\ \A i : i \in lost <=> i \in 1..Len(history) /\ history[i] = "uncertain"
  BY DEF Positions, Decisive
<1> HIDE DEF D, lost
<1>4. ASSUME NEW d \in 1..Len(history), history[d] \in Decisive,
             \A j \in 1..Len(history) : history[j] \in Decisive => d <= j
      PROVE  D # {} /\ Min(D) = d
  <2>1. d \in D /\ \A y \in D : d <= y
    BY <1>3, <1>4
  <2> QED BY <1>1, <2>1, MinIs
<1>5. CASE FailedBy(history, c)
  <2>1. PICK d \in 1..Len(history) :
           /\ history[d] = "failed"
           /\ \A j \in 1..Len(history) : history[j] \in Decisive => d <= j
    BY <1>5 DEF FailedBy
  <2>2. D # {} /\ Min(D) = d
    BY <1>4, <2>1 DEF Decisive
  <2> QED BY <1>2, <1>5, <2>1, <2>2 DEF FailedBy
<1>6. CASE SentBy(history, c)
  <2>1. PICK d \in 1..Len(history) :
           /\ history[d] \in CarrierStates
           /\ \A j \in 1..Len(history) : history[j] \in Decisive => d <= j
    BY <1>6 DEF SentBy
  <2>2. D # {} /\ Min(D) = d
    BY <1>4, <2>1 DEF Decisive
  <2>3. history[d] # "failed"
    BY <2>1 DEF CarrierStates
  <2>4. Positions(CarrierStates) \in SUBSET (1..Len(history))
    BY DEF Positions
  <2>5. Tops(history, Positions(CarrierStates), c)
    BY <1>6 DEF SentBy, Positions
  <2>6. \A i \in Positions(CarrierStates) : history[i] # "uncertain"
    BY DEF Positions, CarrierStates
  <2>7. Strongest(Positions(CarrierStates)) = c
    BY <2>4, <2>5, <2>6, StrongestIs
  <2> QED BY <1>2, <2>2, <2>3, <2>7
<1>7. ASSUME NEW u \in 0..Len(history), OpenSince(history, u, c)
      PROVE  ReferenceState = c
  <2> DEFINE n == Len(history)
  <2>1. n \in Nat
    OBVIOUS
  <2>2. /\ D = {}
        /\ u > 0 => history[u] = "uncertain"
        /\ \A j \in 1..n : j > u => history[j] # "uncertain"
        /\ u = n => c = IF u = 0 THEN Unobserved ELSE "uncertain"
        /\ u < n => Tops(history, (u + 1)..n, c)
    BY <1>3, <1>7 DEF OpenSince
  <2>3. u < n => Strongest((u + 1)..n) = c
    <3>1. (u + 1)..n \in SUBSET (1..n) /\ \A i \in (u + 1)..n : i \in 1..n /\ i > u
      BY <2>1
    <3> QED BY <2>2, <3>1, StrongestIs
  <2>4. CASE u = 0
    <3>1. lost = {}
      <4>1. \A j \in 1..n : j > u
        BY <2>4
      <4> QED BY <1>3, <2>2, <4>1
    <3>2. ReferenceState = Strongest(1..n)
      BY <1>2, <2>2, <3>1
    <3>3. CASE n = 0
      <4>1. 1..n = {}
        BY <3>3
      <4>2. Strongest(1..n) = Unobserved
        BY <4>1 DEF Strongest, Unobserved
      <4> QED BY <2>2, <2>4, <3>2, <3>3, <4>2
    <3>4. CASE n # 0
      <4>1. u < n /\ u + 1 = 1
        BY <2>1, <2>4, <3>4
      <4> QED BY <2>3, <3>2, <4>1
    <3> QED BY <3>3, <3>4
  <2>5. CASE u # 0
    <3>1. u \in lost /\ \A y \in lost : y <= u
      <4>1. u \in 1..n /\ u > 0
        BY <2>5
      <4>2. \A y \in 1..n : y > u \/ y <= u
        OBVIOUS
      <4> QED BY <1>3, <2>2, <4>1, <4>2
    <3>2. lost # {} /\ Max(lost) = u
      BY <1>1, <3>1, MaxIs
    <3>3. ReferenceState = IF u = n THEN "uncertain" ELSE Strongest((u + 1)..n)
      BY <1>2, <2>2, <3>2
    <3>4. u = n \/ (u < n /\ u # n)
      BY <2>1
    <3> QED BY <2>2, <2>3, <2>5, <3>3, <3>4
  <2> QED BY <2>4, <2>5
<1> QED BY <1>5, <1>6, <1>7 DEF References

(* DeriveMessageState's single pass computes the declarative reference, whatever
   was observed and however long the history is. *)
THEOREM HistoryDerivesReference == HistorySpec => []DerivesReference
<1>1. HistoryInit => HistoryInv
  <2> SUFFICES ASSUME HistoryInit PROVE HistoryInv
    OBVIOUS
  <2>1. history = <<>> /\ history \in Seq(MessageStates) /\ Len(history) = 0
    BY DEF HistoryInit
  <2> DEFINE f == [i \in 0..0 |-> Unobserved]
  <2>2. f[0] = Unobserved /\ f = [i \in 0..0 |-> f[i]]
    OBVIOUS
  <2>3. \A i \in 1..0 : f[i] = Observe(f[i - 1], history[i])
    OBVIOUS
  <2> HIDE DEF f
  <2>4. IsFoldOf(history, f)
    BY <2>1, <2>2, <2>3, FoldFromSteps
  <2>5. OpenSince(history, 0, Unobserved) /\ 0 \in 0..Len(history)
    BY <2>1 DEF OpenSince
  <2>6. References(history, f[Len(history)])
    BY <2>1, <2>2, <2>5 DEF References
  <2> QED BY <2>1, <2>4, <2>6 DEF HistoryInv
<1>2. HistoryInv /\ [HistoryNext]_history => HistoryInv'
  <2> SUFFICES ASSUME HistoryInv, [HistoryNext]_history PROVE HistoryInv'
    OBVIOUS
  <2>1. CASE UNCHANGED history
    BY <2>1 DEF HistoryInv
  <2>2. CASE HistoryNext
    <3>1. PICK s \in MessageStates : history' = Append(history, s)
      BY <2>2 DEF HistoryNext, InsertMessageStatus
    <3>2. PICK h \in Seq(MessageStates) : h = history
      BY DEF HistoryInv
    <3>3. PICK f : IsFoldOf(h, f) /\ References(h, f[Len(h)])
      BY <3>2 DEF HistoryInv
    <3>4. PICK g : /\ IsFoldOf(Append(h, s), g)
                   /\ g[Len(Append(h, s))] = Observe(f[Len(h)], s)
      BY <3>3, FoldExtends
    <3>5. References(Append(h, s), g[Len(Append(h, s))])
      BY <3>3, <3>4, ObserveReferences
    <3>6. history' = Append(h, s) /\ Append(h, s) \in Seq(MessageStates)
      BY <3>1, <3>2
    <3> QED BY <3>4, <3>5, <3>6 DEF HistoryInv
  <2> QED BY <2>1, <2>2
<1>3. HistoryInv => DerivesReference
  <2> SUFFICES ASSUME HistoryInv PROVE DerivesReference
    OBVIOUS
  <2>1. history \in Seq(MessageStates) /\ Len(history) \in Nat
    BY DEF HistoryInv
  <2>2. PICK f : IsFoldOf(history, f) /\ References(history, f[Len(history)])
    BY DEF HistoryInv
  <2>3. DeriveMessageState(history) = f[Len(history)]
    BY <2>1, <2>2, DeriveIsFold
  <2>4. ReferenceState = f[Len(history)]
    BY <2>1, <2>2, ReferencesName
  <2> QED BY <2>3, <2>4 DEF DerivesReference
<1> QED BY <1>1, <1>2, <1>3, PTL DEF HistorySpec
=============================================================================
