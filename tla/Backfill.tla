------------------------------ MODULE Backfill ------------------------------
(***************************************************************************)
(* History backfill of one connection: the worker inside the actor         *)
(* (provider/gmessages/backfill_runtime.go), its checkpoint rows           *)
(* (store/postgres/backfill.go) and the cursor breaker of CommitEnvelope   *)
(* (store/postgres/messages.go).                                           *)
(*                                                                         *)
(* The provider lists conversations page by page; every conversation has   *)
(* message pages of its own.  A page arrives as an envelope that commits   *)
(* before the worker sees it.  The worker asks, waits and then writes      *)
(* under the lease: between the three another owner may have done the      *)
(* same.  What a page holds besides its cursor is Ingress' matter.         *)
(***************************************************************************)
EXTENDS ConnectionLease, Sequences, SequencesExt, FiniteSets

CONSTANTS Conversations,   \* provider conversation IDs
          Cursors,         \* provider cursors
          NoCursor,        \* the empty cursor: the first page, or no further one
          Listing,         \* cursor scope of the conversation list (_provider_page)
          MaxAdvances,     \* MaxProviderCursorAdvances
          HistoryLimit,    \* the cursors a scope remembers (OFFSET of the prune)
          MaxPages         \* bound on the listing pages staged, above MaxAdvances

ASSUME BackfillAssumption ==
    /\ {MaxAdvances, HistoryLimit, MaxPages} \subseteq Nat
    /\ NoCursor \notin Cursors
    /\ Listing \notin Conversations
    /\ MaxPages > MaxAdvances

VARIABLES committed,    \* committed_cursor of every scope
          history,      \* provider_cursor_history: newest last
          budget,       \* provider_cursor_budgets
          checkpoint,   \* provider_backfill_checkpoints
          worker,       \* the invocation running in each process
          finished,     \* conversations whose last page is committed since they were staged
          moves         \* times the listing cursor moved

backfillVars == <<lease, held, committed, history, budget, checkpoint, worker, finished, moves>>

-----------------------------------------------------------------------------
Scopes == Conversations \cup {Listing}
NoCheckpoint == [id |-> 0, next |-> NoCursor, terminal |-> FALSE,
                 done |-> FALSE, items |-> <<>>]
(* What an invocation holds: the scope it asked, the base cursor it loaded,
   the checkpoint it saw, and the page once it is committed. *)
Resting == [step |-> "idle", scope |-> Listing, base |-> NoCursor, id |-> 0,
            next |-> NoCursor, items |-> <<>>]

BackfillInit ==
    /\ LeaseInit
    /\ committed = [s \in Scopes |-> NoCursor]
    /\ history = [s \in Scopes |-> <<>>]
    /\ budget = [s \in Scopes |-> [used |-> 0, exhausted |-> FALSE]]
    /\ checkpoint = NoCheckpoint
    /\ worker = [o \in Owners |-> Resting]
    /\ finished = {}
    /\ moves = 0

Known(s, c) == \E i \in DOMAIN history[s] : history[s][i].cursor = c
BaseOf(s, c) == history[s][CHOOSE i \in DOMAIN history[s] : history[s][i].cursor = c].base

\* The prune: the newest HistoryLimit entries stay.
Pruned(h) == IF Len(h) <= HistoryLimit THEN h
             ELSE SubSeq(h, Len(h) - HistoryLimit + 1, Len(h))

Seeded(s, base) ==
    IF base = NoCursor \/ Known(s, base) THEN history[s]
    ELSE Append(history[s], [cursor |-> base, base |-> NoCursor])

-----------------------------------------------------------------------------
(* RunConnection reads the checkpoint and asks for the page that is due: the
   next page of the listing, or one more of the first pending conversation. *)
PendingItems == {i \in DOMAIN checkpoint.items : checkpoint.items[i].state = "pending"}
FirstPending == CHOOSE i \in PendingItems : \A j \in PendingItems : i <= j

Ask(o) ==
    LET scope == IF checkpoint.id = 0 THEN Listing
                 ELSE checkpoint.items[FirstPending].conv
    IN  /\ held[o] # 0 /\ worker[o].step = "idle"
        /\ ~checkpoint.done
        /\ checkpoint.id = 0 \/ PendingItems # {}
        /\ worker' = [worker EXCEPT ![o] = [Resting EXCEPT !.step = "asked", !.scope = scope,
                                              !.base = committed[scope], !.id = checkpoint.id]]
        /\ UNCHANGED <<lease, held, committed, history, budget, checkpoint, finished, moves>>

(* The answer that ends an invocation with nothing written: the request
   failed, or its waiter was cancelled and a late answer finds no request. *)
AskFails(o) ==
    /\ worker[o].step # "idle"
    /\ worker' = [worker EXCEPT ![o] = Resting]
    /\ UNCHANGED <<lease, held, committed, history, budget, checkpoint, finished, moves>>

Answered(o, next, items) ==
    worker' = [worker EXCEPT ![o].step = "answered", ![o].next = next, ![o].items = items]
Poisoned(o) == worker' = [worker EXCEPT ![o].step = "poisoned"]

(* CommitEnvelope of a page without a further cursor. *)
CommitLastPage(o, items) ==
    LET s == worker[o].scope IN
    /\ worker[o].step = "asked"
    /\ OwnsLease(o)
    /\ Answered(o, NoCursor, items)
    /\ finished' = IF s = Listing THEN finished ELSE finished \cup {s}
    /\ UNCHANGED <<lease, held, committed, history, budget, checkpoint, moves>>

(* The breaker: a cursor seen after another base is a cycle; a new one costs
   one advance of the budget. *)
CursorVerdict(s, base, next) ==
    IF budget[s].exhausted THEN "rejected"
    ELSE IF Known(s, next) THEN IF BaseOf(s, next) = base THEN "known" ELSE "cycle"
    ELSE IF budget[s].used >= MaxAdvances THEN "exhausted"
    ELSE IF next = base THEN "collision" ELSE "fresh"

(* CommitEnvelope of a page with a further cursor.  A message page moves its
   conversation's cursor at once, the listing's only moves with its checkpoint.
   A cycle or an exhausted budget poisons the envelope. *)
CommitCursorPage(o, next, items) ==
    LET s == worker[o].scope
        base == worker[o].base
        verdict == CursorVerdict(s, base, next)
    IN  /\ worker[o].step = "asked"
        /\ OwnsLease(o)
        /\ verdict # "collision"
        /\ IF verdict \in {"known", "fresh"}
           THEN /\ Answered(o, next, items)
                /\ committed' = IF s = Listing THEN committed
                                ELSE [committed EXCEPT ![s] = next]
                /\ finished' = finished \ {s}
           ELSE Poisoned(o) /\ UNCHANGED <<committed, finished>>
        /\ history' = IF verdict = "fresh"
                      THEN [history EXCEPT ![s] =
                              Pruned(Append(Seeded(s, base), [cursor |-> next, base |-> base]))]
                      ELSE history
        /\ budget' = [budget EXCEPT ![s] =
                        CASE verdict = "fresh"     -> [@ EXCEPT !.used = @ + 1]
                          [] verdict = "exhausted" -> [@ EXCEPT !.exhausted = TRUE]
                          [] OTHER                 -> @]
        /\ UNCHANGED <<lease, held, checkpoint, moves>>

(* A page that does not decode or crosses its conversation. *)
CommitPoisonedPage(o) ==
    /\ worker[o].step = "asked"
    /\ OwnsLease(o)
    /\ Poisoned(o)
    /\ UNCHANGED <<lease, held, committed, history, budget, checkpoint, finished, moves>>

-----------------------------------------------------------------------------
(* stage_backfill_page: the committed listing cursor is still the base of the
   page, and there is no checkpoint. *)
Stageable(o) == checkpoint.id = 0 /\ committed[Listing] = worker[o].base

Done(o) == worker' = [worker EXCEPT ![o] = Resting]

(* StageBackfillPageFenced.  id stands for the random checkpoint_id. *)
StageBackfillPage(o) ==
    /\ worker[o].step = "answered" /\ worker[o].scope = Listing
    /\ OwnsLease(o)
    /\ Stageable(o)
    /\ moves < MaxPages
    /\ checkpoint' = [id |-> moves + 1, next |-> worker[o].next,
                      terminal |-> worker[o].next = NoCursor, done |-> FALSE,
                      items |-> worker[o].items]
    /\ finished' = finished \ {item.conv : item \in Range(worker[o].items)}
    /\ Done(o)
    /\ UNCHANGED <<lease, held, committed, history, budget, moves>>

(* MarkBackfillItemFenced: complete after the last message page, poisoned
   after a poisoned one.  After any other page nothing is marked. *)
ItemOf(o) == CHOOSE i \in DOMAIN checkpoint.items : checkpoint.items[i].conv = worker[o].scope

MarkBackfillItem(o) ==
    LET state == IF worker[o].step = "poisoned" THEN "poisoned" ELSE "complete"
    IN  /\ worker[o].scope # Listing
        /\ \/ worker[o].step = "poisoned"
           \/ worker[o].step = "answered" /\ worker[o].next = NoCursor
        /\ OwnsLease(o)
        /\ checkpoint.id = worker[o].id
        /\ ItemOf(o) \in PendingItems
        /\ checkpoint' = [checkpoint EXCEPT !.items[ItemOf(o)].state = state]
        /\ Done(o)
        /\ UNCHANGED <<lease, held, committed, history, budget, finished, moves>>

(* Mutant: poisoned conversations do not hold the page back. *)
PageCompleteButPoison == PendingItems = {}

\* item_states <@ ARRAY['complete']
PageComplete == \A i \in DOMAIN checkpoint.items : checkpoint.items[i].state = "complete"

(* CompleteBackfillPageFenced: the listing cursor moves and the checkpoint
   goes, or the scan is complete and the breaker is reset. *)
CompleteBackfillPage(o) ==
    /\ held[o] # 0 /\ worker[o].step = "idle"
    /\ OwnsLease(o)
    /\ checkpoint.id # 0 /\ ~checkpoint.done
    /\ PageComplete
    /\ IF checkpoint.terminal
       THEN /\ checkpoint' = [checkpoint EXCEPT !.done = TRUE]
            /\ history' = [s \in Scopes |-> <<>>]
            /\ budget' = [s \in Scopes |-> [used |-> 0, exhausted |-> FALSE]]
            /\ UNCHANGED <<committed, moves>>
       ELSE /\ committed' = [committed EXCEPT ![Listing] = checkpoint.next]
            /\ checkpoint' = NoCheckpoint
            /\ moves' = moves + 1
            /\ UNCHANGED <<history, budget>>
    /\ UNCHANGED <<lease, held, worker, finished>>

-----------------------------------------------------------------------------
\* The conversations of a page, distinct: a repeated or invalid one is staged
\* as poisoned.
Pages == {<<>>}
         \cup {<<[conv |-> c, state |-> s]>> : c \in Conversations, s \in {"pending", "poisoned"}}
         \cup {<<[conv |-> p[1], state |-> "pending"], [conv |-> p[2], state |-> "pending"]>> :
                 p \in {q \in Conversations \X Conversations : q[1] # q[2]}}

BackfillLease ==
    /\ LeaseNext
    /\ worker' = [o \in Owners |-> IF held'[o] = 0 THEN Resting ELSE worker[o]]
    /\ UNCHANGED <<committed, history, budget, checkpoint, finished, moves>>

BackfillNext ==
    \/ \E o \in Owners :
         \/ Ask(o) \/ AskFails(o) \/ CommitPoisonedPage(o)
         \/ \E items \in Pages :
              /\ worker[o].scope = Listing \/ items = <<>>
              /\ \/ CommitLastPage(o, items)
                 \/ \E next \in Cursors : CommitCursorPage(o, next, items)
         \/ StageBackfillPage(o) \/ MarkBackfillItem(o) \/ CompleteBackfillPage(o)
    \/ BackfillLease

BackfillSpec == BackfillInit /\ [][BackfillNext]_backfillVars

-----------------------------------------------------------------------------
(* "the parent cursor never advances over them": when the listing cursor moves
   or the scan completes, every conversation of the page has had its last
   message page committed and none is poisoned, whichever owners fetched them. *)
ListingMovesAfterChildren ==
    [][\/ committed'[Listing] # committed[Listing]
       \/ checkpoint'.done /\ ~checkpoint.done
       => \A i \in DOMAIN checkpoint.items :
             /\ checkpoint.items[i].state = "complete"
             /\ checkpoint.items[i].conv \in finished]_backfillVars

(* "A durable per-connection/scope advance budget bounds pagination even when a
   malicious provider cycle is larger than the short fingerprint history": in one
   scan the listing cursor moves at most MaxAdvances times, however the provider's
   cursors loop and whatever the pruned history has forgotten. *)
ScanIsBounded == moves <= MaxAdvances
=============================================================================
