------------------------------ MODULE Discovery ------------------------------
(***************************************************************************)
(* The inventory of one org and the syncs that keep it: every integration  *)
(* lists what its provider holds, each asset listed is upserted, and after *)
(* a complete listing the assets that the integration had seen before and  *)
(* did not see now are archived.  Ticks of the leader, manual kicks and a  *)
(* first sync after a connect run concurrently, while integrations are     *)
(* removed and repositories come and go at the provider.                   *)
(*                                                                         *)
(* The integrations of the model are of one provider: those of two differ   *)
(* in every key.  Times are compared only as lastSeenAt < syncStartedAt,    *)
(* so an asset carries the syncs that began after it was last seen.        *)
(***************************************************************************)
EXTENDS Naturals, Sequences, SequencesExt, FiniteSets

CONSTANTS
    Integrations,   \* ids of integrations whose provider has a connector
    Assets,         \* external keys
    Processes,      \* requests and ticks that may be under way at once
    Nobody,         \* no integration
    MaxEvents,      \* bound: changes at the providers, failures, connects, removals, POSTs
    Starts          \* where a run begins: [rows, held, and the events that are spent]

ASSUME DiscoveryAssumption ==
    /\ Nobody \notin Integrations
    /\ IsFiniteSet(Assets)
    /\ MaxEvents \in Nat
    /\ \A s \in Starts : /\ s.rows \subseteq Integrations
                          /\ s.held \in [Integrations -> Seq(Assets)]
                          /\ s.spent \in 0..MaxEvents

VARIABLES
    rows,       \* the integrations that exist and are enabled
    inventory,  \* assets: [state: absent, live or archived, integration, source, stale]
    held,       \* what the provider of an integration lists, in its order
    sync,       \* processes: [queue, at, phase, page, batch, since, owed]
    post,       \* the POST under way: [asset, integration: of the row it read, source, since]
    events      \* number of environment events so far

vars == <<rows, inventory, held, sync, post, events>>

\* queue: integrations read and not synced yet; at: the one being synced; phase:
\* its listing is being read, is read to its end, or the rest is archived; page:
\* the position asked for next; batch: what the last page held and is not
\* upserted yet; since: the syncs that began after the upsert of the first of them,
\* or a POST, took the time that it writes; owed (history): the assets that at's
\* listing held when its sync began, without those that such an overtaken write
\* made older than the sync, and none once one that was read already is deleted,
\* which shifts the rest.
Idle == [queue |-> {}, at |-> Nobody, phase |-> "reading", page |-> 0, batch |-> <<>>,
         since |-> {}, owed |-> {}]
NoPost == [asset |-> Nobody, integration |-> Nobody, source |-> "other", since |-> {}]
NoAsset == [state |-> "absent", integration |-> Nobody, source |-> "other", stale |-> {}]
Sources == {"provider", "other"}

TypeOK ==
    /\ rows \subseteq Integrations
    /\ inventory \in [Assets -> [state : {"absent", "live", "archived"},
                                 integration : Integrations \cup {Nobody},
                                 source : Sources, stale : SUBSET Processes]]
    /\ \A i \in Integrations : ToSet(held[i]) \subseteq Assets /\ IsInjective(held[i])
    /\ \A p \in Processes :
         /\ sync[p].queue \subseteq Integrations /\ sync[p].at \in Integrations \cup {Nobody}
         /\ sync[p].phase \in {"reading", "read", "archived"}
         /\ sync[p].page \in 0..(Cardinality(Assets) + 1)
         /\ ToSet(sync[p].batch) \cup sync[p].owed \subseteq Assets
         /\ sync[p].since \subseteq Processes \ {p}
    /\ post = NoPost \/ post \in [asset : Assets, integration : Integrations \cup {Nobody},
                                  source : Sources, since : SUBSET Processes]
    /\ events \in 0..MaxEvents

Init ==
    /\ \E s \in Starts : rows = s.rows /\ held = s.held /\ events = s.spent
    /\ inventory = [a \in Assets |-> NoAsset]
    /\ sync = [p \in Processes |-> Idle]
    /\ post = NoPost

Live(a) == inventory[a].state = "live"

-----------------------------------------------------------------------------
(***************************************************************************)
(* Syncs                                                                   *)
(***************************************************************************)
\* A tick of the leader, or a kick: the enabled integrations are read once.  (One
\* whose provider has no connector is passed over with a warning.)
Sweep(p) ==
    /\ sync[p] = Idle /\ rows # {}
    /\ sync' = [sync EXCEPT ![p].queue = rows]
    /\ UNCHANGED <<rows, inventory, held, post, events>>

\* A connect: the row, its secret, and a sync of it by the same request.  Its id
\* is new: no sync works on a row that had it.
ConnectGitHub(p, i) ==
    /\ sync[p] = Idle /\ i \notin rows /\ events < MaxEvents
    /\ \A q \in Processes : i \notin sync[q].queue \cup {sync[q].at}
    /\ post.integration # i
    /\ rows' = rows \cup {i}
    /\ sync' = [sync EXCEPT ![p].queue = {i}]
    /\ events' = events + 1
    /\ UNCHANGED <<inventory, held, post>>

\* syncStartedAt = now: whatever was seen before is older than this sync, and so
\* will be what those in late write, whose upsert has read its row and the clock.
Begin(p, i, late) ==
    /\ sync[p].at = Nobody /\ i \in sync[p].queue
    /\ \A q \in late : sync[q].batch # <<>>
    /\ \A q \in Processes : sync[q].since # {} => q \in late
    /\ sync' = [q \in Processes |->
                  IF q = p THEN [Idle EXCEPT !.queue = sync[p].queue \ {i}, !.at = i, !.page = 1,
                                             !.owed = ToSet(held[i])]
                  ELSE [sync[q] EXCEPT !.since = IF q \in late THEN @ \cup {p} ELSE @]]
    /\ post' = [post EXCEPT !.since = IF post = NoPost THEN @ ELSE @ \cup {p}]
    /\ inventory' = [a \in Assets |-> [inventory[a] EXCEPT !.stale = @ \cup {p}]]
    /\ UNCHANGED <<rows, held, events>>

\* The next page is read, of n assets; the last one says that it is, or an empty
\* one does.  A connector that collects its listing first reads one page.
ReadPage(p, n) ==
    LET i == sync[p].at  next == sync[p].page + n IN
    /\ i # Nobody /\ sync[p].phase = "reading" /\ sync[p].batch = <<>>
    /\ next <= Len(held[i]) + 1 \/ n = 0
    /\ n = 0 => sync[p].page > Len(held[i])
    /\ \E phase \in {"reading", "read"} :
         /\ phase = "read" => next > Len(held[i])
         /\ n = 0 => phase = "read"
         /\ sync' = [sync EXCEPT ![p].phase = phase, ![p].page = next,
                                ![p].batch = SubSeq(held[i], sync[p].page, next - 1)]
    /\ UNCHANGED <<rows, inventory, held, post, events>>

\* What is written is as old as its upsert: the syncs since then are not owed it.
Overtaken(a, since) ==
    [q \in Processes |-> IF q \in since THEN [sync[q] EXCEPT !.owed = @ \ {a}] ELSE sync[q]]

\* Mutant: a sync does not bring an archived asset back.
UpsertKeepsArchived(p) ==
    LET i == sync[p].at  a == Head(sync[p].batch) IN
    /\ sync[p].batch # <<>> /\ i \in rows
    /\ inventory' = [inventory EXCEPT ![a] =
                       [state |-> IF @.state = "archived" THEN @.state ELSE "live",
                        integration |-> i, source |-> "provider", stale |-> sync[p].since]]
    /\ sync' = [Overtaken(a, sync[p].since) EXCEPT ![p].batch = Tail(@), ![p].since = {}]
    /\ UNCHANGED <<rows, held, post, events>>

\* The first of the page that is left is upserted: it is live, the provider's and
\* the integration's, and seen when its row was read, in the same transaction.  The
\* row of the integration must still be there.
Upsert(p) ==
    LET i == sync[p].at  a == Head(sync[p].batch) IN
    /\ sync[p].batch # <<>> /\ i \in rows
    /\ inventory' = [inventory EXCEPT ![a] =
                       [state |-> "live", integration |-> i, source |-> "provider",
                        stale |-> sync[p].since]]
    /\ sync' = [Overtaken(a, sync[p].since) EXCEPT ![p].batch = Tail(@), ![p].since = {}]
    /\ UNCHANGED <<rows, held, post, events>>

\* Mutant: the assets of the org's other integrations are archived too.
ArchiveStaleOfSource(p) ==
    LET Unseen(a) == Live(a) /\ inventory[a].source = "provider" /\ p \in inventory[a].stale
    IN /\ sync[p].phase = "read" /\ sync[p].batch = <<>>
       /\ inventory' = [a \in Assets |->
                          [inventory[a] EXCEPT !.state = IF Unseen(a) THEN "archived" ELSE @]]
       /\ sync' = [sync EXCEPT ![p].phase = "archived"]
       /\ UNCHANGED <<rows, held, post, events>>

\* archiveStale, once all that was read is upserted.
ArchiveStale(p) ==
    LET Unseen(a) == /\ Live(a) /\ inventory[a].source = "provider"
                     /\ inventory[a].integration = sync[p].at /\ p \in inventory[a].stale
    IN /\ sync[p].phase = "read" /\ sync[p].batch = <<>>
       /\ inventory' = [a \in Assets |->
                          [inventory[a] EXCEPT !.state = IF Unseen(a) THEN "archived" ELSE @]]
       /\ sync' = [sync EXCEPT ![p].phase = "archived"]
       /\ UNCHANGED <<rows, held, post, events>>

\* On to the next integration; syncStartedAt is forgotten.
Leave(p, queue) ==
    /\ sync' = [q \in Processes |-> IF q = p THEN [Idle EXCEPT !.queue = queue]
                                    ELSE [sync[q] EXCEPT !.since = @ \ {p}]]
    /\ post' = [post EXCEPT !.since = @ \ {p}]
    /\ inventory' = [a \in Assets |-> [inventory[a] EXCEPT !.stale = @ \ {p}]]
    /\ UNCHANGED <<rows, held>>

\* lastSyncAt: the sync is complete.
Done(p) ==
    /\ sync[p].phase = "archived" /\ sync[p].at \in rows
    /\ Leave(p, sync[p].queue) /\ UNCHANGED events

\* The listing, an upsert or the archiving throws: lastSyncError, and on to the
\* next.
Fail(p) ==
    /\ sync[p].at \in rows /\ events < MaxEvents
    /\ Leave(p, sync[p].queue) /\ events' = events + 1

\* The integration is gone: the upsert violates its foreign key or the final
\* update finds no row, and so does the update in the catch block.  The error
\* leaves the loop, and with it the integrations that were still to come.
Abort(p) ==
    /\ sync[p].at \notin rows \cup {Nobody}
    /\ sync[p].batch # <<>> \/ sync[p].phase = "archived"
    /\ Leave(p, {}) /\ UNCHANGED events

\* The process dies in the middle of a sync, or a request fails of one whose
\* integration is gone.
Crash(p) ==
    /\ sync[p] # Idle /\ events < MaxEvents
    /\ Leave(p, {}) /\ events' = events + 1

-----------------------------------------------------------------------------
(***************************************************************************)
(* The rest of the world                                                   *)
(***************************************************************************)
\* POST /internal/assets: the row is read, and in the same transaction written as
\* the body says, seen when it was read and of whichever source, with the
\* integration that was read.  (READ COMMITTED: a sync may write it in between.)
PostAsset(a, source) ==
    /\ post = NoPost /\ events < MaxEvents
    /\ post' = [asset |-> a, integration |-> inventory[a].integration, source |-> source,
                since |-> {}]
    /\ events' = events + 1
    /\ UNCHANGED <<rows, inventory, held, sync>>

\* An integration that is gone violates the foreign key: nothing is written.
WritePosted ==
    /\ post # NoPost
    /\ IF post.integration \notin rows \cup {Nobody} THEN UNCHANGED <<inventory, sync>>
       ELSE /\ inventory' = [inventory EXCEPT ![post.asset] =
                               [state |-> "live", integration |-> post.integration,
                                source |-> post.source, stale |-> post.since]]
            /\ sync' = Overtaken(post.asset, post.since)
    /\ post' = NoPost
    /\ UNCHANGED <<rows, held, events>>

\* DELETE /integrations/:id: the secret and the row; its assets stay, nobody's.
RemoveIntegration(i) ==
    /\ i \in rows /\ events < MaxEvents
    /\ rows' = rows \ {i}
    /\ inventory' = [a \in Assets |-> [inventory[a] EXCEPT
                       !.integration = IF @ = i THEN Nobody ELSE @]]
    /\ events' = events + 1
    /\ UNCHANGED <<held, sync, post>>

\* A repository is created at the provider, wherever its order puts it, or deleted.
Appear(i, a) ==
    /\ a \notin ToSet(held[i]) /\ events < MaxEvents
    /\ \E k \in 1..(Len(held[i]) + 1) : held' = [held EXCEPT ![i] = InsertAt(@, k, a)]
    /\ events' = events + 1
    /\ UNCHANGED <<rows, inventory, sync, post>>

Disappear(i, a) ==
    /\ events < MaxEvents
    /\ \E k \in DOMAIN held[i] :
         /\ held[i][k] = a /\ held' = [held EXCEPT ![i] = RemoveAt(@, k)]
         /\ sync' = [p \in Processes |->
                       IF sync[p].at # i THEN sync[p]
                       ELSE [sync[p] EXCEPT !.owed = IF k < sync[p].page THEN {} ELSE @ \ {a}]]
    /\ events' = events + 1
    /\ UNCHANGED <<rows, inventory, post>>

Step(p) ==
    \/ \E i \in Integrations, late \in SUBSET Processes : Begin(p, i, late)
    \/ \E n \in 0..Cardinality(Assets) : ReadPage(p, n)
    \/ Upsert(p) \/ ArchiveStale(p) \/ Done(p) \/ Abort(p)

Next ==
    \/ \E p \in Processes : Sweep(p) \/ Step(p) \/ Fail(p) \/ Crash(p)
    \/ \E p \in Processes, i \in Integrations : ConnectGitHub(p, i)
    \/ \E i \in Integrations : RemoveIntegration(i)
    \/ \E i \in Integrations, a \in Assets : Appear(i, a) \/ Disappear(i, a)
    \/ \E a \in Assets, source \in Sources : PostAsset(a, source)
    \/ WritePosted

\* The leader's interval keeps sweeping, a sync that was begun goes on, and so
\* does a POST.
Fairness == WF_vars(WritePosted) /\ \A p \in Processes : WF_vars(Sweep(p)) /\ WF_vars(Step(p))
Spec == Init /\ [][Next]_vars /\ Fairness

-----------------------------------------------------------------------------
(***************************************************************************)
(* Properties                                                              *)
(***************************************************************************)
\* An asset is archived only by a sync of the very integration that saw it
\* last, and only if that sync was not owed it: never after a failed listing,
\* never one of a second integration of the org, and never one that the provider
\* listed from the start of the sync to the end.  (One that is created during the
\* sync, on a page that is read already, was not listed at its start.  A deletion
\* on such a page shifts the ones behind it past the reader.  An upsert that took
\* its time before the sync began, and is written after the sync's own, makes the
\* asset look unseen.)
ArchivedWasGone ==
    [][\A a \in Assets : Live(a) /\ inventory'[a].state = "archived" =>
          \E p \in Processes :
            /\ sync[p].phase = "read" /\ sync'[p].phase = "archived"
            /\ inventory[a].integration = sync[p].at
            /\ a \notin sync[p].owed]_vars

\* Once the world stands still, and no more upserts are overtaken, the inventory
\* agrees with it, whatever syncs overlapped, failed or were aborted by a removal
\* on the way: what a connected provider lists is live, and what is live and
\* belongs to an integration is listed by it.  (What a removed integration left
\* behind stays live for ever, and so does what a POST says is of another source,
\* or wrote over a row that it read as nobody's, once it is not listed any more.)
Listed(a) == \E i \in rows : a \in ToSet(held[i])
Agrees ==
    \A a \in Assets :
      /\ Listed(a) => Live(a)
      /\ Live(a) /\ inventory[a].integration # Nobody /\ inventory[a].source = "provider" =>
           a \in ToSet(held[inventory[a].integration])
Overtaking == post.since # {} \/ \E p \in Processes : sync[p].since # {}
Converges == <>[]~Overtaking => <>[]Agrees
=============================================================================
