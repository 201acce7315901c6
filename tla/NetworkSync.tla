---------------------------- MODULE NetworkSync ----------------------------
(***************************************************************************)
(* How a node gets the blocks it lacks from its peers (net/node.cpp and    *)
(* the callbacks of app/application.cpp).  It asks each peer for the ids   *)
(* after a synopsis of its chain, asks one peer or another for each block, *)
(* hands a block to the delegate when it is the next one of some peer, and *)
(* asks for ids again until the peer has no more; from then on the peer    *)
(* advertises its new blocks and the node fetches them one by one.         *)
(*                                                                         *)
(* The handlers run as fibers of one thread; the delegate's handle_block   *)
(* runs in another thread, so that a fiber waits for it and others go on   *)
(* meanwhile.  Every other handler is one step here, the short questions   *)
(* it puts to the delegate included.  Messages of one connection arrive in *)
(* order.                                                                  *)
(*                                                                         *)
(* Abstractions.  A block is its id and its parent; the whole chain is     *)
(* within the undo history, so the synopsis begins at block 1.  The peers  *)
(* are ahead of the node: peer_needs_sync_items_from_us is false, and so   *)
(* inhibit_fetching_sync_blocks, since the delegate throws no              *)
(* block_older_than_undo_history in handle_block.  A peer of this code     *)
(* never sends an item_not_available_message for a block, because get_item *)
(* asserts where key_not_found would be caught; another may, as often as   *)
(* MaxMissing allows.  The assertions of the network code are compiled     *)
(* out, as in a release build.  Timestamps, hard fork numbers, expiry of   *)
(* items and the propagation to other nodes are left out.                  *)
(***************************************************************************)
EXTENDS Naturals, Sequences, FiniteSets, SequencesExt

CONSTANTS
    Peers,
    Blocks,
    Genesis,      \* stands for item_hash_t(): no block
    Parent,       \* the block each block builds on
    Invalid,      \* blocks that push_block rejects
    Start,        \* head of the node when it starts
    PeerStart,    \* head of each peer then
    IdsLimit,     \* how many ids get_block_ids returns
    MinIds,       \* GRAPHENE_NET_MIN_BLOCK_IDS_TO_PREFETCH
    PerPeer,      \* _maximum_blocks_per_peer_during_syncing
    MaxHandle,    \* _maximum_number_of_blocks_to_handle_at_one_time
    MaxReceived,  \* _maximum_number_of_sync_blocks_to_prefetch
    MaxLost,      \* bound: how often each connection is lost
    MaxAdvances,  \* bound: how often each peer gets a new head
    MaxMissing    \* bound: for how many blocks each peer says it lacks them

ASSUME SyncAssumption ==
    /\ Genesis \notin Blocks
    /\ Parent \in [Blocks -> Blocks \cup {Genesis}]
    /\ IsFiniteSet(Peers)
    /\ Start \in Blocks \cup {Genesis}
    /\ PeerStart \in [Peers -> Blocks \cup {Genesis}]
    /\ {IdsLimit, PerPeer, MaxHandle, MaxReceived} \subseteq Nat \ {0}
    /\ MinIds \in Nat
    /\ {MaxLost, MaxAdvances, MaxMissing} \subseteq [Peers -> Nat]

(* Every block goes back to a first one: no set of blocks holds the parent *)
(* of each of its members.                                                 *)
ASSUME TreeAssumption ==
    \A S \in SUBSET Blocks : S # {} => \E b \in S : Parent[b] \notin S

VARIABLES
    known,      \* blocks the delegate has
    head,       \* its head block
    calls,      \* calls of handle_block: waiting ones and ones that returned
    conn,       \* the peer_connection of each peer
    active,     \* _active_sync_requests
    received,   \* _received_sync_items
    fresh,      \* _new_received_sync_items, the oldest one first
    accepted,   \* _most_recent_blocks_accepted
    items,      \* _items_to_fetch
    suspended,  \* _suspend_fetching_sync_blocks
    wake,       \* which of the loops has been triggered
    out, in,    \* messages under way to and from each peer
    peerHead,   \* head block of each peer
    serving,    \* the peer's peer_needs_sync_items_from_us for this node
    events,     \* how often each was lost, got a new head, lacked a block
    denied      \* history: blocks of a sync request that a peer said it lacks

vars == <<known, head, calls, conn, active, received, fresh, accepted, items,
          suspended, wake, out, in, peerHead, serving, events, denied>>

peerVars == <<peerHead, serving>>

(* The chain up to a block, and the number of a block.                     *)
ChainTo[b \in Blocks \cup {Genesis}] ==
    IF b = Genesis THEN <<>> ELSE Append(ChainTo[Parent[b]], b)
Number(b) == Len(ChainTo[b])

NotAsked == <<"not asked">>

(* A peer_connection as it is made.                                        *)
Fresh ==
    [st |-> "active", need |-> TRUE, toGet |-> <<>>, processing |-> {}, unfetched |-> 0,
     asked |-> NotAsked, want |-> {}, wantItem |-> {}, told |-> {}, offered |-> {},
     seen |-> Genesis]

Active(c)    == {p \in Peers : c[p].st = "active"}
IsIdle(c)    == c.want = {} /\ c.wantItem = {} /\ c.asked = NotAsked
SyncCalls(s) == Cardinality({i \in DOMAIN s : s[i].sync})
-----------------------------------------------------------------------------
(* The synopsis: block 1, then half of the way to the last block, half of  *)
(* the rest, and so on.  get_blockchain_synopsis goes up to the last block *)
(* of the peer that was pushed, or the head; the network code goes on with *)
(* the ids it has of the peer.  Of the rungs up to high each takes its     *)
(* own.                                                                    *)
Rungs(high, own) ==
    LET from[n \in 1 .. high + 1] ==
            IF n > high THEN <<>>
            ELSE (IF n \in own THEN <<n>> ELSE <<>>) \o from[n + (high - n + 2) \div 2]
    IN  from[1]

get_blockchain_synopsis(h, seen, more) ==
    LET c == ChainTo[IF seen = Genesis THEN h ELSE seen]
        r == Rungs(Len(c) + more, 1 .. Len(c))
    IN  [i \in DOMAIN r |-> c[r[i]]]

create_blockchain_synopsis(h, c) ==
    LET first == Number(c.toGet[1])
        last  == first + Len(c.toGet) - 1
        r     == Rungs(last, first .. last)
    IN  get_blockchain_synopsis(h, c.seen, Len(c.toGet))
        \o IF c.toGet = <<>> THEN <<>> ELSE [i \in DOMAIN r |-> c.toGet[r[i] - first + 1]]

(* fetch_next_batch_of_item_ids_from_peer and start_synchronizing_with_peer*)
(* on a connection; what they send is Sent.  The delegate throws if it does*)
(* not have the block the synopsis goes up to, which ends the read loop.   *)
AskIds(h, c)  == IF c.seen \in known \cup {Genesis}
                 THEN [c EXCEPT !.asked = create_blockchain_synopsis(h, c)]
                 ELSE [c EXCEPT !.st = "failed"]
Restart(h, c) == AskIds(h, [c EXCEPT !.toGet = <<>>, !.unfetched = 0, !.need = TRUE,
                                     !.seen = Genesis])
Sent(c)       == [type |-> "fetch_ids", ids |-> c.asked]

Asking(ps, c) ==
    [p \in Peers |-> IF p \in ps /\ c[p].st # "failed" THEN Append(out[p], Sent(c[p])) ELSE out[p]]

Init ==
    /\ known = ToSet(ChainTo[Start]) /\ head = Start
    /\ calls = <<>>
    /\ conn = [p \in Peers |-> Restart(Start, Fresh)]
    /\ active = {} /\ received = <<>> /\ fresh = <<>> /\ items = {}
    /\ accepted = {Start}
    /\ suspended = FALSE
    /\ wake = {}
    /\ out = [p \in Peers |-> <<Sent(conn[p])>>]
    /\ in = [p \in Peers |-> <<>>]
    /\ peerHead = PeerStart
    /\ serving = [p \in Peers |-> TRUE]
    /\ events = [p \in Peers |-> [lost |-> 0, advances |-> 0, missing |-> 0]]
    /\ denied = {}
-----------------------------------------------------------------------------
(* The peers.  get_block_ids: the ids from the last one of the synopsis on *)
(* that is in the peer's chain, and how many there are after them.         *)
get_block_ids(h, synopsis) ==
    LET c    == ChainTo[h]
        last == SelectLastInSeq(synopsis, LAMBDA b : Contains(c, b))
        from == IF synopsis = <<>> THEN 1 ELSE Number(synopsis[last])
        ids  == SubSeq(c, from, IF Len(c) < from + IdsLimit - 1 THEN Len(c)
                                                                ELSE from + IdsLimit - 1)
    IN  IF synopsis # <<>> /\ last = 0
        THEN [ids |-> <<>>, left |-> 0]
        ELSE [ids |-> ids, left |-> Len(c) - (from + Len(ids) - 1)]

(* The answers to a request: the blocks, or item_not_available_message.    *)
Answers(ids, lacks) ==
    [i \in DOMAIN ids |-> [type |-> IF ids[i] \in lacks THEN "missing" ELSE "block",
                           ids |-> <<ids[i]>>, left |-> 0]]

(* on_fetch_blockchain_item_ids_message and on_fetch_items_message, at the *)
(* peer, which may lack some of the blocks.                                *)
PeerReplies(p) ==
    /\ out[p] # <<>>
    /\ LET m == Head(out[p])
           r == get_block_ids(peerHead[p], m.ids)
       IN  IF m.type = "fetch_ids"
           THEN /\ in' = [in EXCEPT ![p] = Append(@, [type |-> "ids", ids |-> r.ids, left |-> r.left])]
                /\ serving' = [serving EXCEPT ![p] =
                      r.ids # <<>> /\ ~(Len(r.ids) = 1 /\ Contains(m.ids, r.ids[1]))]
                /\ UNCHANGED events
           ELSE /\ \E lacks \in SUBSET ToSet(m.ids) :
                      /\ events[p].missing + Cardinality(lacks) <= MaxMissing[p]
                      /\ events' = [events EXCEPT ![p].missing = @ + Cardinality(lacks)]
                      /\ in' = [in EXCEPT ![p] = @ \o Answers(m.ids, lacks)]
                /\ UNCHANGED serving
    /\ out' = [out EXCEPT ![p] = Tail(@)]
    /\ UNCHANGED <<known, head, calls, conn, active, received, fresh, accepted, items, suspended, wake,
                   peerHead, denied>>

(* A peer gets a higher head, on its chain or on another.  Unless it takes *)
(* the node for one that is behind, it tells it: with an inventory for a   *)
(* block it was sent, with a synopsis of its own for blocks it synced.  A  *)
(* faulty one sends the block itself, or that it lacks it, which nobody    *)
(* asked for.                                                              *)
PeerAdvances(p) ==
    /\ events[p].advances < MaxAdvances[p]
    /\ events' = [events EXCEPT ![p].advances = @ + 1]
    /\ \E b \in Blocks, type \in {"inventory", "synopsis", "block", "missing"} :
          /\ Number(b) > Number(peerHead[p])
          /\ peerHead' = [peerHead EXCEPT ![p] = b]
          /\ in' = IF serving[p] \/ conn[p].st # "active" THEN in
                   ELSE [in EXCEPT ![p] = Append(@, [type |-> type, ids |-> <<b>>, left |-> 0])]
    /\ UNCHANGED <<known, head, calls, conn, active, received, fresh, accepted, items, suspended, wake,
                   out, serving, denied>>
-----------------------------------------------------------------------------
(* Messages from a peer.  The read loop of a connection waits while a      *)
(* block of it, fetched in normal operation, is with the delegate.         *)
Reads(p, type) ==
    /\ conn[p].st \in {"active", "closing"}
    /\ in[p] # <<>> /\ Head(in[p]).type = type
    /\ \A i \in DOMAIN calls : calls[i].sync \/ calls[i].from # p
    /\ in' = [in EXCEPT ![p] = Tail(@)]

Closing(c, ps) == [p \in Peers |-> IF p \in ps THEN [c[p] EXCEPT !.st = "closing"] ELSE c[p]]

(* The ids without the first ones that the delegate has.                   *)
FirstNew(ids) == SelectInSeq(Append(ids, Genesis), LAMBDA b : b \notin known)

(* Mutant of Extended: the block both lists share stays in twice.          *)
ExtendedTwice(p, ids) ==
    LET shared == SelectLastInSeq(conn[p].toGet, LAMBDA b : b = ids[1])
    IN  IF ids = <<>> \/ shared = 0
        THEN [conn[p] EXCEPT !.toGet = SelectSeq(ids, LAMBDA b : b \notin known)]
        ELSE [conn[p] EXCEPT !.toGet = SubSeq(@, 1, shared) \o ids]

(* The list of ids after a reply: a reply that continues the list goes     *)
(* after the block they share, one that does not replaces it.  The ids the *)
(* delegate has already are skipped, unless another peer waits for them.   *)
Extended(p, ids) ==
    LET c      == conn[p]
        shared == SelectLastInSeq(c.toGet, LAMBDA b : b = ids[1])
        others == \E q \in Active(conn) \ {p} : conn[q].toGet # <<>> /\ conn[q].toGet[1] = ids[1]
        n      == FirstNew(ids)
    IN  IF ids = <<>> THEN c
        ELSE IF c.toGet # <<>> /\ shared # 0
             THEN [c EXCEPT !.toGet = SubSeq(@, 1, shared - 1) \o ids]
        ELSE IF c.toGet # <<>>
             THEN [c EXCEPT !.toGet = Tail(ids), !.seen = ids[1]]
        ELSE IF others
             THEN [c EXCEPT !.toGet = ids]
        ELSE [c EXCEPT !.toGet = SubSeq(ids, n, Len(ids)),
                       !.seen  = IF n = 1 THEN @ ELSE ids[n - 1]]

(* on_blockchain_item_ids_inventory_message.                               *)
OnIds(p) ==
    /\ Reads(p, "ids")
    /\ LET m    == Head(in[p])
           c    == conn[p]
           syn  == c.asked
           ok   == m.ids # <<>> =>
                      IF syn = <<>> THEN Number(m.ids[1]) = 1 ELSE Contains(syn, m.ids[1])
           done == /\ m.left = 0 /\ c.toGet = <<>> /\ c.unfetched = 0
                   /\ m.ids = <<>> \/ (Len(m.ids) = 1 /\ m.ids[1] \in known)
           e    == [Extended(p, m.ids) EXCEPT !.asked = NotAsked, !.unfetched = m.left]
           more == IF m.left # 0 THEN Len(e.toGet) <= MinIds ELSE e.toGet = <<>>
           new  == [conn EXCEPT ![p] = AskIds(head, e)]
       IN  \/ /\ syn = NotAsked
              /\ UNCHANGED <<conn, out, wake>>
           \/ /\ syn # NotAsked /\ ~ok
              /\ conn' = Closing(conn, {p})
              /\ UNCHANGED <<out, wake>>
           \/ /\ syn # NotAsked /\ ok /\ done
              /\ conn' = [conn EXCEPT ![p].need = FALSE, ![p].asked = NotAsked]
              /\ UNCHANGED <<out, wake>>
           \/ /\ syn # NotAsked /\ ok /\ ~done /\ more
              /\ conn' = new
              /\ out' = Asking({p}, new)
              /\ UNCHANGED wake
           \/ /\ syn # NotAsked /\ ok /\ ~done /\ ~more
              /\ conn' = [conn EXCEPT ![p] = e]
              /\ wake' = wake \cup {"sync"}
              /\ UNCHANGED out
    /\ UNCHANGED <<known, head, calls, active, received, fresh, accepted, items, suspended,
                   peerVars, events, denied>>

(* on_fetch_blockchain_item_ids_message: the node learns that it lacks the *)
(* last block of a peer it took itself to be in sync with.                 *)
OnSynopsis(p) ==
    /\ Reads(p, "synopsis")
    /\ IF conn[p].need \/ Head(in[p]).ids[1] \in known
       THEN UNCHANGED <<conn, out>>
       ELSE /\ conn' = [conn EXCEPT ![p] = Restart(head, @)]
            /\ out' = Asking({p}, conn')
    /\ UNCHANGED <<known, head, calls, active, received, fresh, accepted, items, suspended, wake,
                   peerVars, events, denied>>

(* on_item_ids_inventory_message.                                          *)
OnInventory(p) ==
    /\ Reads(p, "inventory")
    /\ LET b == Head(in[p]).ids[1]
           new == \A q \in Active(conn) : b \notin conn[q].offered
           fetch == /\ new /\ b \notin items
                    /\ \A q \in Active(conn) : b \notin conn[q].wantItem
       IN  /\ conn' = IF new THEN [conn EXCEPT ![p].told = @ \cup {b}] ELSE conn
           /\ items' = IF fetch THEN items \cup {b} ELSE items
           /\ wake' = IF fetch THEN wake \cup {"items"} ELSE wake
    /\ UNCHANGED <<known, head, calls, active, received, fresh, accepted, suspended, out,
                   peerVars, events, denied>>

(* What follows when a block is accepted in normal operation: the peers    *)
(* that told us of it have it, and the other ones are told.                *)
Broadcast(c, b) ==
    [p \in Peers |-> IF p \notin Active(c) THEN c[p]
                     ELSE IF b \in c[p].told THEN [c[p] EXCEPT !.seen = b]
                     ELSE [c[p] EXCEPT !.offered = @ \cup {b}]]

WakeItems(c) == IF IsIdle(c) THEN {"items"} ELSE {}

(* process_block_message.                                                  *)
OnBlock(p) ==
    /\ Reads(p, "block")
    /\ LET b    == Head(in[p]).ids[1]
           norm == [conn EXCEPT ![p].wantItem = @ \ {b}]
           sync == [conn EXCEPT ![p].want = @ \ {b}]
           more == /\ IsIdle(sync[p]) /\ sync[p].unfetched > 0
                   /\ Len(sync[p].toGet) < MinIds
           new  == [sync EXCEPT ![p] = AskIds(head, @)]
       IN  \/ /\ b \in conn[p].wantItem /\ b \notin accepted
              /\ conn' = norm
              /\ calls' = Append(calls, [block |-> b, sync |-> FALSE, from |-> p, result |-> "waits"])
              /\ UNCHANGED <<active, received, fresh, accepted, wake, out>>
           \/ /\ b \in conn[p].wantItem /\ b \in accepted
              /\ conn' = Broadcast(norm, b)
              /\ wake' = wake \cup WakeItems(norm[p])
              /\ UNCHANGED <<calls, active, received, fresh, accepted, out>>
           \/ /\ b \notin conn[p].wantItem /\ b \in conn[p].want
              /\ active' = active \ {b}
              /\ fresh' = Append(fresh, b)
              /\ conn' = IF more THEN new ELSE sync
              /\ out' = IF more THEN Asking({p}, new) ELSE out
              /\ wake' = wake \cup {"backlog"}
                              \cup IF IsIdle(sync[p]) /\ ~more THEN {"sync"} ELSE {}
              /\ UNCHANGED <<calls, received, accepted>>
           \/ /\ b \notin conn[p].wantItem /\ b \notin conn[p].want
              /\ conn' = Closing(conn, {p})
              /\ UNCHANGED <<calls, active, received, fresh, accepted, wake, out>>
    /\ UNCHANGED <<known, head, items, suspended, peerVars, events, denied>>

(* on_item_not_available_message.  An advertised block is fetched from     *)
(* another peer that told us of it.  A block of the sync is taken out of   *)
(* the requests of the connection, which is closed, but not out of         *)
(* _active_sync_requests.                                                  *)
OnMissing(p) ==
    /\ Reads(p, "missing")
    /\ LET b    == Head(in[p]).ids[1]
           norm == [conn EXCEPT ![p].wantItem = @ \ {b}, ![p].told = @ \ {b}]
           told == \E q \in Active(norm) : b \in norm[q].told
       IN  \/ /\ b \in conn[p].wantItem
              /\ conn' = norm
              /\ items' = IF told THEN items \cup {b} ELSE items
              /\ wake' = wake \cup {"items"}
              /\ UNCHANGED denied
           \/ /\ b \notin conn[p].wantItem /\ b \in conn[p].want
              /\ conn' = Closing([conn EXCEPT ![p].want = @ \ {b}], {p})
              /\ wake' = wake \cup {"sync"}
              /\ denied' = denied \cup {b}
              /\ UNCHANGED items
           \/ /\ b \notin conn[p].wantItem /\ b \notin conn[p].want
              /\ UNCHANGED <<conn, items, wake, denied>>
    /\ UNCHANGED <<known, head, calls, active, received, fresh, accepted, suspended, out,
                   peerVars, events>>
-----------------------------------------------------------------------------
(* Mutant of Open: does not look whether another peer was asked.           *)
OpenAgain(b, taken) == ~Contains(received \o fresh, b) /\ b \notin taken

(* The loops.  fetch_sync_items_loop goes through the peers in some order  *)
(* and gives each idle one blocks that nobody has been asked for.          *)
Open(b, taken) == ~Contains(received \o fresh, b) /\ b \notin active \cup taken

Fetchable(p, taken) ==
    LET ids == conn[p].toGet
        first[n \in 0 .. Len(ids)] ==
            IF n = 0 THEN <<>>
            ELSE IF Len(first[n - 1]) < PerPeer /\ Open(ids[n], taken)
                 THEN Append(first[n - 1], ids[n])
            ELSE first[n - 1]
    IN  IF p \in Active(conn) /\ conn[p].need /\ IsIdle(conn[p]) THEN first[Len(ids)] ELSE <<>>

Scheduled(order) ==
    LET asked[n \in 0 .. Len(order)] ==
            IF n = 0 THEN [p \in Peers |-> <<>>]
            ELSE [asked[n - 1] EXCEPT ![order[n]] =
                    Fetchable(order[n], UNION {ToSet(asked[n - 1][q]) : q \in Peers})]
    IN  asked[Len(order)]

Items(bs) == IF bs = <<>> THEN <<>> ELSE <<[type |-> "fetch_items", ids |-> bs]>>

FetchSyncItems ==
    /\ "sync" \in wake
    /\ wake' = wake \ {"sync"}
    /\ \E order \in SetToSeqs(Peers) :
          LET asked == IF suspended THEN [p \in Peers |-> <<>>] ELSE Scheduled(order)
          IN  /\ conn' = [p \in Peers |-> [conn[p] EXCEPT !.want = @ \cup ToSet(asked[p])]]
              /\ active' = active \cup UNION {ToSet(asked[p]) : p \in Peers}
              /\ out' = [p \in Peers |-> out[p] \o Items(asked[p])]
    /\ UNCHANGED <<known, head, calls, received, fresh, accepted, items, suspended, in, peerVars, events, denied>>

(* fetch_items_loop: each idle peer gets one of the items it told us of.   *)
FetchItems ==
    /\ "items" \in wake
    /\ wake' = wake \ {"items"}
    /\ LET ready(b) == {p \in Active(conn) : IsIdle(conn[p]) /\ b \in conn[p].told}
       IN  \E S \in SUBSET items : \E from \in [S -> Peers] :
              /\ \A b \in S : from[b] \in ready(b)
              /\ \A b, d \in S : from[b] = from[d] => b = d
              /\ \A b \in items \ S : ready(b) \subseteq {from[d] : d \in S}
              /\ items' = items \ S
              /\ conn' = [p \in Peers |-> [conn[p] EXCEPT !.wantItem =
                                             @ \cup {b \in S : from[b] = p}]]
              /\ out' = [p \in Peers |-> out[p] \o
                            IF \E b \in S : from[b] = p
                            THEN Items(<<CHOOSE b \in S : from[b] = p>>) ELSE <<>>]
    /\ UNCHANGED <<known, head, calls, active, received, fresh, accepted, suspended, in, peerVars, events, denied>>

(* Mutant of IsNext: any block that a peer listed will do.                 *)
IsNextAnywhere(c, b) == \E p \in Active(c) : Contains(c[p].toGet, b)

(* process_backlog_of_sync_blocks.  One turn of its loop hands a block to  *)
(* the delegate that is the next one of a peer; a block that was accepted  *)
(* already ends the loop.                                                  *)
IsNext(c, b) == \E p \in Active(c) : c[p].toGet # <<>> /\ c[p].toGet[1] = b

Popped(c, b) ==
    [p \in Peers |-> IF p \in Active(c) /\ c[p].toGet # <<>> /\ c[p].toGet[1] = b
                     THEN [c[p] EXCEPT !.toGet = Tail(@), !.processing = @ \cup {b}]
                     ELSE c[p]]

(* Mutant of Turn: the limit on blocks handled at one time is not kept.    *)
TurnUnlimited(s) ==
    LET n == SelectInSeq(s.received, LAMBDA b : IsNext(s.conn, b))
        b == s.received[n]
    IN  IF s.stop \/ n = 0
        THEN [s EXCEPT !.stop = TRUE]
        ELSE [conn |-> Popped(s.conn, b), received |-> RemoveAt(s.received, n),
              calls |-> Append(s.calls, [block |-> b, sync |-> TRUE, from |-> Genesis, result |-> "waits"]),
              stop |-> FALSE]

Turn(s) ==
    LET n == SelectInSeq(s.received, LAMBDA b : IsNext(s.conn, b))
        b == s.received[n]
        k == Append(s.calls, [block |-> b, sync |-> TRUE, from |-> Genesis, result |-> "waits"])
    IN  IF s.stop \/ n = 0
        THEN [s EXCEPT !.stop = TRUE]
        ELSE IF b \in accepted
        THEN [s EXCEPT !.conn = Popped(@, b), !.stop = TRUE]
        ELSE [conn |-> Popped(s.conn, b), received |-> RemoveAt(s.received, n), calls |-> k,
              stop |-> SyncCalls(k) >= MaxHandle]

Backlog ==
    LET all == fresh \o received
        after[n \in 0 .. Len(all)] ==
            IF n = 0 THEN [conn |-> conn, received |-> all, calls |-> calls, stop |-> FALSE]
            ELSE Turn(after[n - 1])
    IN  after[Len(all)]

ProcessBacklog ==
    /\ "backlog" \in wake
    /\ LET s    == Backlog
           full == SyncCalls(s.calls) >= MaxHandle /\ Len(s.received) >= MaxReceived
       IN  IF SyncCalls(calls) >= MaxHandle
           THEN /\ wake' = wake \ {"backlog"}
                /\ UNCHANGED <<conn, received, fresh, calls, suspended>>
           ELSE /\ conn' = s.conn
                /\ received' = s.received
                /\ fresh' = <<>>
                /\ calls' = s.calls
                /\ suspended' = full
                /\ wake' = (wake \ {"backlog"}) \cup IF full THEN {} ELSE {"sync"}
    /\ UNCHANGED <<known, head, active, accepted, items, out, in, peerVars, events, denied>>
-----------------------------------------------------------------------------
(* The delegate: handle_block takes the calls in order, in its own thread. *)
DelegateHandles ==
    \E i \in DOMAIN calls :
       LET b  == calls[i].block
           r  == IF Parent[b] \notin known \cup {Genesis} THEN "unlinkable"
                 ELSE IF b \in Invalid THEN "rejected" ELSE "accepted"
       IN  /\ calls[i].result = "waits"
           /\ \A j \in 1 .. i - 1 : calls[j].result # "waits"
           /\ calls' = [calls EXCEPT ![i].result = r]
           /\ known' = IF r = "accepted" THEN known \cup {b} ELSE known
           /\ head' = IF r = "accepted" /\ Number(b) > Number(head) THEN b ELSE head
           /\ UNCHANGED <<conn, active, received, fresh, accepted, items, suspended, wake, out, in,
                          peerVars, events, denied>>

(* A call that has returned, with what its fiber does next.                *)
Returned(sync, results) ==
    /\ calls # <<>> /\ Head(calls).sync = sync /\ Head(calls).result \in results
    /\ calls' = Tail(calls)

Finished(c, b) == [c EXCEPT !.seen = b, !.processing = @ \ {b}]

(* send_sync_block_to_node_delegate, the block was accepted.  A peer that  *)
(* has no more to give is asked for ids; one that may lack the block is    *)
(* synchronized again.                                                     *)
SyncAccepted ==
    /\ Returned(TRUE, {"accepted"})
    /\ LET b       == Head(calls).block
           blank   == {p \in Active(conn) : conn[p].toGet = <<>> /\ conn[p].processing = {}}
           with    == {p \in Active(conn) \ blank : b \in conn[p].processing}
           emptied == {p \in with : /\ conn[p].toGet = <<>> /\ conn[p].unfetched = 0
                                    /\ conn[p].processing = {b}}
           again   == {p \in blank : ~conn[p].need}
       IN  /\ accepted' = accepted \cup {b}
           /\ conn' = [p \in Peers |->
                         IF p \in emptied THEN AskIds(head, Finished(conn[p], b))
                         ELSE IF p \in with THEN Finished(conn[p], b)
                         ELSE IF p \in again THEN Restart(head, conn[p])
                         ELSE conn[p]]
           /\ out' = Asking(emptied \cup again, conn')
           /\ wake' = wake \cup {"backlog"}
    /\ UNCHANGED <<known, head, active, received, fresh, items, suspended, in, peerVars, events, denied>>

(* Mutant of SyncRejected: leaves the backlog asleep.                      *)
SyncRejectedSilent ==
    /\ Returned(TRUE, {"rejected", "unlinkable"})
    /\ conn' = Closing(conn, {p \in Active(conn) : Head(calls).block \in conn[p].processing})
    /\ UNCHANGED <<known, head, active, received, fresh, accepted, items, suspended, wake, out, in,
                   peerVars, events, denied>>

(* The same for a block that was not accepted: every peer that offered it  *)
(* is disconnected.                                                        *)
SyncRejected ==
    /\ Returned(TRUE, {"rejected", "unlinkable"})
    /\ conn' = Closing(conn, {p \in Active(conn) : Head(calls).block \in conn[p].processing})
    /\ wake' = wake \cup {"backlog"}
    /\ UNCHANGED <<known, head, active, received, fresh, accepted, items, suspended, out, in,
                   peerVars, events, denied>>

(* process_block_during_normal_operation.                                  *)
NormalAccepted ==
    /\ Returned(FALSE, {"accepted"})
    /\ LET k == Head(calls)
       IN  /\ accepted' = accepted \cup {k.block}
           /\ conn' = Broadcast(conn, k.block)
           /\ wake' = wake \cup WakeItems(conn[k.from])
    /\ UNCHANGED <<known, head, active, received, fresh, items, suspended, out, in, peerVars, events, denied>>

NormalUnlinkable ==
    /\ Returned(FALSE, {"unlinkable"})
    /\ LET p == Head(calls).from
       IN  /\ conn' = [conn EXCEPT ![p] = Restart(head, @)]
           /\ out' = Asking({p}, conn')
    /\ UNCHANGED <<known, head, active, received, fresh, accepted, items, suspended, wake, in,
                   peerVars, events, denied>>

NormalRejected ==
    /\ Returned(FALSE, {"rejected"})
    /\ LET k == Head(calls)
       IN  /\ conn' = Closing(conn, {k.from} \cup {p \in Active(conn) :
                                conn[p].toGet # <<>> /\ conn[p].toGet[1] = k.block})
           /\ wake' = wake \cup WakeItems(conn[k.from])
    /\ UNCHANGED <<known, head, active, received, fresh, accepted, items, suspended, out, in,
                   peerVars, events, denied>>
-----------------------------------------------------------------------------
(* on_connection_closed: what the peer was asked for is asked of others.   *)
Closed(p, st) ==
    /\ \A i \in DOMAIN calls : calls[i].sync \/ calls[i].from # p
    /\ LET c == [conn EXCEPT ![p] = [Fresh EXCEPT !.st = st]]
           again == {b \in conn[p].wantItem : \E q \in Active(c) : b \in conn[q].told}
       IN  /\ conn' = c
           /\ active' = active \ conn[p].want
           /\ items' = items \cup again
           /\ wake' = wake \cup (IF conn[p].want = {} THEN {} ELSE {"sync"})
                           \cup (IF conn[p].wantItem = {} THEN {} ELSE {"items"})
    /\ out' = [out EXCEPT ![p] = <<>>]
    /\ in' = [in EXCEPT ![p] = <<>>]
    /\ serving' = [serving EXCEPT ![p] = TRUE]
    /\ UNCHANGED <<known, head, calls, received, fresh, accepted, suspended, peerHead, denied>>

(* A peer the node has disconnected from is not connected to again here;   *)
(* one that was lost, or did not answer within the time allowed            *)
(* (terminate_inactive_connections_loop), or whose read loop failed, is.   *)
ClosingEnds(p) ==
    /\ \/ conn[p].st = "closing" /\ Closed(p, "dropped")
       \/ conn[p].st = "failed" /\ Closed(p, "closed")
    /\ UNCHANGED events

ConnectionLost(p) ==
    /\ conn[p].st = "active" /\ events[p].lost < MaxLost[p]
    /\ Closed(p, "closed")
    /\ events' = [events EXCEPT ![p].lost = @ + 1]

(* new_peer_just_added.                                                    *)
Reconnect(p) ==
    /\ conn[p].st = "closed"
    /\ conn' = [conn EXCEPT ![p] = Restart(head, Fresh)]
    /\ out' = Asking({p}, conn')
    /\ UNCHANGED <<known, head, calls, active, received, fresh, accepted, items, suspended, wake, in,
                   peerVars, events, denied>>
-----------------------------------------------------------------------------
Handles(p) == OnIds(p) \/ OnSynopsis(p) \/ OnInventory(p) \/ OnBlock(p) \/ OnMissing(p)

Node == FetchSyncItems \/ FetchItems \/ ProcessBacklog \/ DelegateHandles

Returns == SyncAccepted \/ SyncRejected \/ NormalAccepted \/ NormalUnlinkable \/ NormalRejected

Next ==
    \/ Node \/ Returns
    \/ \E p \in Peers : \/ Handles(p) \/ PeerReplies(p) \/ PeerAdvances(p)
                        \/ ClosingEnds(p) \/ ConnectionLost(p) \/ Reconnect(p)

Works ==
    \/ Node \/ Returns
    \/ \E p \in Peers : Handles(p) \/ PeerReplies(p) \/ ClosingEnds(p) \/ Reconnect(p)

(* Every fiber that is ready runs, the delegate's thread runs, and peers   *)
(* answer.  A connection need not be lost and a chain need not grow.       *)
Spec == /\ Init /\ [][Next]_vars
        /\ WF_vars(Works)
-----------------------------------------------------------------------------
(* Types; the delegate never has more sync blocks than the limit.          *)
TypeOK ==
    /\ known \subseteq Blocks /\ head \in known \cup {Genesis}
    /\ active \subseteq Blocks /\ ToSet(received \o fresh) \subseteq Blocks /\ items \subseteq Blocks
    /\ wake \subseteq {"sync", "items", "backlog"}
    /\ \A i \in DOMAIN calls : calls[i].block \in Blocks
    /\ SyncCalls(calls) <= MaxHandle
    /\ \A p \in Peers :
          /\ conn[p].st \in {"active", "closing", "failed", "closed", "dropped"}
          /\ ToSet(conn[p].toGet) \cup conn[p].processing \cup conn[p].want \subseteq Blocks
          /\ conn[p].seen \in Blocks \cup {Genesis}
          /\ conn[p].asked # NotAsked => ToSet(conn[p].asked) \subseteq Blocks

OnTheWay(p, b) ==
    \/ \E i \in DOMAIN out[p] : out[p][i].type = "fetch_items" /\ Contains(out[p][i].ids, b)
    \/ \E i \in DOMAIN in[p] : in[p][i].type \in {"block", "missing"} /\ in[p][i].ids[1] = b

(* Requests and answers agree whatever connections are lost: a block is in *)
(* _active_sync_requests exactly if one connection waits for it, never two *)
(* at a time, and the request or an answer is on its way, or if a peer     *)
(* that was asked said it lacks the block.  A block left in there is never *)
(* asked for again, and on_item_not_available_message does leave it there; *)
(* nothing else does.  One taken out too early is fetched twice, and the   *)
(* second answer gets an honest peer disconnected.                         *)
RequestsMatch ==
    /\ active = denied \cup UNION {conn[p].want : p \in Peers}
    /\ \A p \in Peers : conn[p].want \cap denied = {}
    /\ \A p, q \in Peers : p # q => conn[p].want \cap conn[q].want = {}
    /\ \A p \in Peers : \A b \in conn[p].want : OnTheWay(p, b)

(* Blocks that arrive from several peers in any order are handed to the    *)
(* delegate so that each one links, unless its chain holds an invalid one: *)
(* send_sync_block_to_node_delegate disconnects the peers otherwise.       *)
SyncInOrder ==
    \A i \in DOMAIN calls : calls[i].sync /\ calls[i].result = "unlinkable" =>
        ToSet(ChainTo[calls[i].block]) \cap Invalid # {}

(* When fetching is suspended because blocks pile up, something is still to*)
(* happen that looks at the backlog again: a call for a block of the sync, *)
(* or the backlog itself.  A call for an advertised block does not.  Other-*)
(* wise the node would never ask for a block again.                        *)
SuspensionEnds == suspended => (\E i \in DOMAIN calls : calls[i].sync) \/ "backlog" \in wake

(* The ids still to get from a peer form a chain, however its replies      *)
(* overlap and even when it changed forks between two of them.             *)
ListsFollow ==
    \A p \in Active(conn) : \A i \in 1 .. Len(conn[p].toGet) - 1 :
        Parent[conn[p].toGet[i + 1]] = conn[p].toGet[i]

(* Synchronizing with every peer that stays connected comes to an end.     *)
SyncEnds == \A p \in Peers : <>[](conn[p].st = "active" => ~conn[p].need)
=============================================================================
