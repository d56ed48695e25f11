------------------------------ MODULE Loopback ------------------------------
(***************************************************************************)
(* The cycles of bounded channels between the Core and its waiters         *)
(* (primary/src/primary.rs): the Core sends what it suspends to            *)
(* HeaderWaiter or CertificateWaiter, which sends it back when what it     *)
(* waited for is stored.  Both sides await a full channel, and await       *)
(* nothing else meanwhile.                                                 *)
(*                                                                         *)
(* An item is a message with a header, suspended for its parents and then  *)
(* for its payload, or with a certificate, suspended for its ancestors.    *)
(* The header of a certificate, which the Core processes as well, is a     *)
(* message of its own here.  The Core does not tell messages with the same *)
(* header apart: it suspends them all, and HeaderWaiter ignores one it has *)
(* already, CertificateWaiter not.  How the Core refuses and HeaderWaiter  *)
(* drops what is under the garbage collection is part of the module.       *)
(***************************************************************************)
EXTENDS Integers, Sequences, FiniteSets

CONSTANTS Headers, Certificates, \* the messages
          Id,              \* the header or certificate in each
          Lacks,           \* the parts of it that are missing at the start
          Round,           \* its round
          ChannelCapacity, \* CHANNEL_CAPACITY
          GcBound,         \* the bound on the rounds collected
          NoItem

Items == Headers \cup Certificates
Ids == {Id[i] : i \in Items}

ASSUME LoopbackAssumption ==
    /\ Headers \cap Certificates = {} /\ NoItem \notin Items
    /\ ChannelCapacity \in Nat \ {0} /\ GcBound \in Nat
    /\ Lacks \in [Ids -> SUBSET {"parents", "payload"}] /\ Round \in [Ids -> Nat]

Waiters == {"HeaderWaiter", "CertificateWaiter"}

WaiterOf(i) == IF i \in Headers THEN "HeaderWaiter" ELSE "CertificateWaiter"

Parts(i) == IF i \in Headers THEN {"parents", "payload"} ELSE {"parents"}

\* What the Core sends to a waiter: the item and the part it lacks.
Suspended == {s \in Items \X {"parents", "payload"} : s[2] \in Parts(s[1])}

VARIABLES
    rx_primaries, \* the items still to be received
    stored,       \* the parts of a header or certificate that are in the store
    gc_round,     \* the round collected with the last commit
    processed,    \* the items the Core is through with
    dropped,      \* the items refused, ignored or cancelled
    core,         \* what the Core is sending to a waiter, or NoItem
    tx_sync,      \* the channel to each waiter
    waiting,      \* what each waiter waits for
    pending,      \* what of that HeaderWaiter has in its map: not cancelled
    sending,      \* the item each waiter is sending back, or NoItem
    rx_loopback   \* the channel from each waiter to the Core

world == <<stored, gc_round>>
waiters == <<waiting, pending, sending>>
vars == <<rx_primaries, world, processed, dropped, core, tx_sync, waiters, rx_loopback>>

Init ==
    /\ rx_primaries = Items
    /\ stored = [x \in Ids |-> {"parents", "payload"} \ Lacks[x]]
    /\ gc_round = 0
    /\ processed = {} /\ dropped = {}
    /\ core = NoItem
    /\ tx_sync = [w \in Waiters |-> <<>>]
    /\ waiting = [w \in Waiters |-> {}] /\ pending = {}
    /\ sending = [w \in Waiters |-> NoItem]
    /\ rx_loopback = [w \in Waiters |-> <<>>]

\* A certificate is processed, or a worker reports a batch.
Write(i, part) ==
    /\ part \in Parts(i) \ stored[Id[i]]
    /\ stored' = [stored EXCEPT ![Id[i]] = @ \cup {part}]
    /\ UNCHANGED <<rx_primaries, gc_round, processed, dropped, core, tx_sync, waiters, rx_loopback>>

\* A commit moves the garbage collection.
Collect ==
    /\ gc_round < GcBound
    /\ gc_round' \in gc_round + 1 .. GcBound
    /\ UNCHANGED <<rx_primaries, stored, processed, dropped, core, tx_sync, waiters, rx_loopback>>

-----------------------------------------------------------------------------
(* Core::run: while it sends to a waiter it takes nothing else.            *)

\* process_header or process_certificate, as far as its suspension.
Process(i) ==
    LET has == stored[Id[i]]
    IN  \/ /\ Parts(i) \subseteq has
           /\ processed' = processed \cup {i}
           /\ UNCHANGED core
        \/ /\ ~ Parts(i) \subseteq has
           /\ core' = <<i, IF "parents" \notin has THEN "parents" ELSE "payload">>
           /\ UNCHANGED processed

\* The Core learns the round of the last commit with the turns of its loop: it
\* may still take what is too old by now.
ReceiveItem(i) ==
    /\ core = NoItem
    /\ i \in rx_primaries
    /\ rx_primaries' = rx_primaries \ {i}
    /\ \/ Process(i) /\ UNCHANGED dropped
       \/ /\ Round[Id[i]] < gc_round
          /\ dropped' = dropped \cup {i} /\ UNCHANGED <<processed, core>>
    /\ UNCHANGED <<world, tx_sync, waiters, rx_loopback>>

ReceiveLoopback(w) ==
    /\ core = NoItem
    /\ rx_loopback[w] # <<>>
    /\ rx_loopback' = [rx_loopback EXCEPT ![w] = Tail(@)]
    /\ Process(Head(rx_loopback[w]))
    /\ UNCHANGED <<rx_primaries, world, dropped, tx_sync, waiters>>

Suspend ==
    /\ core # NoItem /\ Len(tx_sync[WaiterOf(core[1])]) < ChannelCapacity
    /\ tx_sync' = [tx_sync EXCEPT ![WaiterOf(core[1])] = Append(@, core)]
    /\ core' = NoItem
    /\ UNCHANGED <<rx_primaries, world, processed, dropped, waiters, rx_loopback>>

-----------------------------------------------------------------------------
(* HeaderWaiter::run and CertificateWaiter::run: while one sends to the    *)
(* Core it takes nothing else.                                             *)

Same(s, t) == Id[s[1]] = Id[t[1]]

\* HeaderWaiter ends a turn with the clean-up: it cancels what is of a round
\* collected.
Cleanup(P) == pending' = {s \in P : gc_round > 0 => Round[Id[s[1]]] > gc_round}

Ignored(w, s) == w = "HeaderWaiter" /\ \E t \in pending : Same(s, t)

\* HeaderWaiter ignores a header that is in its map, and the turn ends there.
WaiterReceive(w) ==
    /\ sending[w] = NoItem
    /\ tx_sync[w] # <<>>
    /\ tx_sync' = [tx_sync EXCEPT ![w] = Tail(@)]
    /\ LET s == Head(tx_sync[w])
       IN  \/ /\ Ignored(w, s)
              /\ dropped' = dropped \cup {s[1]} /\ UNCHANGED <<waiting, pending>>
           \/ /\ ~ Ignored(w, s)
              /\ waiting' = [waiting EXCEPT ![w] = @ \cup {s}]
              /\ IF w = "HeaderWaiter" THEN Cleanup(pending \cup {s}) ELSE UNCHANGED pending
              /\ UNCHANGED dropped
    /\ UNCHANGED <<rx_primaries, world, processed, core, sending, rx_loopback>>

\* Mutants of WaiterComplete: the item stays pending, and comes back again; it is
\* taken for cancelled.
WaiterCompleteKeeping(w, s) ==
    /\ sending[w] = NoItem
    /\ s \in waiting[w] /\ s[2] \in stored[Id[s[1]]]
    /\ sending' = [sending EXCEPT ![w] = s[1]]
    /\ UNCHANGED <<rx_primaries, world, processed, dropped, core, tx_sync, waiting, pending, rx_loopback>>

WaiterCompleteCancelling(w, s) ==
    /\ sending[w] = NoItem
    /\ s \in waiting[w] /\ s[2] \in stored[Id[s[1]]]
    /\ waiting' = [waiting EXCEPT ![w] = @ \ {s}]
    /\ pending' = {t \in pending : ~ Same(s, t)} /\ dropped' = dropped \cup {s[1]}
    /\ UNCHANGED <<rx_primaries, world, processed, core, tx_sync, sending, rx_loopback>>

\* The part that was missing is stored.  HeaderWaiter takes the header out of its
\* map, which cancels another message with it; the clean-up comes after the send.
WaiterComplete(w, s) ==
    /\ sending[w] = NoItem
    /\ s \in waiting[w] /\ s[2] \in stored[Id[s[1]]]
    /\ waiting' = [waiting EXCEPT ![w] = @ \ {s}]
    /\ pending' = IF w = "HeaderWaiter" THEN {t \in pending : ~ Same(s, t)} ELSE pending
    /\ sending' = [sending EXCEPT ![w] = s[1]]
    /\ UNCHANGED <<rx_primaries, world, processed, dropped, core, tx_sync, rx_loopback>>

WaiterSend(w) ==
    /\ sending[w] # NoItem /\ Len(rx_loopback[w]) < ChannelCapacity
    /\ rx_loopback' = [rx_loopback EXCEPT ![w] = Append(@, sending[w])]
    /\ sending' = [sending EXCEPT ![w] = NoItem]
    /\ IF w = "HeaderWaiter" THEN Cleanup(pending) ELSE UNCHANGED pending
    /\ UNCHANGED <<rx_primaries, world, processed, dropped, core, tx_sync, waiting>>

\* The timer of HeaderWaiter.
WaiterTimer ==
    /\ sending["HeaderWaiter"] = NoItem
    /\ Cleanup(pending)
    /\ UNCHANGED <<rx_primaries, world, processed, dropped, core, tx_sync, waiting, sending, rx_loopback>>

\* The waiter of a cancelled header ends, if it did not see its part stored.
WaiterCancelled(s) ==
    /\ sending["HeaderWaiter"] = NoItem
    /\ s \in waiting["HeaderWaiter"] \ pending
    /\ waiting' = [waiting EXCEPT !["HeaderWaiter"] = @ \ {s}]
    /\ dropped' = dropped \cup {s[1]}
    /\ Cleanup(pending)
    /\ UNCHANGED <<rx_primaries, world, processed, core, tx_sync, sending, rx_loopback>>

-----------------------------------------------------------------------------

CoreStep ==
    \/ \E i \in Items : ReceiveItem(i)
    \/ \E w \in Waiters : ReceiveLoopback(w)
    \/ Suspend

WaiterStep(w) ==
    \/ WaiterReceive(w) \/ WaiterSend(w)
    \/ \E s \in Suspended : WaiterComplete(w, s)
    \/ w = "HeaderWaiter" /\ (WaiterTimer \/ \E s \in Suspended : WaiterCancelled(s))

Writes == \E i \in Items : \E part \in Parts(i) : Write(i, part)

Next == CoreStep \/ (\E w \in Waiters : WaiterStep(w)) \/ Writes \/ Collect

\* The tasks run, and what is missing comes in the end.
Fairness ==
    /\ WF_vars(CoreStep)
    /\ \A w \in Waiters : WF_vars(WaiterStep(w))
    /\ WF_vars(Writes)

Spec == Init /\ [][Next]_vars

FairSpec == Spec /\ Fairness

-----------------------------------------------------------------------------
(* Properties.                                                             *)

\* The type invariant of the tasks and the channels, with their capacity.
TypeOK ==
    /\ rx_primaries \subseteq Items /\ processed \subseteq Items /\ dropped \subseteq Items
    /\ stored \in [Ids -> SUBSET {"parents", "payload"}] /\ gc_round \in 0 .. GcBound
    /\ core \in Suspended \cup {NoItem}
    /\ pending \subseteq waiting["HeaderWaiter"]
    /\ \A w \in Waiters :
         /\ tx_sync[w] \in Seq(Suspended) /\ Len(tx_sync[w]) <= ChannelCapacity
         /\ rx_loopback[w] \in Seq(Items) /\ Len(rx_loopback[w]) <= ChannelCapacity
         /\ waiting[w] \subseteq Suspended /\ sending[w] \in Items \cup {NoItem}

CoreAwaits(w) ==
    core # NoItem /\ WaiterOf(core[1]) = w /\ Len(tx_sync[w]) = ChannelCapacity

WaiterAwaits(w) == sending[w] # NoItem /\ Len(rx_loopback[w]) = ChannelCapacity

\* Each waits for the other to take something, and neither will.
WaitCycle(w) == CoreAwaits(w) /\ WaiterAwaits(w)

UnderWay(w) == {i \in Items \ (rx_primaries \cup processed \cup dropped) : WaiterOf(i) = w}

\* The Core and a waiter await each other only when more messages for that waiter
\* are under way than the two channels hold, and two: a message is never in the
\* cycle twice, though several with the same header or certificate may be.
NoEarlyWaitCycle ==
    \A w \in Waiters : WaitCycle(w) => Cardinality(UnderWay(w)) >= 2 * ChannelCapacity + 2

\* HeaderWaiter "loops back to the core headers for which we got all parents
\* and batches", and CertificateWaiter certificates: what is received is
\* processed in the end, if not in this then in another message, unless its round
\* is collected and it is refused or cancelled, or the channels of a cycle fill up.
ProcessedUnlessFull ==
    \A i \in Items :
        (i \notin rx_primaries) ~>
            \/ \E j \in processed : Id[j] = Id[i]
            \/ i \in dropped /\ Round[Id[i]] <= gc_round
            \/ \E w \in Waiters : WaitCycle(w)

=============================================================================
