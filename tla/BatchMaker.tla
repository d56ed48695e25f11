----------------------------- MODULE BatchMaker -----------------------------
(***************************************************************************)
(* The batch maker of a worker (worker/src/batch_maker.rs), the handlers   *)
(* that feed it (TxReceiverHandler and PrimaryReceiverHandler of           *)
(* worker/src/worker.rs) and the watch channel between them.  The primary  *)
(* sends BatchSilent at most once per round; the batch maker pauses while  *)
(* the last state is silent.  The Receiver of the worker has a task per    *)
(* connection of the primary: after a reconnection two of them may be at   *)
(* work.                                                                   *)
(*                                                                         *)
(* A transaction is its number in the order of arrival and counts one unit *)
(* towards the batch size.  A step of a task takes no time: the clock      *)
(* ticks while the batch maker waits.                                      *)
(***************************************************************************)
EXTENDS Naturals, SequencesExt

CONSTANTS BatchSize,       \* the preferred batch size
          Delay,           \* max_batch_delay in ticks
          ChannelSize,     \* the capacity of a channel
          Connections,     \* the connections of the primary, in their order
          MaxTransactions, \* the bound on the transactions
          MaxRound         \* the bound on the rounds

ASSUME BatchMakerAssumption ==
    /\ BatchSize \in Nat \ {0} /\ Delay \in Nat \ {0} /\ ChannelSize \in Nat \ {0}
    /\ Connections \in Nat \ {0} /\ MaxTransactions \in Nat /\ MaxRound \in Nat

States == (0 .. MaxRound) \X BOOLEAN
Transactions == 1 .. MaxTransactions

\* The bound on the ticks counted: more than the properties tell apart.
MaxAge == Delay * (MaxRound + Connections + 1)

VARIABLES
    \* transactions: those that arrived, the channel of the batch maker, its
    \* current batch, the batch it is handing over, the channel of
    \* QuorumWaiter and what QuorumWaiter took
    arrived, rx_transaction, current_batch, sealing, tx_message, taken,
    \* the watch channel: round and silence, and whether a change is unseen
    batch_silent, unseen,
    \* where BatchMaker::run is, and the ticks its timer has left
    phase, timer,
    \* the primary: the last BatchSilent, the current connection, the messages
    \* on every connection; and the state each handler is about to send
    last, connection, frames, checked,
    \* history: batches sealed in this silence, the ticks the current batch
    \* has waited while not silent, and the states that came meanwhile
    late_seals, age, changes

transactions == <<arrived, rx_transaction, current_batch, sealing, tx_message, taken>>
watch == <<batch_silent, unseen>>
primary == <<last, connection, frames, checked>>
history == <<late_seals, age, changes>>
vars == <<transactions, watch, phase, timer, primary, history>>

Init ==
    /\ arrived = 0 /\ rx_transaction = <<>> /\ current_batch = <<>> /\ sealing = <<>>
    /\ tx_message = <<>> /\ taken = <<>>
    /\ batch_silent = <<0, FALSE>> /\ unseen = FALSE
    /\ phase = "loop" /\ timer = Delay
    /\ last = <<0, FALSE>> /\ connection = 1
    /\ frames = [c \in 1 .. Connections |-> <<>>]
    /\ checked = [c \in 1 .. Connections |-> {}]
    /\ late_seals = 0 /\ age = 0 /\ changes = 0

silent == batch_silent[2]

-----------------------------------------------------------------------------
(* The handlers of the worker.                                             *)

\* TxReceiverHandler: the client waits while the channel is full.
ReceiveTransaction ==
    /\ arrived < MaxTransactions /\ Len(rx_transaction) < ChannelSize
    /\ arrived' = arrived + 1
    /\ rx_transaction' = Append(rx_transaction, arrived + 1)
    /\ UNCHANGED <<current_batch, sealing, tx_message, taken, watch, phase, timer,
                   primary, history>>

\* The Proposer enters a round and tells the workers whether it is silent.  It
\* drops the handlers of the round before: what is not written yet is skipped.
SendBatchSilent ==
    /\ last[1] < MaxRound
    /\ \E s \in BOOLEAN : last' = <<last[1] + 1, s>>
    /\ \E k \in 0 .. Len(frames[connection]) :
         frames' = [frames EXCEPT ![connection] = Append(SubSeq(@, 1, k), last')]
    /\ UNCHANGED <<transactions, watch, phase, timer, connection, checked, history>>

\* The stream of the primary's ReliableSender fails.  The last state is sent
\* again on the next one if it did not arrive, or its acknowledgement did not.
Reconnect ==
    /\ connection < Connections /\ last[1] > 0
    /\ connection' = connection + 1
    /\ \E k \in 0 .. Len(frames[connection]), again \in BOOLEAN :
         /\ k < Len(frames[connection]) => again
         /\ frames' = [frames EXCEPT ![connection] = SubSeq(@, 1, k),
                                     ![connection'] = IF again THEN <<last>> ELSE <<>>]
    /\ UNCHANGED <<transactions, watch, phase, timer, last, checked, history>>

\* PrimaryReceiverHandler compares the round with that of the watch channel,
CheckRound(c) ==
    /\ frames[c] # <<>> /\ checked[c] = {}
    /\ checked' = [checked EXCEPT ![c] =
                     IF Head(frames[c])[1] >= batch_silent[1] THEN {Head(frames[c])} ELSE {}]
    /\ frames' = [frames EXCEPT ![c] = Tail(@)]
    /\ UNCHANGED <<transactions, watch, phase, timer, last, connection, history>>

\* and then replaces its state: the borrow is over by now.
SendState(c) ==
    /\ checked[c] # {}
    /\ batch_silent' \in checked[c] /\ unseen' = TRUE
    /\ checked' = [checked EXCEPT ![c] = {}]
    /\ late_seals' = IF batch_silent'[2] /\ silent THEN late_seals ELSE 0
    /\ changes' = IF current_batch = <<>> THEN 0 ELSE changes + 1
    /\ UNCHANGED <<transactions, phase, timer, last, connection, frames, age>>

-----------------------------------------------------------------------------
(* BatchMaker::run.                                                        *)

\* Mutant of EnterLoop: the state is not looked at.
EnterLoopBlindly ==
    /\ phase = "loop"
    /\ phase' = "select"
    /\ UNCHANGED <<transactions, watch, timer, primary, history>>

EnterLoop ==
    /\ phase = "loop"
    /\ phase' = IF silent THEN "paused" ELSE "select"
    /\ UNCHANGED <<transactions, watch, timer, primary, history>>

\* A change of the state starts the timer again if it is not silent.
SeeChange ==
    /\ unseen' = FALSE
    /\ timer' = IF silent THEN timer ELSE Delay
    /\ phase' = "loop"

\* Mutant of Resume: what was collected before the pause is thrown away.
ResumeAfresh ==
    /\ phase = "paused" /\ unseen
    /\ SeeChange
    /\ current_batch' = IF silent THEN current_batch ELSE <<>>
    /\ UNCHANGED <<arrived, rx_transaction, sealing, tx_message, taken, batch_silent,
                   primary, history>>

Resume ==
    /\ phase = "paused" /\ unseen
    /\ SeeChange
    /\ UNCHANGED <<transactions, batch_silent, primary, history>>

\* The select is biased: first the state,
SelectChanged ==
    /\ phase = "select" /\ unseen
    /\ SeeChange
    /\ UNCHANGED <<transactions, batch_silent, primary, history>>

NothingChanged ==
    /\ phase = "select" /\ ~ unseen
    /\ phase' = "polled"
    /\ UNCHANGED <<transactions, watch, timer, primary, history>>

\* The batch is drained and broadcast; the handover follows.
seal(batch) ==
    /\ sealing' = batch
    /\ current_batch' = <<>> /\ phase' = "sealing"
    /\ late_seals' = IF silent THEN late_seals + 1 ELSE 0
    /\ age' = 0 /\ changes' = 0

\* Mutant of SelectTransaction: every transaction starts the timer again.
SelectTransactionDebounced ==
    /\ phase = "polled" /\ rx_transaction # <<>>
    /\ rx_transaction' = Tail(rx_transaction)
    /\ LET batch == Append(current_batch, Head(rx_transaction))
       IN  \/ Len(batch) >= BatchSize /\ seal(batch)
           \/ /\ Len(batch) < BatchSize
              /\ current_batch' = batch /\ phase' = "loop"
              /\ UNCHANGED <<sealing, history>>
    /\ timer' = Delay
    /\ UNCHANGED <<arrived, tx_message, taken, watch, primary>>

\* then a transaction,
SelectTransaction ==
    /\ phase = "polled" /\ rx_transaction # <<>>
    /\ rx_transaction' = Tail(rx_transaction)
    /\ LET batch == Append(current_batch, Head(rx_transaction))
       IN  \/ Len(batch) >= BatchSize /\ seal(batch)
           \/ /\ Len(batch) < BatchSize
              /\ current_batch' = batch /\ phase' = "loop"
              /\ UNCHANGED <<sealing, history>>
    /\ UNCHANGED <<arrived, tx_message, taken, watch, timer, primary>>

\* Mutant of SelectTimer: a partial batch is left to grow.
SelectTimerFull ==
    /\ phase = "polled" /\ rx_transaction = <<>> /\ timer = 0
    /\ phase' = "loop" /\ timer' = Delay
    /\ UNCHANGED <<transactions, watch, primary, history>>

\* then the timer,
SelectTimer ==
    /\ phase = "polled" /\ rx_transaction = <<>> /\ timer = 0
    /\ \/ /\ current_batch # <<>> /\ seal(current_batch)
          /\ UNCHANGED timer
       \/ /\ current_batch = <<>> /\ phase' = "loop" /\ timer' = Delay
          /\ UNCHANGED <<current_batch, sealing, history>>
    /\ UNCHANGED <<arrived, rx_transaction, tx_message, taken, watch, primary>>

Waiting == phase = "polled" /\ rx_transaction = <<>> /\ timer > 0

\* and if none is ready it waits until one is and polls again.
Wake ==
    /\ Waiting /\ unseen
    /\ phase' = "select"
    /\ UNCHANGED <<transactions, watch, timer, primary, history>>

\* The end of seal, once QuorumWaiter has room, and the reset of the timer.
Deliver ==
    /\ phase = "sealing" /\ Len(tx_message) < ChannelSize
    /\ tx_message' = Append(tx_message, sealing) /\ sealing' = <<>>
    /\ phase' = "loop" /\ timer' = Delay
    /\ UNCHANGED <<arrived, rx_transaction, current_batch, taken, watch, primary, history>>

\* QuorumWaiter takes a batch (Dissemination!TakeBatch).
TakeBatch ==
    /\ tx_message # <<>>
    /\ taken' = taken \o Head(tx_message) /\ tx_message' = Tail(tx_message)
    /\ UNCHANGED <<arrived, rx_transaction, current_batch, sealing, watch, phase, timer,
                   primary, history>>

\* The batch maker waits for an event, a change of the state or room.
Idles ==
    \/ Waiting /\ ~ unseen
    \/ phase = "paused" /\ ~ unseen
    \/ phase = "sealing" /\ Len(tx_message) = ChannelSize

Tick ==
    /\ Idles /\ timer > 0
    /\ timer' = timer - 1
    /\ age' = IF current_batch # <<>> /\ ~ silent /\ age < MaxAge
              THEN age + 1 ELSE age
    /\ UNCHANGED <<transactions, watch, phase, primary, late_seals, changes>>

Next ==
    \/ ReceiveTransaction \/ SendBatchSilent \/ Reconnect
    \/ \E c \in 1 .. Connections : CheckRound(c) \/ SendState(c)
    \/ EnterLoop \/ Resume \/ SelectChanged \/ NothingChanged
    \/ SelectTransaction \/ SelectTimer \/ Wake \/ Deliver
    \/ TakeBatch \/ Tick

Spec == Init /\ [][Next]_vars

\* The runtime runs the tasks that can proceed, time passes, and QuorumWaiter
\* gets its quorums (Dissemination!SealedIsReported).
Fairness ==
    /\ \A c \in 1 .. Connections : WF_vars(CheckRound(c)) /\ WF_vars(SendState(c))
    /\ WF_vars(EnterLoop \/ Resume \/ SelectChanged \/ NothingChanged
               \/ SelectTransaction \/ SelectTimer \/ Wake \/ Deliver)
    /\ WF_vars(TakeBatch) /\ WF_vars(Tick)

FairSpec == Spec /\ Fairness

-----------------------------------------------------------------------------
(* Properties.                                                             *)

\* The type invariant of the batch maker and the watch channel.
TypeOK ==
    /\ arrived \in 0 .. MaxTransactions
    /\ \A s \in {rx_transaction, current_batch, sealing, taken} : s \in Seq(Transactions)
    /\ tx_message \in Seq(Seq(Transactions) \ {<<>>})
    /\ Len(rx_transaction) <= ChannelSize /\ Len(tx_message) <= ChannelSize
    /\ Len(current_batch) < BatchSize
    /\ batch_silent \in States /\ unseen \in BOOLEAN
    /\ phase \in {"loop", "paused", "select", "polled", "sealing"}
    /\ timer \in 0 .. Delay
    /\ last \in States /\ connection \in 1 .. Connections
    /\ frames \in [1 .. Connections -> Seq(States)]
    /\ checked \in [1 .. Connections -> SUBSET States]
    /\ late_seals \in Nat /\ age \in Nat /\ changes \in Nat

\* Across pauses, full channels and seals by size or by timer, QuorumWaiter
\* takes the transactions in the order of arrival, none lost or repeated.
TransactionsPreserved ==
    taken \o FlattenSeq(tx_message) \o sealing \o current_batch \o rx_transaction
        = [i \in 1 .. arrived |-> i]

\* Once the state is silent, only the batch whose branch was already chosen
\* is sealed.
PausesWhileSilent == late_seals <= 1

\* A partial batch waits at most max_batch_delay, and as long again for every
\* state that arrives meanwhile and starts the timer again.
BoundedDelay == age <= Delay * (1 + changes)

\* Every transaction comes to QuorumWaiter, or there is another silence; when
\* there is no more, they all do.
EventuallySealed ==
    \A t \in Transactions : (t <= arrived) ~> (t <= Len(taken) \/ silent)

=============================================================================
