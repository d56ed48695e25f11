-------------------------- MODULE BatchMakerProofs --------------------------
(***************************************************************************)
(* The theorems about the batch maker, for every batch size, delay,        *)
(* capacity, number of connections, transactions and rounds.               *)
(***************************************************************************)
EXTENDS BatchMaker, CommonProofs

\* What the batch maker hands over is no longer in the current batch, and
\* nothing is being handed over otherwise.
HandOver ==
    IF phase = "sealing" THEN sealing # <<>> /\ current_batch = <<>> ELSE sealing = <<>>

BatchInv == TypeOK /\ HandOver

-----------------------------------------------------------------------------
(* Types.                                                                  *)

LEMMA StateFacts ==
  ASSUME NEW r \in 0 .. MaxRound, NEW s \in BOOLEAN
  PROVE  <<r, s>> \in States
  BY Zenon DEF States

LEMMA InitType == Init => BatchInv
  <1> SUFFICES ASSUME Init PROVE BatchInv
    OBVIOUS
  <1>1. /\ arrived \in 0 .. MaxTransactions /\ timer \in 0 .. Delay /\ connection \in 1 .. Connections
        /\ Len(rx_transaction) <= ChannelSize /\ Len(tx_message) <= ChannelSize
        /\ Len(current_batch) < BatchSize
    BY BatchMakerAssumption DEF Init
  <1>2. <<0, FALSE>> \in States
    <2>1. 0 \in 0 .. MaxRound
      BY BatchMakerAssumption
    <2> QED
      BY <2>1, StateFacts
  <1>3. /\ \A s \in {rx_transaction, current_batch, sealing, taken} : s \in Seq(Transactions)
        /\ tx_message \in Seq(Seq(Transactions) \ {<<>>})
    BY DEF Init
  <1>4. /\ batch_silent \in States /\ last \in States
        /\ phase \in {"loop", "paused", "select", "polled", "sealing"}
        /\ late_seals \in Nat /\ age \in Nat /\ changes \in Nat
    BY <1>2 DEF Init
  <1>5. unseen \in BOOLEAN
    BY Zenon DEF Init
  <1>6. frames \in [1 .. Connections -> Seq(States)] /\ checked \in [1 .. Connections -> SUBSET States]
    BY DEF Init
  <1>7. HandOver
    BY DEF Init, HandOver
  <1> QED
    BY <1>1, <1>3, <1>4, <1>5, <1>6, <1>7 DEF BatchInv, TypeOK

\* The transactions a sealed or growing batch is made of.
LEMMA SealStep ==
  ASSUME BatchInv, NEW batch \in Seq(Transactions), batch # <<>>, seal(batch),
         UNCHANGED <<arrived, tx_message, taken, watch, primary>>,
         rx_transaction' \in Seq(Transactions), Len(rx_transaction') <= ChannelSize,
         timer' = timer
  PROVE  BatchInv'
  <1>1. /\ sealing' = batch /\ current_batch' = <<>> /\ phase' = "sealing"
        /\ age' = 0 /\ changes' = 0 /\ late_seals' = IF silent THEN late_seals + 1 ELSE 0
    BY DEF seal
  <1>2. Len(current_batch') < BatchSize
    BY <1>1, BatchMakerAssumption
  <1>3. late_seals' \in Nat /\ age' \in Nat /\ changes' \in Nat
    BY <1>1 DEF BatchInv, TypeOK
  <1> QED
    BY <1>1, <1>2, <1>3 DEF BatchInv, TypeOK, HandOver, watch, primary

LEMMA TypeStep ==
  ASSUME BatchInv, [Next]_vars
  PROVE  BatchInv'
  <1> USE BatchMakerAssumption DEF BatchInv
  <1>1. CASE ReceiveTransaction
    <2>1. arrived + 1 \in Transactions /\ arrived + 1 \in 0 .. MaxTransactions
      BY <1>1 DEF ReceiveTransaction, TypeOK, Transactions
    <2>2. rx_transaction' \in Seq(Transactions) /\ Len(rx_transaction') = Len(rx_transaction) + 1
      BY <1>1, <2>1 DEF ReceiveTransaction, TypeOK
    <2>3. Len(rx_transaction') <= ChannelSize
      BY <1>1, <2>2 DEF ReceiveTransaction, TypeOK
    <2> QED
      BY <1>1, <2>1, <2>2, <2>3 DEF ReceiveTransaction, TypeOK, HandOver, watch, primary, history
  <1>2. CASE SendBatchSilent
    <2>1. last' \in States
      <3>1. PICK s \in BOOLEAN : last' = <<last[1] + 1, s>>
        BY <1>2 DEF SendBatchSilent
      <3>2. last[1] \in 0 .. MaxRound
        BY Zenon DEF TypeOK, States
      <3>3. last[1] + 1 \in 0 .. MaxRound
        BY <1>2, <3>2 DEF SendBatchSilent
      <3> QED
        BY <3>1, <3>3, StateFacts
    <2>2. PICK k \in 0 .. Len(frames[connection]) :
             frames' = [frames EXCEPT ![connection] = Append(SubSeq(@, 1, k), last')]
      BY <1>2 DEF SendBatchSilent
    <2>3. Append(SubSeq(frames[connection], 1, k), last') \in Seq(States)
      BY <2>1 DEF TypeOK
    <2>4. frames' \in [1 .. Connections -> Seq(States)]
      BY <2>2, <2>3 DEF TypeOK
    <2> QED
      BY <1>2, <2>1, <2>4 DEF SendBatchSilent, TypeOK, HandOver, transactions, watch, history
  <1>3. CASE Reconnect
    <2>1. connection' \in 1 .. Connections
      BY <1>3 DEF Reconnect, TypeOK
    <2>2. PICK k \in 0 .. Len(frames[connection]), again \in BOOLEAN :
             frames' = [frames EXCEPT ![connection] = SubSeq(@, 1, k),
                                      ![connection'] = IF again THEN <<last>> ELSE <<>>]
      BY <1>3 DEF Reconnect
    <2>3. /\ SubSeq(frames[connection], 1, k) \in Seq(States)
          /\ <<last>> \in Seq(States) /\ <<>> \in Seq(States)
      BY DEF TypeOK
    <2>4. frames' \in [1 .. Connections -> Seq(States)]
      BY <2>2, <2>3 DEF TypeOK
    <2> QED
      BY <1>3, <2>1, <2>4 DEF Reconnect, TypeOK, HandOver, transactions, watch, history
  <1>4. ASSUME NEW c \in 1 .. Connections, CheckRound(c) PROVE BatchInv'
    <2>1. Head(frames[c]) \in States /\ Tail(frames[c]) \in Seq(States)
      BY <1>4 DEF CheckRound, TypeOK
    <2>2. frames' \in [1 .. Connections -> Seq(States)]
      BY <1>4, <2>1 DEF CheckRound, TypeOK
    <2>3. checked' \in [1 .. Connections -> SUBSET States]
      BY <1>4, <2>1 DEF CheckRound, TypeOK
    <2> QED
      BY <1>4, <2>2, <2>3 DEF CheckRound, TypeOK, HandOver, transactions, watch, history
  <1>5. ASSUME NEW c \in 1 .. Connections, SendState(c) PROVE BatchInv'
    <2>1. batch_silent' \in States /\ unseen' \in BOOLEAN
      BY <1>5 DEF SendState, TypeOK
    <2>2. checked' \in [1 .. Connections -> SUBSET States]
      BY <1>5 DEF SendState, TypeOK
    <2>3. late_seals' \in Nat
      <3>1. late_seals' = late_seals \/ late_seals' = 0
        BY <1>5 DEF SendState
      <3> QED
        BY <3>1 DEF TypeOK
    <2>4. changes' \in Nat
      BY <1>5 DEF SendState, TypeOK
    <2> QED
      BY <1>5, <2>1, <2>2, <2>3, <2>4 DEF SendState, TypeOK, HandOver, transactions
  <1>6. CASE EnterLoop
    <2>1. phase' \in {"paused", "select"} /\ phase = "loop"
      BY <1>6 DEF EnterLoop
    <2> QED
      BY <1>6, <2>1 DEF EnterLoop, TypeOK, HandOver, transactions, watch, primary, history
  <1>7. CASE Resume \/ SelectChanged
    <2>1. timer' \in {timer, Delay} /\ unseen' = FALSE /\ phase' = "loop" /\ phase # "sealing"
      BY <1>7 DEF Resume, SelectChanged, SeeChange
    <2>2. timer' \in 0 .. Delay
      BY <2>1 DEF TypeOK
    <2> QED
      BY <1>7, <2>1, <2>2 DEF Resume, SelectChanged, TypeOK, HandOver, transactions, primary, history
  <1>8. CASE NothingChanged \/ Wake
    BY <1>8 DEF NothingChanged, Wake, Waiting, TypeOK, HandOver, transactions, watch, primary, history
  <1>9. CASE SelectTransaction
    <2> DEFINE batch == Append(current_batch, Head(rx_transaction))
    <2>1. /\ rx_transaction \in Seq(Transactions) /\ rx_transaction # <<>>
          /\ current_batch \in Seq(Transactions) /\ Len(rx_transaction) <= ChannelSize
      BY <1>9 DEF SelectTransaction, TypeOK
    <2>2. /\ rx_transaction' \in Seq(Transactions)
          /\ Len(rx_transaction') <= ChannelSize
          /\ batch \in Seq(Transactions) /\ batch # <<>>
      <3>1. rx_transaction' = Tail(rx_transaction)
        BY <1>9 DEF SelectTransaction
      <3>2. Tail(rx_transaction) \in Seq(Transactions) /\ Len(Tail(rx_transaction)) <= ChannelSize
        BY <2>1
      <3>3. Head(rx_transaction) \in Transactions
        BY <2>1
      <3> QED
        BY <2>1, <3>1, <3>2, <3>3, AppendProperties
    <2>3. /\ UNCHANGED <<arrived, tx_message, taken, watch, primary>> /\ timer' = timer
          /\ phase = "polled"
      BY <1>9 DEF SelectTransaction
    <2>4. \/ seal(batch)
          \/ /\ Len(batch) < BatchSize
             /\ current_batch' = batch /\ phase' = "loop" /\ UNCHANGED <<sealing, history>>
      BY <1>9 DEF SelectTransaction
    <2> HIDE DEF batch
    <2>5. CASE seal(batch)
      BY <2>2, <2>3, <2>5, SealStep
    <2>6. CASE /\ Len(batch) < BatchSize
               /\ current_batch' = batch /\ phase' = "loop" /\ UNCHANGED <<sealing, history>>
      BY <2>2, <2>3, <2>6 DEF TypeOK, HandOver, watch, primary, history
    <2> QED
      BY <2>4, <2>5, <2>6
  <1>10. CASE SelectTimer
    <2>1. /\ UNCHANGED <<arrived, rx_transaction, tx_message, taken, watch, primary>>
          /\ phase = "polled"
      BY <1>10 DEF SelectTimer
    <2>2. CASE current_batch # <<>> /\ seal(current_batch) /\ UNCHANGED timer
      BY <2>1, <2>2, SealStep DEF TypeOK
    <2>3. CASE /\ current_batch = <<>> /\ phase' = "loop" /\ timer' = Delay
               /\ UNCHANGED <<current_batch, sealing, history>>
      BY <2>1, <2>3 DEF TypeOK, HandOver, watch, primary, history
    <2> QED
      BY <1>10, <2>2, <2>3 DEF SelectTimer
  <1>11. CASE Deliver
    <2>1. sealing \in Seq(Transactions) \ {<<>>}
      BY <1>11 DEF Deliver, HandOver, TypeOK
    <2>2. tx_message' \in Seq(Seq(Transactions) \ {<<>>}) /\ Len(tx_message') = Len(tx_message) + 1
      BY <1>11, <2>1 DEF Deliver, TypeOK
    <2>3. Len(tx_message') <= ChannelSize
      BY <1>11, <2>2 DEF Deliver, TypeOK
    <2>4. sealing' = <<>> /\ sealing' \in Seq(Transactions)
      BY <1>11 DEF Deliver
    <2> QED
      BY <1>11, <2>2, <2>3, <2>4 DEF Deliver, TypeOK, HandOver, watch, primary, history
  <1>12. CASE TakeBatch
    <2>1. /\ Head(tx_message) \in Seq(Transactions) /\ Tail(tx_message) \in Seq(Seq(Transactions) \ {<<>>})
          /\ Len(Tail(tx_message)) <= ChannelSize
      BY <1>12 DEF TakeBatch, TypeOK
    <2>2. taken' \in Seq(Transactions)
      BY <1>12, <2>1, ConcatProperties DEF TakeBatch, TypeOK
    <2> QED
      BY <1>12, <2>1, <2>2 DEF TakeBatch, TypeOK, HandOver, watch, primary, history
  <1>13. CASE Tick
    <2>1. timer' \in 0 .. Delay /\ age' \in Nat
      BY <1>13 DEF Tick, TypeOK
    <2> QED
      BY <1>13, <2>1 DEF Tick, TypeOK, HandOver, transactions, watch, primary
  <1>14. CASE UNCHANGED vars
    BY <1>14 DEF vars, TypeOK, HandOver, transactions, watch, primary, history
  <1> QED
    BY <1>1, <1>2, <1>3, <1>4, <1>5, <1>6, <1>7, <1>8, <1>9, <1>10, <1>11, <1>12, <1>13, <1>14
       DEF Next

\* Every variable of the batch maker and of the handlers stays in its type.
THEOREM BatchMakerTypes == Spec => []TypeOK
  <1>1. BatchInv /\ [Next]_vars => BatchInv'
    BY TypeStep
  <1>2. BatchInv => TypeOK
    BY DEF BatchInv
  <1> QED
    BY <1>1, <1>2, InitType, PTL DEF Spec

-----------------------------------------------------------------------------
(* Silence.                                                                *)

\* Mid-silence at most one batch was sealed, and then the loop has not looked
\* at its other branches since: it comes to a pause first.
LateInv ==
    \/ late_seals = 0
    \/ late_seals = 1 /\ silent /\ phase \in {"sealing", "loop", "paused"}

LEMMA LateStep ==
  ASSUME BatchInv, LateInv, [Next]_vars
  PROVE  LateInv'
  <1>1. CASE ReceiveTransaction
    BY <1>1 DEF ReceiveTransaction, LateInv, silent, watch, history
  <1>2. CASE SendBatchSilent \/ Reconnect
    BY <1>2 DEF SendBatchSilent, Reconnect, LateInv, silent, watch, history
  <1>3. ASSUME NEW c \in 1 .. Connections, CheckRound(c) PROVE LateInv'
    BY <1>3 DEF CheckRound, LateInv, silent, watch, history
  <1>4. ASSUME NEW c \in 1 .. Connections, SendState(c) PROVE LateInv'
    <2>1. phase' = phase /\ late_seals' = IF batch_silent'[2] /\ silent THEN late_seals ELSE 0
      BY <1>4 DEF SendState
    <2>2. CASE batch_silent'[2] /\ silent
      BY <2>1, <2>2 DEF LateInv, silent
    <2>3. CASE ~ (batch_silent'[2] /\ silent)
      BY <2>1, <2>3 DEF LateInv
    <2> QED
      BY <2>2, <2>3
  <1>5. CASE EnterLoop
    <2>1. phase' = (IF silent THEN "paused" ELSE "select") /\ UNCHANGED <<late_seals, batch_silent>>
      BY <1>5 DEF EnterLoop, watch, history
    <2> QED
      BY <2>1 DEF LateInv, silent
  <1>6. CASE Resume \/ SelectChanged
    <2>1. /\ phase' = "loop" /\ UNCHANGED <<late_seals, batch_silent>>
      BY <1>6 DEF Resume, SelectChanged, SeeChange, history
    <2> QED
      BY <2>1 DEF LateInv, silent
  <1>7. CASE NothingChanged \/ Wake
    <2>1. phase \in {"select", "polled"} /\ UNCHANGED <<late_seals, batch_silent>>
      BY <1>7 DEF NothingChanged, Wake, Waiting, watch, history
    <2> QED
      BY <2>1 DEF LateInv
  <1>8. CASE SelectTransaction \/ SelectTimer
    <2>1. phase = "polled" /\ UNCHANGED batch_silent
      BY <1>8 DEF SelectTransaction, SelectTimer, watch
    <2>2. late_seals = 0
      BY <2>1 DEF LateInv
    <2>3. \/ late_seals' = late_seals
          \/ phase' = "sealing" /\ late_seals' = IF silent THEN late_seals + 1 ELSE 0
      BY <1>8 DEF SelectTransaction, SelectTimer, seal, history
    <2> QED
      BY <2>1, <2>2, <2>3 DEF LateInv, silent
  <1>9. CASE Deliver
    <2>1. phase' = "loop" /\ UNCHANGED <<late_seals, batch_silent>>
      BY <1>9 DEF Deliver, watch, history
    <2> QED
      BY <2>1 DEF LateInv, silent
  <1>10. CASE TakeBatch \/ Tick
    <2>1. UNCHANGED <<phase, late_seals, batch_silent>>
      BY <1>10 DEF TakeBatch, Tick, watch, history
    <2> QED
      BY <2>1 DEF LateInv, silent
  <1>11. CASE UNCHANGED vars
    BY <1>11 DEF vars, LateInv, silent, watch, history
  <1> QED
    BY <1>1, <1>2, <1>3, <1>4, <1>5, <1>6, <1>7, <1>8, <1>9, <1>10, <1>11 DEF Next

\* After the state became silent the batch maker seals at most the batch whose
\* branch of the select was already chosen, whatever states come meanwhile.
THEOREM Silence == Spec => []PausesWhileSilent
  <1>1. Init => LateInv
    BY DEF Init, LateInv
  <1>2. LateInv => PausesWhileSilent
    BY DEF LateInv, PausesWhileSilent
  <1>3. BatchInv /\ LateInv /\ [Next]_vars => BatchInv' /\ LateInv'
    BY TypeStep, LateStep
  <1> QED
    BY <1>1, <1>2, <1>3, InitType, PTL DEF Spec

-----------------------------------------------------------------------------
(* Delay.                                                                  *)

\* The ticks the timer may still count before the batch is sealed, including
\* those that a state not yet seen will give it.
Remaining == IF unseen THEN Delay ELSE timer

\* A batch is as old as its delays less what remains of the last one.
DelayInv ==
    /\ current_batch = <<>> => age = 0
    /\ age + Remaining <= Delay * (1 + changes)

LEMMA DelayFacts ==
  ASSUME TypeOK
  PROVE  /\ Delay \in Nat /\ timer \in 0 .. Delay /\ age \in Nat /\ changes \in Nat
         /\ Remaining \in Nat /\ Remaining <= Delay
         /\ Delay * (1 + 0) = Delay
         /\ Delay * (1 + (changes + 1)) = Delay * (1 + changes) + Delay
         /\ Delay * (1 + changes) \in Nat /\ Delay <= Delay * (1 + changes)
  <1>1. Delay \in Nat /\ timer \in 0 .. Delay /\ age \in Nat /\ changes \in Nat
    BY BatchMakerAssumption DEF TypeOK
  <1>2. Remaining \in Nat /\ Remaining <= Delay
    BY <1>1 DEF Remaining
  <1>3. Delay * (1 + 0) = Delay /\ Delay * (1 + (changes + 1)) = Delay * (1 + changes) + Delay
    BY <1>1
  <1>4. Delay * (1 + changes) = Delay + Delay * changes /\ Delay * changes \in Nat
    BY <1>1
  <1> QED
    BY <1>1, <1>2, <1>3, <1>4

\* Steps that neither let time pass nor touch the timer.
LEMMA SameDelay ==
  ASSUME DelayInv, UNCHANGED <<unseen, timer, age, changes>>,
         current_batch' = <<>> => current_batch = <<>>
  PROVE  DelayInv'
  BY DEF DelayInv, Remaining

\* Steps after which the batch has not waited yet.
LEMMA FreshDelay ==
  ASSUME TypeOK, TypeOK', age' = 0
  PROVE  DelayInv'
  <1>1. Remaining' \in Nat /\ Remaining' <= Delay /\ Delay * (1 + changes') \in Nat /\ Delay <= Delay * (1 + changes')
    <2>1. ASSUME NEW c \in Nat PROVE Delay * (1 + c) = Delay + Delay * c /\ Delay * c \in Nat
      BY BatchMakerAssumption
    <2>2. Delay \in Nat /\ changes' \in Nat /\ timer' \in 0 .. Delay
      BY BatchMakerAssumption DEF TypeOK
    <2>3. Delay * (1 + changes') = Delay + Delay * changes' /\ Delay * changes' \in Nat
      BY <2>1, <2>2
    <2>4. Remaining' \in {Delay, timer'}
      BY DEF Remaining
    <2>5. Remaining' \in Nat /\ Remaining' <= Delay
      BY <2>2, <2>4
    <2> DEFINE p == Delay * changes'
               q == Delay * (1 + changes')
    <2>6. q = Delay + p /\ p \in Nat
      BY <2>3
    <2> HIDE DEF p, q
    <2>7. q \in Nat /\ Delay <= q
      BY <2>2, <2>6
    <2> QED
      BY <2>5, <2>7 DEF q
  <1> QED
    BY <1>1, BatchMakerAssumption DEF DelayInv

LEMMA DelayStep ==
  ASSUME BatchInv, BatchInv', DelayInv, [Next]_vars
  PROVE  DelayInv'
  <1> USE DEF BatchInv
  <1>1. CASE ReceiveTransaction \/ SendBatchSilent \/ Reconnect
    BY <1>1, SameDelay DEF ReceiveTransaction, SendBatchSilent, Reconnect, transactions, watch, history
  <1>2. ASSUME NEW c \in 1 .. Connections, CheckRound(c) PROVE DelayInv'
    BY <1>2, SameDelay DEF CheckRound, transactions, watch, history
  <1>3. ASSUME NEW c \in 1 .. Connections, SendState(c) PROVE DelayInv'
    <2>1. /\ unseen' /\ age' = age /\ current_batch' = current_batch
          /\ changes' = IF current_batch = <<>> THEN 0 ELSE changes + 1
      BY <1>3 DEF SendState, transactions
    <2>2. CASE current_batch = <<>>
      BY <2>1, <2>2, FreshDelay DEF DelayInv
    <2>3. CASE current_batch # <<>>
      <3>1. Remaining' = Delay /\ changes' = changes + 1
        BY <2>1, <2>3 DEF Remaining
      <3>2. age <= Delay * (1 + changes)
        BY DelayFacts DEF DelayInv
      <3>3. age + Delay <= Delay * (1 + (changes + 1))
        BY <3>2, DelayFacts
      <3> QED
        BY <2>1, <2>3, <3>1, <3>3 DEF DelayInv
    <2> QED
      BY <2>2, <2>3
  <1>4. CASE EnterLoop \/ NothingChanged \/ Wake \/ TakeBatch
    BY <1>4, SameDelay DEF EnterLoop, NothingChanged, Wake, TakeBatch, transactions, watch, history
  <1>5. CASE Resume \/ SelectChanged
    <2>1. /\ unseen /\ ~ unseen' /\ UNCHANGED <<age, changes, current_batch>>
      BY <1>5 DEF Resume, SelectChanged, SeeChange, transactions, history
    <2>2. Remaining = Delay /\ Remaining' = timer' /\ timer' \in 0 .. Delay
      BY <2>1 DEF Remaining, TypeOK
    <2>3. age + timer' <= Delay * (1 + changes)
      BY <2>2, DelayFacts DEF DelayInv
    <2> QED
      BY <2>1, <2>2, <2>3 DEF DelayInv
  <1>6. CASE SelectTransaction
    <2> DEFINE batch == Append(current_batch, Head(rx_transaction))
    <2>1. \/ age' = 0
          \/ current_batch' = batch /\ UNCHANGED <<age, changes>>
      BY <1>6 DEF SelectTransaction, seal, history
    <2>2. UNCHANGED <<unseen, timer>>
      BY <1>6 DEF SelectTransaction, watch
    <2>3. batch # <<>>
      <3>1. /\ rx_transaction # <<>> /\ rx_transaction \in Seq(Transactions)
            /\ current_batch \in Seq(Transactions)
        BY <1>6 DEF SelectTransaction, TypeOK
      <3>2. Head(rx_transaction) \in Transactions
        BY <3>1
      <3> QED
        BY <3>1, <3>2, AppendProperties
    <2> HIDE DEF batch
    <2> QED
      BY <2>1, <2>2, <2>3, FreshDelay, SameDelay
  <1>7. CASE SelectTimer
    <2>1. age' = 0 \/ (age' = age /\ current_batch = <<>>)
      BY <1>7 DEF SelectTimer, seal, history
    <2> QED
      BY <2>1, FreshDelay DEF DelayInv
  <1>8. CASE Deliver
    <2>1. current_batch = <<>> /\ age' = age
      BY <1>8 DEF Deliver, HandOver, history
    <2> QED
      BY <2>1, FreshDelay DEF DelayInv
  <1>9. CASE Tick
    <2>1. /\ Idles /\ timer > 0 /\ timer' = timer - 1
          /\ UNCHANGED <<current_batch, unseen, changes>>
          /\ age' = age \/ (current_batch # <<>> /\ age' = age + 1)
      BY <1>9 DEF Tick, transactions, watch
    <2>2. unseen => current_batch = <<>>
      BY <2>1 DEF Idles, HandOver
    <2>3. CASE unseen
      BY <2>1, <2>2, <2>3, FreshDelay DEF DelayInv
    <2>4. CASE ~ unseen
      <3>1. Remaining = timer /\ Remaining' = timer - 1
        BY <2>1, <2>4 DEF Remaining
      <3>2. age' + (timer - 1) <= age + timer
        <4>1. age \in Nat /\ timer \in Nat
          BY DelayFacts
        <4>2. age' = age \/ age' = age + 1
          BY <2>1
        <4> QED
          BY <4>1, <4>2
      <3>3. age' + (timer - 1) <= Delay * (1 + changes)
        BY <2>1, <3>1, <3>2, DelayFacts DEF DelayInv
      <3> QED
        BY <2>1, <3>1, <3>3 DEF DelayInv
    <2> QED
      BY <2>3, <2>4
  <1>10. CASE UNCHANGED vars
    BY <1>10, SameDelay DEF vars, transactions, watch, history
  <1> QED
    BY <1>1, <1>2, <1>3, <1>4, <1>5, <1>6, <1>7, <1>8, <1>9, <1>10 DEF Next

\* A batch waits no longer than max_batch_delay and as long again for every state
\* that arrived since its first transaction.
THEOREM Delays == Spec => []BoundedDelay
  <1>1. Init => DelayInv
    BY BatchMakerAssumption DEF Init, DelayInv, Remaining
  <1>2. BatchInv /\ DelayInv => BoundedDelay
    BY DelayFacts DEF BatchInv, DelayInv, BoundedDelay
  <1>3. BatchInv /\ DelayInv /\ [Next]_vars => BatchInv' /\ DelayInv'
    BY TypeStep, DelayStep
  <1> QED
    BY <1>1, <1>2, <1>3, InitType, PTL DEF Spec

-----------------------------------------------------------------------------
(* Order.                                                                  *)

\* The transactions on their way, in the order they are taken.
OnTheWay == Then(Then(Then(Then(taken, FlattenSeq(tx_message)), sealing), current_batch), rx_transaction)

LEMMA OnTheWayFacts == TransactionsPreserved <=> OnTheWay = [i \in 1 .. arrived |-> i]
  BY DEF TransactionsPreserved, OnTheWay, Then

LEMMA TxMessageFacts ==
  ASSUME TypeOK
  PROVE  tx_message \in Seq(Seq(Transactions)) /\ FlattenSeq(tx_message) \in Seq(Transactions)
  <1>1. tx_message \in Seq(Seq(Transactions))
    BY DEF TypeOK
  <1> QED
    BY <1>1, FlattenInSeq

LEMMA OrderStep ==
  ASSUME BatchInv, BatchInv', TransactionsPreserved, [Next]_vars
  PROVE  TransactionsPreserved'
  <1> USE DEF BatchInv
  <1> DEFINE Q == Seq(Transactions)
             flat == FlattenSeq(tx_message)
             first == Then(taken, flat)
  <1>1. /\ taken \in Q /\ sealing \in Q /\ current_batch \in Q /\ rx_transaction \in Q
        /\ flat \in Q /\ tx_message \in Seq(Q) /\ first \in Q
    BY TxMessageFacts, ThenFacts DEF TypeOK
  <1>2. OnTheWay = [i \in 1 .. arrived |-> i]
    BY OnTheWayFacts
  <1>3. OnTheWay = Then(first, Then(sealing, Then(current_batch, rx_transaction)))
    BY <1>1, Regroup DEF OnTheWay
  <1>4. <<>> \in Q /\ \A s \in Q : Then(s, <<>>) = s /\ Then(<<>>, s) = s
    BY ThenFacts
  <1>5. SUFFICES OnTheWay' = [i \in 1 .. arrived' |-> i]
    BY DEF TransactionsPreserved, OnTheWay, Then
  \* What comes before the branch of the select, when nothing is handed over.
  <1>6. ASSUME sealing = <<>>
        PROVE  OnTheWay = Then(first, Then(current_batch, rx_transaction))
    <2>1. Then(current_batch, rx_transaction) \in Q
      BY <1>1, ThenFacts
    <2> QED
      BY <1>3, <1>4, <1>6, <2>1
  \* A batch that is sealed holds the current one.
  <1>7. ASSUME sealing = <<>>, NEW batch \in Q, seal(batch), UNCHANGED <<arrived, tx_message, taken>>,
               rx_transaction' \in Q, Then(batch, rx_transaction') = Then(current_batch, rx_transaction)
        PROVE  OnTheWay' = [i \in 1 .. arrived' |-> i]
    <2>1. sealing' = batch /\ current_batch' = <<>>
      BY <1>7 DEF seal
    <2>2. OnTheWay' = Then(Then(Then(first, batch), <<>>), rx_transaction')
      BY <1>7, <2>1 DEF OnTheWay
    <2>3. Then(first, batch) \in Q
      BY <1>1, <1>7, ThenFacts
    <2>4. Then(Then(first, batch), <<>>) = Then(first, batch)
      BY <1>4, <2>3
    <2>5. Then(Then(first, batch), rx_transaction') = Then(first, Then(batch, rx_transaction'))
      <3>1. \A x, y, z \in Q : Then(Then(x, y), z) = Then(x, Then(y, z))
        BY ThenFacts
      <3> HIDE DEF Q, first
      <3> QED
        BY <1>1, <1>7, <3>1
    <2> HIDE DEF first
    <2> QED
      BY <1>2, <1>6, <1>7, <2>2, <2>4, <2>5
  <1>8. CASE ReceiveTransaction
    <2> DEFINE done == Then(Then(first, sealing), current_batch)
    <2>1. done \in Q
      BY <1>1, ThenFacts
    <2>2. /\ arrived' = arrived + 1 /\ rx_transaction' = Append(rx_transaction, arrived + 1)
          /\ arrived + 1 \in Transactions /\ arrived \in Nat
          /\ UNCHANGED <<current_batch, sealing, tx_message, taken>>
      BY <1>8, BatchMakerAssumption DEF ReceiveTransaction, TypeOK, Transactions
    <2>3. OnTheWay = Then(done, rx_transaction) /\ OnTheWay' = Then(done, rx_transaction')
      BY <2>2 DEF OnTheWay
    <2> HIDE DEF done
    <2>4. Joins(Append(Then(done, rx_transaction), arrived + 1), done, Append(rx_transaction, arrived + 1))
      <3>1. Joins(Then(done, rx_transaction), done, rx_transaction)
        BY DEF Joins, Then
      <3> QED
        BY <1>1, <2>1, <2>2, <3>1, JoinsAppend
    <2>5. OnTheWay' = Append(OnTheWay, arrived + 1)
      BY <2>2, <2>3, <2>4 DEF Joins, Then
    <2>6. Append([i \in 1 .. arrived |-> i], arrived + 1) = [i \in 1 .. arrived + 1 |-> i]
      BY <2>2
    <2> QED
      BY <1>2, <2>2, <2>5, <2>6
  <1>9. CASE SelectTransaction
    <2> DEFINE batch == Append(current_batch, Head(rx_transaction))
    <2>1. /\ rx_transaction # <<>> /\ rx_transaction' = Tail(rx_transaction) /\ sealing = <<>>
          /\ UNCHANGED <<arrived, tx_message, taken>>
      BY <1>9 DEF SelectTransaction, HandOver
    <2>2. /\ batch \in Q /\ rx_transaction' \in Q
          /\ Then(batch, rx_transaction') = Then(current_batch, rx_transaction)
      BY <1>1, <2>1, HeadFirst
    <2>3. seal(batch) \/ (current_batch' = batch /\ UNCHANGED sealing)
      BY <1>9 DEF SelectTransaction
    <2> HIDE DEF batch
    <2>4. CASE seal(batch)
      BY <1>7, <2>1, <2>2, <2>4
    <2>5. CASE current_batch' = batch /\ UNCHANGED sealing
      <3>1. OnTheWay' = Then(Then(Then(first, <<>>), batch), rx_transaction')
        BY <2>1, <2>5 DEF OnTheWay
      <3>2. Then(first, <<>>) = first
        BY <1>1, <1>4
      <3>3. \A x, y, z \in Q : Then(Then(x, y), z) = Then(x, Then(y, z))
        BY ThenFacts
      <3> HIDE DEF Q, first
      <3>4. Then(Then(first, batch), rx_transaction') = Then(first, Then(batch, rx_transaction'))
        BY <1>1, <2>2, <3>3
      <3> QED
        BY <1>2, <1>6, <2>1, <2>2, <3>1, <3>2, <3>4
    <2> QED
      BY <2>3, <2>4, <2>5
  <1>10. CASE SelectTimer
    <2>1. UNCHANGED <<arrived, rx_transaction, tx_message, taken>> /\ sealing = <<>>
      BY <1>10 DEF SelectTimer, HandOver
    <2>2. seal(current_batch) \/ UNCHANGED <<current_batch, sealing>>
      BY <1>10 DEF SelectTimer
    <2>3. CASE seal(current_batch)
      BY <1>1, <1>7, <2>1, <2>3
    <2>4. CASE UNCHANGED <<current_batch, sealing>>
      BY <1>2, <2>1, <2>4 DEF OnTheWay
    <2> QED
      BY <2>2, <2>3, <2>4
  <1>11. CASE Deliver
    <2>1. /\ tx_message' = Append(tx_message, sealing) /\ sealing' = <<>>
          /\ UNCHANGED <<arrived, rx_transaction, current_batch, taken>>
      BY <1>11 DEF Deliver
    <2>2. FlattenSeq(tx_message)' = Then(flat, sealing)
      BY <1>1, <2>1, FlattenAppend DEF Then
    <2>3. Then(taken, Then(flat, sealing)) = Then(first, sealing) /\ Then(first, sealing) \in Q
      BY <1>1, ThenFacts
    <2>4. OnTheWay' = Then(Then(Then(Then(taken, Then(flat, sealing)), <<>>), current_batch), rx_transaction)
      BY <2>1, <2>2 DEF OnTheWay
    <2>5. Then(Then(first, sealing), <<>>) = Then(first, sealing)
      BY <1>4, <2>3
    <2>6. OnTheWay = Then(Then(Then(first, sealing), current_batch), rx_transaction)
      BY DEF OnTheWay
    <2> HIDE DEF first, flat
    <2> QED
      BY <1>2, <2>1, <2>3, <2>4, <2>5, <2>6
  <1>12. CASE TakeBatch
    <2> DEFINE h == Head(tx_message)
               t == FlattenSeq(Tail(tx_message))
    <2>1. /\ tx_message # <<>> /\ taken' = Then(taken, h) /\ tx_message' = Tail(tx_message)
          /\ UNCHANGED <<arrived, rx_transaction, current_batch, sealing>>
      BY <1>12 DEF TakeBatch, Then
    <2>2. h \in Q /\ Tail(tx_message) \in Seq(Q)
      BY <1>1, <2>1
    <2>3. t \in Q
      BY <2>2, FlattenInSeq
    <2>4. flat = Then(h, t)
      BY <1>1, <2>1, FlattenTail DEF Then
    <2>5. OnTheWay' = Then(Then(Then(Then(Then(taken, h), t), sealing), current_batch), rx_transaction)
      BY <2>1 DEF OnTheWay
    <2>6. OnTheWay = Then(Then(Then(Then(taken, flat), sealing), current_batch), rx_transaction)
      BY DEF OnTheWay
    <2> HIDE DEF h, t, flat, first
    <2>7. Then(Then(taken, h), t) = Then(taken, Then(h, t))
      BY <1>1, <2>2, <2>3, ThenFacts
    <2> QED
      BY <1>2, <2>1, <2>4, <2>5, <2>6, <2>7
  <1>13. CASE UNCHANGED transactions
    BY <1>2, <1>13 DEF OnTheWay, transactions
  <1>14. CASE \/ SendBatchSilent \/ Reconnect \/ EnterLoop \/ Resume \/ SelectChanged \/ NothingChanged
              \/ Wake \/ Tick \/ UNCHANGED vars
    <2>1. UNCHANGED transactions
      BY <1>14 DEF SendBatchSilent, Reconnect, EnterLoop, Resume, SelectChanged, NothingChanged,
                   Wake, Tick, vars
    <2> QED
      BY <1>13, <2>1
  <1>15. ASSUME NEW c \in 1 .. Connections, CheckRound(c) \/ SendState(c)
         PROVE  OnTheWay' = [i \in 1 .. arrived' |-> i]
    <2>1. UNCHANGED transactions
      BY <1>15 DEF CheckRound, SendState
    <2> QED
      BY <1>13, <2>1
  <1> QED
    BY <1>8, <1>9, <1>10, <1>11, <1>12, <1>14, <1>15 DEF Next

\* No transaction is lost, repeated or overtaken between the client and
\* QuorumWaiter, whatever pauses, states and full channels come between.
THEOREM OrderIsKept == Spec => []TransactionsPreserved
  <1>1. Init => TransactionsPreserved
    <2> SUFFICES ASSUME Init PROVE TransactionsPreserved
      OBVIOUS
    <2>1. /\ taken = <<>> /\ tx_message = <<>> /\ sealing = <<>> /\ current_batch = <<>>
          /\ rx_transaction = <<>> /\ arrived = 0
      BY DEF Init
    <2>2. FlattenSeq(<<>>) = <<>>
      BY DEF FlattenSeq
    <2>3. Then(<<>>, <<>>) = <<>>
      <3>1. <<>> \in Seq(Nat) /\ \A s \in Seq(Nat) : Then(s, <<>>) = s
        BY ThenFacts
      <3> QED
        BY <3>1
    <2>4. [i \in 1 .. 0 |-> i] = <<>>
      OBVIOUS
    <2> QED
      BY <2>1, <2>2, <2>3, <2>4, OnTheWayFacts DEF OnTheWay
  <1>2. BatchInv /\ TransactionsPreserved /\ [Next]_vars => BatchInv' /\ TransactionsPreserved'
    BY TypeStep, OrderStep
  <1> QED
    BY <1>1, <1>2, InitType, PTL DEF Spec

=============================================================================
