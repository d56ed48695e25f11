------------------------------- MODULE Store -------------------------------
(***************************************************************************)
(* The store (store/src/lib.rs): a task that owns the database and serves  *)
(* the commands of one bounded channel in their order.  write returns when *)
(* its command is in the channel; read and notify_read wait for the answer *)
(* and may be dropped while they do (the waiters drop notify_read when a   *)
(* header is cleaned up).  The database itself is RocksDB: a put or a get  *)
(* may fail.                                                               *)
(***************************************************************************)
EXTENDS Naturals, Sequences, FiniteSetsExt

CONSTANTS Keys, Values,
          Calls,       \* the calls of read and notify_read
          None,        \* what get returns for an absent key
          Error,       \* a StoreError
          ChannelSize, \* the capacity of the channel (100)
          MaxWrites    \* the bound on the writes

ASSUME StoreAssumption ==
    /\ ChannelSize \in Nat \ {0} /\ MaxWrites \in Nat
    /\ None \notin Values /\ Error \notin Values \cup {None}
    /\ {"idle", "waiting", "dropped"} \cap (Values \cup {None, Error}) = {}

VARIABLES
    channel,     \* the StoreCommands sent and not yet served
    db,          \* the database
    obligations, \* for every key, the notify_read calls that wait for it
    call,        \* what the caller of every call sees
    writes,      \* how many writes there were
    failing      \* whether the database may fail

vars == <<channel, db, obligations, call, writes, failing>>

WriteCommand(k, v) == [kind |-> "Write", key |-> k, value |-> v]
ReadCommand(k, c) == [kind |-> "Read", key |-> k, sender |-> c]
NotifyReadCommand(k, c) == [kind |-> "NotifyRead", key |-> k, sender |-> c]

Init ==
    /\ channel = <<>>
    /\ db = [k \in Keys |-> None]
    /\ obligations = [k \in Keys |-> {}]
    /\ call = [c \in Calls |-> "idle"]
    /\ writes = 0
    /\ failing \in BOOLEAN

-----------------------------------------------------------------------------
(* The callers.  A send waits while the channel is full.                   *)

write(k, v) ==
    /\ Len(channel) < ChannelSize /\ writes < MaxWrites
    /\ channel' = Append(channel, WriteCommand(k, v))
    /\ writes' = writes + 1
    /\ UNCHANGED <<db, obligations, call, failing>>

\* Mutant of read: it reads the database directly, not through the channel.
read_directly(c, k) ==
    /\ call[c] = "idle"
    /\ call' = [call EXCEPT ![c] = db[k]]
    /\ UNCHANGED <<channel, db, obligations, writes, failing>>

read(c, k) ==
    /\ Len(channel) < ChannelSize /\ call[c] = "idle"
    /\ channel' = Append(channel, ReadCommand(k, c))
    /\ call' = [call EXCEPT ![c] = "waiting"]
    /\ UNCHANGED <<db, obligations, writes, failing>>

notify_read(c, k) ==
    /\ Len(channel) < ChannelSize /\ call[c] = "idle"
    /\ channel' = Append(channel, NotifyReadCommand(k, c))
    /\ call' = [call EXCEPT ![c] = "waiting"]
    /\ UNCHANGED <<db, obligations, writes, failing>>

\* The future is dropped.  The command, or the obligation, stays.
Drop(c) ==
    /\ call[c] = "waiting"
    /\ call' = [call EXCEPT ![c] = "dropped"]
    /\ UNCHANGED <<channel, db, obligations, writes, failing>>

-----------------------------------------------------------------------------
(* The task.                                                               *)

\* Sending the answer of a call that was dropped fails, and is ignored.
Told(C, answer) ==
    [c \in Calls |-> IF c \in C /\ call[c] = "waiting" THEN answer ELSE call[c]]

Serves(kind) == channel # <<>> /\ Head(channel).kind = kind

\* Mutant of Write: it only tells the waiters what the database took.
WriteIfStored ==
    /\ Serves("Write")
    /\ LET k == Head(channel).key
           v == Head(channel).value
       IN  \/ /\ db' = [db EXCEPT ![k] = v]
              /\ call' = Told(obligations[k], v)
              /\ obligations' = [obligations EXCEPT ![k] = {}]
           \/ failing /\ UNCHANGED <<db, call, obligations>>
    /\ channel' = Tail(channel)
    /\ UNCHANGED <<writes, failing>>

\* An error of put is ignored, and the obligations are met all the same.
Write ==
    /\ Serves("Write")
    /\ LET k == Head(channel).key
           v == Head(channel).value
       IN  /\ \/ db' = [db EXCEPT ![k] = v]
              \/ failing /\ db' = db
           /\ call' = Told(obligations[k], v)
           /\ obligations' = [obligations EXCEPT ![k] = {}]
    /\ channel' = Tail(channel)
    /\ UNCHANGED <<writes, failing>>

\* What get may return.
Get(k) == {db[k]} \cup (IF failing THEN {Error} ELSE {})

Read ==
    /\ Serves("Read")
    /\ \E answer \in Get(Head(channel).key) : call' = Told({Head(channel).sender}, answer)
    /\ channel' = Tail(channel)
    /\ UNCHANGED <<db, obligations, writes, failing>>

NotifyRead ==
    /\ Serves("NotifyRead")
    /\ LET k == Head(channel).key
           c == Head(channel).sender
       IN  \E response \in Get(k) :
             \/ /\ response = None
                /\ obligations' = [obligations EXCEPT ![k] = @ \cup {c}]
                /\ UNCHANGED call
             \/ /\ response # None
                /\ call' = Told({c}, response)
                /\ UNCHANGED obligations
    /\ channel' = Tail(channel)
    /\ UNCHANGED <<db, writes, failing>>

Next ==
    \/ \E k \in Keys, v \in Values : write(k, v)
    \/ \E c \in Calls, k \in Keys : read(c, k) \/ notify_read(c, k)
    \/ \E c \in Calls : Drop(c)
    \/ Write \/ Read \/ NotifyRead

Spec == Init /\ [][Next]_vars

\* The runtime runs the task while there are commands.
Fairness == WF_vars(Write \/ Read \/ NotifyRead)

FairSpec == Spec /\ Fairness

-----------------------------------------------------------------------------
(* Properties.                                                             *)

Commands ==
    [kind : {"Write"}, key : Keys, value : Values]
    \cup [kind : {"Read", "NotifyRead"}, key : Keys, sender : Calls]

\* The type invariant of the channel, the database and the calls.
TypeOK ==
    /\ channel \in Seq(Commands) /\ Len(channel) <= ChannelSize
    /\ db \in [Keys -> Values \cup {None}]
    /\ obligations \in [Keys -> SUBSET Calls]
    /\ call \in [Calls -> {"idle", "waiting", "dropped"} \cup Values \cup {None, Error}]
    /\ writes \in 0 .. MaxWrites
    /\ failing \in BOOLEAN

\* The positions in the channel of the writes to a key.
WritesTo(k) == {i \in DOMAIN channel : channel[i].kind = "Write" /\ channel[i].key = k}

\* A notify_read accepted before a write of its key.
AheadOfWrite(c) ==
    \E k \in Keys : \E j \in WritesTo(k) :
        \/ c \in obligations[k]
        \/ \E i \in 1 .. j - 1 : channel[i] = NotifyReadCommand(k, c)

\* A notify_read followed by a write of its key returns, also when the
\* database fails and the store ignores it: the waiters for payload and
\* parents have no other way to go on.
NotifiedOfWrite == \A c \in Calls : AheadOfWrite(c) ~> call[c] # "waiting"

-----------------------------------------------------------------------------
(* Unless the database fails, the calls of the store take effect in the    *)
(* order the channel accepts them: it implements NotifyStore.  A store     *)
(* whose database may fail is mapped to one that is never called.          *)

\* What the task will find under a key when it serves the i-th command.
ContentAt(k, i) ==
    LET W == {j \in WritesTo(k) : j < i}
    IN  IF W = {} THEN db[k] ELSE channel[Max(W)].value

\* What a notify_read waiting from the i-th command on will be answered.
NextWrite(k, i) ==
    LET W == {j \in WritesTo(k) : j > i}
    IN  IF W = {} THEN <<"waits", k>> ELSE <<"fixed", channel[Min(W)].value>>

\* What will become of a call.
Fate(c) ==
    CASE call[c] = "idle"    -> <<"idle">>
      [] call[c] = "dropped" -> <<"dropped">>
      [] call[c] = "waiting" ->
           IF \E k \in Keys : c \in obligations[k]
           THEN NextWrite(CHOOSE k \in Keys : c \in obligations[k], 0)
           ELSE LET i == CHOOSE i \in DOMAIN channel :
                           channel[i].kind # "Write" /\ channel[i].sender = c
                    k == channel[i].key
                IN  IF channel[i].kind = "NotifyRead" /\ ContentAt(k, i) = None
                    THEN NextWrite(k, i)
                    ELSE <<"fixed", ContentAt(k, i)>>
      [] OTHER               -> <<"fixed", call[c]>>

Abstract ==
    INSTANCE NotifyStore
        WITH content <- [k \in Keys |-> IF failing THEN None ELSE ContentAt(k, Len(channel) + 1)],
             fate    <- [c \in Calls |-> IF failing THEN <<"idle">> ELSE Fate(c)],
             call    <- [c \in Calls |-> IF failing THEN "idle" ELSE call[c]]

\* A caller cannot tell the task and its channel from a store whose calls
\* take effect at once: what it wrote it reads, and no notify_read misses a
\* write.
ImplementsNotifyStore == Abstract!Spec

=============================================================================
