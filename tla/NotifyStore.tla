---------------------------- MODULE NotifyStore ----------------------------
(***************************************************************************)
(* What the callers of the store rely on: every call takes effect at once, *)
(* when the store accepts it.  A read is answered with what the store      *)
(* holds then; a notify_read of a key the store does not hold is answered  *)
(* with the next value written.  The answer may arrive any time later.     *)
(***************************************************************************)
CONSTANTS Keys, Values,
          Calls, \* the calls of read and notify_read
          None   \* the answer to the read of an absent key

VARIABLES content, \* the value of every key
          fate,    \* what will become of every call
          call     \* what its caller sees of it

vars == <<content, fate, call>>

Idle == <<"idle">>
Waits(k) == <<"waits", k>>
Fixed(v) == <<"fixed", v>>
Dropped == <<"dropped">>

Init ==
    /\ content = [k \in Keys |-> None]
    /\ fate = [c \in Calls |-> Idle]
    /\ call = [c \in Calls |-> "idle"]

Write(k, v) ==
    /\ content' = [content EXCEPT ![k] = v]
    /\ fate' = [c \in Calls |-> IF fate[c] = Waits(k) THEN Fixed(v) ELSE fate[c]]
    /\ UNCHANGED call

Read(c, k) ==
    /\ call[c] = "idle"
    /\ fate' = [fate EXCEPT ![c] = Fixed(content[k])]
    /\ call' = [call EXCEPT ![c] = "waiting"]
    /\ UNCHANGED content

NotifyRead(c, k) ==
    /\ call[c] = "idle"
    /\ fate' = [fate EXCEPT ![c] = IF content[k] = None THEN Waits(k) ELSE Fixed(content[k])]
    /\ call' = [call EXCEPT ![c] = "waiting"]
    /\ UNCHANGED content

\* The callers of C, which share their answer, get it in one step.
Answer(C) ==
    /\ \E v \in Values \cup {None} :
         /\ \A c \in C : call[c] = "waiting" /\ fate[c] = Fixed(v)
         /\ call' = [c \in Calls |-> IF c \in C THEN v ELSE call[c]]
    /\ UNCHANGED <<content, fate>>

Drop(c) ==
    /\ call[c] = "waiting"
    /\ fate' = [fate EXCEPT ![c] = Dropped]
    /\ call' = [call EXCEPT ![c] = "dropped"]
    /\ UNCHANGED content

Next ==
    \/ \E k \in Keys, v \in Values : Write(k, v)
    \/ \E c \in Calls, k \in Keys : Read(c, k) \/ NotifyRead(c, k)
    \/ \E C \in SUBSET Calls : Answer(C)
    \/ \E c \in Calls : Drop(c)

Spec == Init /\ [][Next]_vars

=============================================================================
