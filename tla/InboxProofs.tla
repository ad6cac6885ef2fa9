----------------------------- MODULE InboxProofs -----------------------------
(***************************************************************************)
(* Proofs about Inbox, for any number of notifications and calls, with a   *)
(* Redis that may lose any command, and about the tab of InboxClient       *)
(* beside it.                                                              *)
(***************************************************************************)
EXTENDS InboxClient, FiniteSetTheorems, TLAPS

(* Redis sets, rows and queues of commands keep their types.               *)
LEMMA DecrementsTyped == ASSUME NEW k \in Nat PROVE Decrements(k) \in Seq(Command)
BY DEF Decrements, Command

LEMMA WriteTyped ==
    ASSUME ITypeOK, NEW c \in Calls, NEW notes, NEW state \in RowState,
           NEW todo \in Seq(Command), Write(c, notes, state, todo)
    PROVE  ITypeOK'
BY DEF ITypeOK, Write

(* How many unread notifications a deletion hits is a number.              *)
LEMMA UnreadCounted ==
    ASSUME NEW notes
    PROVE  Cardinality(notes \cap Unread) \in Nat
<1>1. IsFiniteSet(notes \cap Unread)
  BY InboxAssumption, FS_Subset DEF Unread
<1> QED BY <1>1, FS_CardinalityType

LEMMA InboxStepTyped == ITypeOK /\ [INext]_ivars => ITypeOK'
<1> SUFFICES ASSUME ITypeOK, [INext]_ivars PROVE ITypeOK'
  OBVIOUS
<1>1. ASSUME NEW c \in Calls, NEW n \in Notes, Create(c, n) PROVE ITypeOK'
  <2>1. <<"incr">> \in Seq(Command)
    BY DEF Command
  <2> QED BY <1>1, <2>1, WriteTyped DEF Create, RowState
<1>2. ASSUME NEW c \in Calls, NEW n \in Notes, MarkAsRead(c, n) PROVE ITypeOK'
  BY <1>2, DecrementsTyped, WriteTyped DEF MarkAsRead, RowState
<1>3. ASSUME NEW c \in Calls, MarkAllAsRead(c) PROVE ITypeOK'
  <2>1. <<"reset">> \in Seq(Command)
    BY DEF Command
  <2> QED BY <1>3, <2>1, WriteTyped DEF MarkAllAsRead, RowState
<1>4. ASSUME NEW c \in Calls, NEW notes \in SUBSET Notes, Delete(c, notes) PROVE ITypeOK'
  BY <1>4, UnreadCounted, DecrementsTyped, WriteTyped DEF Delete, RowState
<1>5. ASSUME NEW c \in Calls, DeleteAll(c) PROVE ITypeOK'
  <2>1. <<"reset">> \in Seq(Command)
    BY DEF Command
  <2> QED BY <1>5, <2>1, WriteTyped DEF DeleteAll, RowState
<1>6. ASSUME NEW c \in Calls, Redis(c) PROVE ITypeOK'
  <2> DEFINE next == Head(commands[c])
             rest == Tail(commands[c])
  <2>1. next \in Command /\ rest \in Seq(Command) /\ <<"decr">> \o rest \in Seq(Command)
    BY <1>6 DEF Redis, Free, ITypeOK, Command
  <2>2. counter' \in Int
    BY <1>6, <2>1 DEF Redis, ITypeOK, Command
  <2>3. commands' \in [Calls -> Seq(Command)]
    BY <1>6, <2>1 DEF Redis, ITypeOK
  <2> QED BY <1>6, <2>2, <2>3 DEF Redis, ITypeOK
<1>7. ASSUME NEW c \in Calls, RedisFails(c) PROVE ITypeOK'
  <2>1. commands' \in [Calls -> Seq(Command)]
    BY <1>7 DEF RedisFails, Free, ITypeOK
  <2> QED BY <1>7, <2>1 DEF RedisFails, ITypeOK
<1>8. CASE UNCHANGED ivars
  BY <1>8 DEF ivars, ITypeOK
<1> QED BY <1>1, <1>2, <1>3, <1>4, <1>5, <1>6, <1>7, <1>8 DEF INext, Arrive, Act

LEMMA InboxInitTyped == IInit => ITypeOK
BY DEF IInit, ITypeOK, RowState

(* Rows and counter are of their types, and what is still to be told to    *)
(* Redis are commands.                                                     *)
THEOREM InboxTypeCorrect == ISpec => []ITypeOK
BY InboxInitTyped, InboxStepTyped, PTL DEF ISpec

-----------------------------------------------------------------------------
(* The calls about to decrement are some of the calls.                     *)
LEMMA DecrementingCounted ==
    /\ IsFiniteSet(Decrementing)
    /\ Cardinality(Decrementing) \in Nat
    /\ Cardinality(Calls) \in Nat \ {0}
    /\ Cardinality(Decrementing) <= Cardinality(Calls)
<1>1. IsFiniteSet(Decrementing) /\ Cardinality(Decrementing) <= Cardinality(Calls)
  BY InboxAssumption, FS_Subset DEF Decrementing
<1>2. Cardinality(Calls) \in Nat /\ Cardinality(Calls) # 0
  BY InboxAssumption, FS_CardinalityType, FS_EmptySet
<1> QED BY <1>1, <1>2, FS_CardinalityType

(* A call that is not about to decrement leaves room for the others.       *)
LEMMA OthersDecrementing ==
    ASSUME NEW c \in Calls, c \notin Decrementing
    PROVE  Cardinality(Decrementing) < Cardinality(Calls)
<1>1. Decrementing \subseteq Calls \ {c}
  BY DEF Decrementing
<1>2. /\ IsFiniteSet(Calls \ {c})
      /\ Cardinality(Calls \ {c}) = Cardinality(Calls) - 1
  BY InboxAssumption, FS_RemoveElement
<1>3. Cardinality(Decrementing) <= Cardinality(Calls \ {c})
  BY <1>1, <1>2, FS_Subset
<1> QED BY <1>2, <1>3, DecrementingCounted

(* A step that takes one call out of Decrementing, or leaves the set as it *)
(* is.                                                                     *)
LEMMA LeavesDecrementing ==
    ASSUME ITypeOK, NEW c \in Calls, NEW todo, commands' = [commands EXCEPT ![c] = todo],
           todo = <<>> \/ Head(todo) # "decr"
    PROVE  /\ Decrementing' = Decrementing \ {c}
           /\ Cardinality(Decrementing') =
                IF c \in Decrementing THEN Cardinality(Decrementing) - 1
                                      ELSE Cardinality(Decrementing)
<1>1. Decrementing' = Decrementing \ {c}
  BY DEF Decrementing, Free, ITypeOK
<1> QED BY <1>1, DecrementingCounted, FS_RemoveElement

(* A DECR is never queued: it is put at the head, after a GET.             *)
NoneWaiting == \A c \in Calls : \A i \in 2..Len(commands[c]) : commands[c][i] # "decr"

FloorInvariant == ITypeOK /\ NoneWaiting /\ CounterFloor

(* A committed UPDATE leaves the counter alone and makes nobody decrement. *)
LEMMA WriteKeepsFloor ==
    ASSUME FloorInvariant, NEW c \in Calls, Free(c), NEW notes, NEW state,
           NEW todo \in Seq({"incr", "get", "reset"}), Write(c, notes, state, todo)
    PROVE  NoneWaiting' /\ CounterFloor'
<1>1. \A i \in 1..Len(todo) : todo[i] # "decr"
  OBVIOUS
<1>2. NoneWaiting'
  BY <1>1 DEF FloorInvariant, ITypeOK, NoneWaiting, Write
<1>3. todo = <<>> \/ Head(todo) # "decr"
  BY <1>1
<1>4. c \notin Decrementing
  BY DEF Decrementing
<1>5. Cardinality(Decrementing') = Cardinality(Decrementing)
  BY <1>3, <1>4, LeavesDecrementing DEF FloorInvariant, Write
<1> QED BY <1>2, <1>5 DEF FloorInvariant, CounterFloor, Write

(* When a command is done or lost, the next one is no DECR.                *)
LEMMA RestIsFresh ==
    ASSUME FloorInvariant, NEW c \in Calls, ~Free(c)
    PROVE  LET rest == Tail(commands[c])
           IN  /\ rest \in Seq(Command)
               /\ rest = <<>> \/ Head(rest) # "decr"
               /\ \A i \in 1..Len(rest) : rest[i] # "decr"
BY DEF FloorInvariant, ITypeOK, NoneWaiting, Free

LEMMA TailKeepsWaiting ==
    ASSUME FloorInvariant, NEW c \in Calls, ~Free(c),
           commands' = [commands EXCEPT ![c] = Tail(commands[c])]
    PROVE  NoneWaiting'
BY RestIsFresh DEF FloorInvariant, ITypeOK, NoneWaiting, Free

LEMMA RedisKeepsFloor ==
    ASSUME FloorInvariant, NEW c \in Calls, Redis(c)
    PROVE  NoneWaiting' /\ CounterFloor'
<1> DEFINE next == Head(commands[c])
           rest == Tail(commands[c])
<1>1. ~Free(c) /\ next \in Command
  BY DEF Redis, Free, FloorInvariant, ITypeOK
<1>2. /\ rest \in Seq(Command)
      /\ rest = <<>> \/ Head(rest) # "decr"
      /\ \A i \in 1..Len(rest) : rest[i] # "decr"
  BY <1>1, RestIsFresh
<1>3. counter \in Int
  BY DEF FloorInvariant, ITypeOK
<1>4. CASE next = "get" /\ counter > 0
  <2>1. counter' = counter /\ commands' = [commands EXCEPT ![c] = <<"decr">> \o rest]
    BY <1>4 DEF Redis
  <2>2. Decrementing' \subseteq Calls
    BY DEF Decrementing
  <2>3. Cardinality(Decrementing') <= Cardinality(Calls)
    BY <2>2, InboxAssumption, FS_Subset
  <2>4. Cardinality(Decrementing') \in Nat
    BY <2>2, InboxAssumption, FS_Subset, FS_CardinalityType
  <2>5. CounterFloor'
    BY <1>3, <1>4, <2>1, <2>3, <2>4, DecrementingCounted DEF CounterFloor
  <2>6. NoneWaiting'
    <3>1. ASSUME NEW i \in 2..Len(<<"decr">> \o rest)
          PROVE  (<<"decr">> \o rest)[i] # "decr"
      <4> HIDE DEF rest
      <4>1. Len(<<"decr">> \o rest) = Len(rest) + 1 /\ Len(rest) \in Nat
        BY <1>2
      <4>2. i - 1 \in 1..Len(rest)
        BY <4>1
      <4>3. (<<"decr">> \o rest)[i] = rest[i - 1]
        BY <1>2, <4>1, <4>2
      <4> QED BY <1>2, <4>2, <4>3
    <3> QED BY <2>1, <3>1 DEF NoneWaiting, FloorInvariant, ITypeOK
  <2> QED BY <2>5, <2>6
<1>5. CASE ~(next = "get" /\ counter > 0)
  <2>1. commands' = [commands EXCEPT ![c] = rest]
    BY <1>5 DEF Redis
  <2>2. NoneWaiting'
    BY <1>1, <2>1, TailKeepsWaiting
  <2>3. Cardinality(Decrementing') = IF next = "decr" THEN Cardinality(Decrementing) - 1
                                                      ELSE Cardinality(Decrementing)
    BY <1>1, <1>2, <2>1, LeavesDecrementing DEF FloorInvariant, Decrementing
  <2>4. counter + Cardinality(Calls) > Cardinality(Decrementing)
    BY DEF FloorInvariant, CounterFloor
  <2>5. CASE next = "incr"
    <3>1. counter' = counter + 1
      BY <2>5 DEF Redis
    <3> QED BY <1>3, <2>2, <2>3, <2>4, <2>5, <3>1, DecrementingCounted DEF CounterFloor
  <2>6. CASE next = "decr"
    <3>1. counter' = counter - 1
      BY <2>6 DEF Redis
    <3> QED BY <1>3, <2>2, <2>3, <2>4, <2>6, <3>1, DecrementingCounted DEF CounterFloor
  <2>7. CASE next = "reset"
    <3>1. counter' = 0
      BY <2>7 DEF Redis
    <3>2. Cardinality(Decrementing) < Cardinality(Calls)
      BY <2>7, OthersDecrementing DEF Decrementing
    <3> QED BY <2>2, <2>3, <2>7, <3>1, <3>2, DecrementingCounted DEF CounterFloor
  <2>8. CASE next = "get"
    <3>1. counter' = counter
      BY <2>8 DEF Redis
    <3> QED BY <2>2, <2>3, <2>4, <2>8, <3>1 DEF CounterFloor
  <2> QED BY <1>1, <2>5, <2>6, <2>7, <2>8 DEF Command
<1> QED BY <1>4, <1>5

LEMMA FloorStep == FloorInvariant /\ [INext]_ivars => FloorInvariant'
<1> SUFFICES ASSUME FloorInvariant, [INext]_ivars
             PROVE  NoneWaiting' /\ CounterFloor'
  BY InboxStepTyped DEF FloorInvariant
<1> DEFINE Written(todo) == todo \in Seq({"incr", "get", "reset"})
<1>1. ASSUME NEW c \in Calls, NEW n \in Notes, Create(c, n)
      PROVE  NoneWaiting' /\ CounterFloor'
  <2>1. Written(<<"incr">>)
    OBVIOUS
  <2> QED BY <1>1, <2>1, WriteKeepsFloor DEF Create
<1>2. ASSUME NEW k \in Nat PROVE Written(Decrements(k))
  BY DEF Decrements
<1>3. ASSUME NEW c \in Calls, NEW n \in Notes, MarkAsRead(c, n)
      PROVE  NoneWaiting' /\ CounterFloor'
  BY <1>2, <1>3, WriteKeepsFloor DEF MarkAsRead
<1>4. ASSUME NEW c \in Calls, MarkAllAsRead(c) \/ DeleteAll(c)
      PROVE  NoneWaiting' /\ CounterFloor'
  <2>1. Written(<<"reset">>)
    OBVIOUS
  <2> QED BY <1>4, <2>1, WriteKeepsFloor DEF MarkAllAsRead, DeleteAll
<1>5. ASSUME NEW c \in Calls, NEW notes \in SUBSET Notes, Delete(c, notes)
      PROVE  NoneWaiting' /\ CounterFloor'
  BY <1>2, <1>5, UnreadCounted, WriteKeepsFloor DEF Delete
<1>6. ASSUME NEW c \in Calls, Redis(c) PROVE NoneWaiting' /\ CounterFloor'
  BY <1>6, RedisKeepsFloor
<1>7. ASSUME NEW c \in Calls, RedisFails(c) PROVE NoneWaiting' /\ CounterFloor'
  <2>1. ~Free(c) /\ counter' = counter
        /\ commands' = [commands EXCEPT ![c] = Tail(commands[c])]
    BY <1>7 DEF RedisFails
  <2>2. NoneWaiting'
    BY <2>1, TailKeepsWaiting
  <2> DEFINE rest == Tail(commands[c])
  <2>3. rest = <<>> \/ Head(rest) # "decr"
    BY <2>1, RestIsFresh
  <2>4. commands' = [commands EXCEPT ![c] = rest]
    BY <2>1
  <2> HIDE DEF rest
  <2>5. \/ Cardinality(Decrementing') = Cardinality(Decrementing) - 1
        \/ Cardinality(Decrementing') = Cardinality(Decrementing)
    BY <2>3, <2>4, LeavesDecrementing DEF FloorInvariant
  <2>6. counter \in Int /\ counter + Cardinality(Calls) > Cardinality(Decrementing)
    BY DEF FloorInvariant, CounterFloor, ITypeOK
  <2>7. CounterFloor'
    BY <2>1, <2>5, <2>6, DecrementingCounted DEF CounterFloor
  <2> QED BY <2>2, <2>7
<1>8. CASE UNCHANGED ivars
  BY <1>8 DEF ivars, FloorInvariant, NoneWaiting, CounterFloor, Decrementing, Free
<1> QED BY <1>1, <1>3, <1>4, <1>5, <1>6, <1>7, <1>8 DEF INext, Arrive, Act

LEMMA FloorInit == IInit => FloorInvariant
<1> SUFFICES ASSUME IInit PROVE NoneWaiting /\ CounterFloor
  BY InboxInitTyped DEF FloorInvariant
<1>1. NoneWaiting
  BY DEF IInit, NoneWaiting
<1>2. Decrementing = {}
  BY DEF IInit, Decrementing, Free
<1>3. CounterFloor
  BY <1>2, FS_EmptySet, DecrementingCounted DEF IInit, CounterFloor
<1> QED BY <1>1, <1>3

(* The counter never falls further below zero than there are other calls   *)
(* under way, whatever Redis loses: the check before the DECR is good for  *)
(* that much.                                                              *)
THEOREM FloorHolds == ISpec => []CounterFloor
<1>1. FloorInvariant => CounterFloor
  BY DEF FloorInvariant
<1> QED BY <1>1, FloorInit, FloorStep, PTL DEF ISpec

-----------------------------------------------------------------------------
(* As long as nothing overlaps and nothing is lost: what a call has still  *)
(* to tell Redis makes up for the difference of counter and inbox.         *)
Settles(todo, count, unread) ==
    \/ todo = <<"incr">> /\ count < unread
    \/ todo = <<"reset">>
    \/ /\ count <= unread + Len(todo)
       /\ \A i \in 1..Len(todo) : todo[i] = "get" \/ (i = 1 /\ todo[i] = "decr" /\ count > 0)

Alone(c) == \A d \in Calls \ {c} : Free(d)

Settled ==
    calm => /\ counter >= 0
            /\ \E c \in Calls : Alone(c) /\ Settles(commands[c], counter, Cardinality(Unread))

CalmInvariant == ITypeOK /\ Settled

LEMMA UnreadNumber == IsFiniteSet(Unread) /\ Cardinality(Unread) \in Nat
BY InboxAssumption, FS_Subset, FS_CardinalityType DEF Unread

LEMMA SettledWhenQuiet ==
    ASSUME CalmInvariant, calm, Quiet
    PROVE  counter \in 0..Cardinality(Unread)
<1>1. PICK c \in Calls : Settles(commands[c], counter, Cardinality(Unread))
  BY DEF CalmInvariant, Settled
<1>2. commands[c] = <<>>
  BY DEF Quiet, Free
<1> QED BY <1>1, <1>2, UnreadNumber DEF Settles, CalmInvariant, ITypeOK, Settled

(* A call that begins while all is quiet has just to leave the right       *)
(* commands behind.                                                        *)
LEMMA WriteSettles ==
    ASSUME CalmInvariant, NEW c \in Calls, NEW notes, NEW state, NEW todo,
           Write(c, notes, state, todo),
           counter \in 0..Cardinality(Unread) => Settles(todo, counter, Cardinality(Unread'))
    PROVE  Settled'
<1> SUFFICES ASSUME calm' PROVE (counter >= 0)' /\ \E d \in Calls : (Alone(d) /\ Settles(commands[d], counter, Cardinality(Unread)))'
  BY DEF Settled
<1>1. calm /\ Quiet
  BY DEF Write, Quiet, CalmInvariant, ITypeOK
<1>2. counter \in 0..Cardinality(Unread) /\ counter' = counter
  BY <1>1, SettledWhenQuiet DEF Write
<1>3. commands'[c] = todo /\ \A d \in Calls \ {c} : commands'[d] = <<>>
  BY <1>1 DEF Write, CalmInvariant, ITypeOK, Quiet, Free
<1>4. Alone(c)'
  BY <1>3 DEF Alone, Free
<1>5. Settles(commands[c], counter, Cardinality(Unread))'
  BY <1>2, <1>3 DEF Settles
<1> QED BY <1>2, <1>4, <1>5

LEMMA DecrementsSettle ==
    ASSUME NEW k \in Nat, NEW count \in Nat, NEW unread \in Nat, count <= unread + k
    PROVE  Settles(Decrements(k), count, unread)
<1>1. Len(Decrements(k)) = k /\ \A i \in 1..k : Decrements(k)[i] = "get"
  BY DEF Decrements
<1> QED BY <1>1 DEF Settles

LEMMA CallSettles ==
    ASSUME CalmInvariant, NEW c \in Calls, Arrive(c) \/ Act(c)
    PROVE  Settled'
<1>1. ASSUME NEW n \in Notes, Create(c, n) PROVE Settled'
  <2>1. Unread' = Unread \cup {n} /\ n \notin Unread
    BY <1>1 DEF Create, Write, Unread, CalmInvariant, ITypeOK
  <2>2. Cardinality(Unread') = Cardinality(Unread) + 1
    BY <2>1, UnreadNumber, FS_AddElement
  <2>3. counter \in 0..Cardinality(Unread) => Settles(<<"incr">>, counter, Cardinality(Unread'))
    BY <2>2, UnreadNumber DEF Settles
  <2> QED BY <1>1, <2>3, WriteSettles DEF Create
<1>2. ASSUME NEW n \in Notes, MarkAsRead(c, n) PROVE Settled'
  <2>1. Unread' = Unread \ {n}
    BY <1>2 DEF MarkAsRead, Write, Unread, CalmInvariant, ITypeOK
  <2>2. Cardinality(Unread') \in Nat /\ Cardinality(Unread') >= Cardinality(Unread) - 1
    <3>1. CASE n \in Unread
      <4>1. IsFiniteSet(Unread') /\ Cardinality(Unread') = Cardinality(Unread) - 1
        BY <2>1, <3>1, UnreadNumber, FS_RemoveElement
      <4>2. Cardinality(Unread') \in Nat
        BY <4>1, FS_CardinalityType
      <4> QED BY <4>1, <4>2, UnreadNumber
    <3>2. CASE n \notin Unread
      <4>1. Unread' = Unread
        BY <2>1, <3>2
      <4> QED BY <4>1, UnreadNumber
    <3> QED BY <3>1, <3>2
  <2>3. counter \in 0..Cardinality(Unread) => Settles(Decrements(1), counter, Cardinality(Unread'))
    BY <2>2, UnreadNumber, DecrementsSettle
  <2> QED BY <1>2, <2>3, WriteSettles DEF MarkAsRead
<1>3. ASSUME MarkAllAsRead(c) \/ DeleteAll(c) PROVE Settled'
  <2>1. Settles(<<"reset">>, counter, Cardinality(Unread'))
    BY DEF Settles
  <2> QED BY <1>3, <2>1, WriteSettles DEF MarkAllAsRead, DeleteAll
<1>4. ASSUME NEW notes \in SUBSET Notes, Delete(c, notes) PROVE Settled'
  <2> DEFINE hit == Cardinality(notes \cap Unread)
  <2>1. Unread' = Unread \ notes
    BY <1>4 DEF Delete, Write, Unread, Present, CalmInvariant, ITypeOK
  <2>2. /\ Cardinality(Unread') \in Nat /\ hit \in Nat
        /\ Cardinality(Unread') = Cardinality(Unread) - hit
    <3>1. Unread \cap notes = notes \cap Unread
      OBVIOUS
    <3> QED BY <2>1, <3>1, UnreadNumber, UnreadCounted, FS_Difference, FS_CardinalityType
  <2>3. counter \in 0..Cardinality(Unread) => Settles(Decrements(hit), counter, Cardinality(Unread'))
    BY <2>2, UnreadNumber, DecrementsSettle
  <2> QED BY <1>4, <2>3, WriteSettles DEF Delete
<1> QED BY <1>1, <1>2, <1>3, <1>4 DEF Arrive, Act

(* One command of the only call.                                           *)
LEMMA RedisSettles ==
    ASSUME CalmInvariant, NEW c \in Calls, Redis(c)
    PROVE  Settled'
<1> DEFINE todo == commands[c]
           next == Head(todo)
           rest == Tail(todo)
           unread == Cardinality(Unread)
<1> SUFFICES ASSUME calm
             PROVE  counter' >= 0 /\ Alone(c)' /\ Settles(commands'[c], counter', unread)
  BY DEF Settled, Redis, Unread
<1>1. Alone(c) /\ Settles(todo, counter, unread)
  BY DEF CalmInvariant, Settled, Redis, Alone
<1>2. /\ counter \in Nat /\ unread \in Nat
      /\ todo \in Seq(Command) /\ todo # <<>>
      /\ commands \in [Calls -> Seq(Command)]
  BY UnreadNumber DEF CalmInvariant, Settled, ITypeOK, Redis, Free
<1>3. /\ Len(todo) \in Nat \ {0} /\ next = todo[1]
      /\ rest \in Seq(Command) /\ Len(rest) = Len(todo) - 1
      /\ \A i \in 1..Len(rest) : rest[i] = todo[i + 1]
  BY <1>2
<1>4. Alone(c)'
  BY <1>1, <1>2 DEF Alone, Free, Redis
<1>5. CASE todo = <<"incr">> /\ counter < unread
  <2>1. counter' = counter + 1 /\ commands'[c] = <<>>
    BY <1>2, <1>5 DEF Redis
  <2> QED BY <1>2, <1>4, <1>5, <2>1 DEF Settles
<1>6. CASE todo = <<"reset">>
  <2>1. counter' = 0 /\ commands'[c] = <<>>
    BY <1>2, <1>6 DEF Redis
  <2> QED BY <1>2, <1>4, <1>6, <2>1 DEF Settles
<1>7. CASE /\ counter <= unread + Len(todo)
           /\ \A i \in 1..Len(todo) : todo[i] = "get" \/ (i = 1 /\ todo[i] = "decr" /\ counter > 0)
  <2>1. \A i \in 1..Len(rest) : rest[i] = "get"
    BY <1>3, <1>7
  <2>2. CASE next = "get" /\ counter > 0
    <3>1. counter' = counter /\ commands'[c] = <<"decr">> \o rest
      BY <1>2, <2>2 DEF Redis
    <3> HIDE DEF todo, next, rest, unread
    <3>2. /\ Len(<<"decr">> \o rest) = Len(todo)
          /\ (<<"decr">> \o rest)[1] = "decr"
          /\ \A i \in 2..Len(todo) : (<<"decr">> \o rest)[i] = rest[i - 1]
      BY <1>3
    <3>3. \A i \in 2..Len(todo) : (<<"decr">> \o rest)[i] = "get"
      BY <1>3, <2>1, <3>2
    <3> QED BY <1>2, <1>3, <1>4, <1>7, <2>2, <3>1, <3>2, <3>3 DEF Settles
  <2>3. CASE next = "get" /\ counter = 0
    <3>1. counter' = counter /\ commands'[c] = rest
      BY <1>2, <2>3 DEF Redis
    <3> QED BY <1>2, <1>3, <1>4, <2>1, <2>3, <3>1 DEF Settles
  <2>4. CASE next = "decr" /\ counter > 0
    <3>1. counter' = counter - 1 /\ commands'[c] = rest
      BY <1>2, <2>4 DEF Redis
    <3> QED BY <1>2, <1>3, <1>4, <1>7, <2>1, <2>4, <3>1 DEF Settles
  <2> QED BY <1>2, <1>3, <1>7, <2>2, <2>3, <2>4
<1> QED BY <1>1, <1>5, <1>6, <1>7 DEF Settles

LEMMA CalmStep == CalmInvariant /\ [INext]_ivars => CalmInvariant'
<1> SUFFICES ASSUME CalmInvariant, [INext]_ivars PROVE Settled'
  BY InboxStepTyped DEF CalmInvariant
<1>1. ASSUME NEW c \in Calls, Arrive(c) \/ Act(c) PROVE Settled'
  BY <1>1, CallSettles
<1>2. ASSUME NEW c \in Calls, Redis(c) PROVE Settled'
  BY <1>2, RedisSettles
<1>3. ASSUME NEW c \in Calls, RedisFails(c) PROVE Settled'
  BY <1>3 DEF RedisFails, Settled
<1>4. CASE UNCHANGED ivars
  BY <1>4 DEF ivars, CalmInvariant, Settled, Alone, Free, Unread
<1> QED BY <1>1, <1>2, <1>3, <1>4 DEF INext

LEMMA CalmInit == IInit => CalmInvariant
<1> SUFFICES ASSUME IInit PROVE Settled
  BY InboxInitTyped DEF CalmInvariant
<1>1. PICK c \in Calls : TRUE
  BY InboxAssumption
<1>2. Alone(c) /\ Settles(commands[c], counter, Cardinality(Unread))
  BY UnreadNumber DEF IInit, Alone, Free, Settles
<1> QED BY <1>2 DEF IInit, Settled

(* One call at a time, with a Redis that loses nothing: between the calls  *)
(* the counter is not negative and not ahead of the inbox, for any number  *)
(* of notifications.                                                       *)
THEOREM CeilingHolds == ISpec => []CounterNotAhead
<1>1. CalmInvariant => CounterNotAhead
  BY SettledWhenQuiet DEF CounterNotAhead
<1> QED BY <1>1, CalmInit, CalmStep, PTL DEF ISpec

-----------------------------------------------------------------------------
(* The tab beside the inbox.                                               *)

(* What a call does to the rows: a notification is created, read, deleted, *)
(* in this order and never back.                                           *)
Forward ==
    \A n \in Notes :
        /\ inbox[n] # "none" => inbox'[n] # "none"
        /\ inbox[n] \in {"read", "deleted"} => inbox'[n] \in {"read", "deleted"}
        /\ inbox[n] = "deleted" => inbox'[n] = "deleted"

LEMMA InboxGoesForward == ITypeOK /\ [INext]_ivars => Forward
BY DEF INext, ivars, Arrive, Act, Create, MarkAsRead, MarkAllAsRead, Delete, DeleteAll,
       Redis, RedisFails, Write, Present, Unread, Forward, ITypeOK

(* Serving a mutation of the tab is a call of the inbox, or finds nothing  *)
(* to do, and what was asked for is then done.                             *)
LEMMA HandleIsACall ==
    ASSUME CTypeOK, NEW c \in Calls, asked[c] # Nothing, Handle(c),
           NEW op, op = asked[c].op, NEW n, n = asked[c].note, inbox[n] # "none"
    PROVE  [INext]_ivars /\ Done(op, n)'
<1>1. op \in {"mark", "delete", "mark_all", "delete_all"} /\ n \in Notes
  BY DEF CTypeOK, Asked
<1>2. ASSUME NEW notes, NEW state, NEW todo, Write(c, notes, state, todo)
      PROVE  \A m \in Notes : inbox'[m] = IF m \in notes THEN state ELSE inbox[m]
  BY <1>2 DEF Write
<1>3. CASE op = "mark"
  <2>1. CASE n \in Present
    <3>1. MarkAsRead(c, n)
      BY <1>3, <2>1 DEF Handle
    <3>2. inbox'[n] = "read"
      BY <1>1, <1>2, <3>1 DEF MarkAsRead
    <3> QED BY <1>1, <1>3, <3>1, <3>2 DEF INext, Act, Done
  <2>2. CASE n \notin Present
    <3>1. UNCHANGED ivars
      BY <1>3, <2>2 DEF Handle
    <3>2. inbox[n] = "deleted"
      BY <1>1, <2>2 DEF Present, CTypeOK, ITypeOK, RowState
    <3> QED BY <1>3, <3>1, <3>2 DEF ivars, Done
  <2> QED BY <2>1, <2>2
<1>4. CASE op = "delete"
  <2>1. Delete(c, {n})
    BY <1>4 DEF Handle
  <2>2. inbox'[n] = "deleted"
    <3>1. inbox'[n] = IF n \in {n} \cap Present THEN "deleted" ELSE inbox[n]
      BY <1>1, <1>2, <2>1 DEF Delete
    <3>2. n \notin Present => inbox[n] = "deleted"
      BY <1>1 DEF Present, CTypeOK, ITypeOK, RowState
    <3> QED BY <3>1, <3>2
  <2>3. {n} \in SUBSET Notes
    BY <1>1
  <2>4. INext
    BY <2>1, <2>3 DEF INext, Act
  <2> QED BY <1>4, <2>2, <2>4 DEF Done
<1>5. CASE op = "mark_all"
  <2>1. MarkAllAsRead(c)
    BY <1>5 DEF Handle
  <2> QED BY <1>5, <2>1 DEF INext, Act, Done
<1>6. CASE op = "delete_all"
  <2>1. DeleteAll(c)
    BY <1>6 DEF Handle
  <2> QED BY <1>6, <2>1 DEF INext, Act, Done
<1> QED BY <1>1, <1>3, <1>4, <1>5, <1>6

(* Every step of the tab and of the others is one of the inbox, or         *)
(* invisible to it.                                                        *)
LEMMA TabStepMaps == CTypeOK /\ FreshInvariant /\ [CNext]_cvars => [INext]_ivars
<1> SUFFICES ASSUME CTypeOK, FreshInvariant, [CNext]_cvars PROVE [INext]_ivars
  OBVIOUS
<1>1. ASSUME NEW c \in Calls, ServerStep(c) PROVE INext
  BY <1>1 DEF ServerStep, INext
<1>2. ASSUME NEW c \in Calls, Serve(c) PROVE [INext]_ivars
  BY <1>2, HandleIsACall DEF Serve, FreshInvariant
<1>3. ASSUME NEW c \in Calls, Click(c) \/ Succeed(c) \/ RequestFails(c)
      PROVE  UNCHANGED ivars
  BY <1>3 DEF Click, Request, Succeed, RequestFails
<1>4. CASE Poll \/ CountUnread \/ SelectItems \/ Receive \/ Render \/ QueryFails
  BY <1>4 DEF Poll, CountUnread, SelectItems, Receive, Render, QueryFails
<1>5. CASE UNCHANGED cvars
  BY <1>5 DEF cvars
<1> QED BY <1>1, <1>2, <1>3, <1>4, <1>5 DEF CNext

-----------------------------------------------------------------------------
(* The types of the tab.                                                   *)

LEMMA BadgeCounts ==
    /\ Cardinality(Notes) \in Nat
    /\ Cardinality(Unread) \in Badges
    /\ 0 \in Badges
    /\ \A k \in Badges : AtLeastZero(k - 1) \in Badges
<1>1. Cardinality(Notes) \in Nat
  BY InboxAssumption, FS_CardinalityType
<1>2. Unread \subseteq Notes
  BY DEF Unread
<1>3. Cardinality(Unread) <= Cardinality(Notes)
  BY <1>2, InboxAssumption, FS_Subset
<1> QED BY <1>1, <1>3, UnreadNumber DEF Badges, AtLeastZero

LEMMA ListingTyped == ASSUME ITypeOK PROVE Listing \in [Notes -> Seen]
BY DEF Listing, Hide, Seen

(* The actions of the store keep the store what it is.                     *)
LEMMA ReflectTyped ==
    ASSUME CTypeOK, NEW op \in {"mark", "delete", "mark_all", "delete_all"},
           NEW n \in Notes, Reflect(op, n)
    PROVE  /\ shown' \in [Notes -> Seen]
           /\ badge' \in Badges
           /\ \A m \in Notes : shown'[m] # "hidden" => shown[m] # "hidden"
<1>1. shown \in [Notes -> Seen] /\ badge \in Badges
  BY DEF CTypeOK
<1>2. CASE op = "mark"
  BY <1>1, <1>2, BadgeCounts DEF Reflect, Seen
<1>3. CASE op = "delete"
  BY <1>1, <1>3, BadgeCounts DEF Reflect, Seen
<1>4. CASE op = "mark_all"
  BY <1>1, <1>4, BadgeCounts DEF Reflect, Seen
<1>5. CASE op = "delete_all"
  BY <1>1, <1>5, BadgeCounts DEF Reflect, Seen
<1> QED BY <1>2, <1>3, <1>4, <1>5

LEMMA ClickAsks ==
    ASSUME CTypeOK, NEW c \in Calls, Click(c)
    PROVE  \E mutation \in Asked :
              /\ mutation.served = FALSE
              /\ shown[mutation.note] # "hidden"
              /\ Request(c, mutation)
<1>1. PICK n \in Notes, op \in {"mark", "delete", "mark_all", "delete_all"} :
         shown[n] # "hidden" /\ Request(c, Mutation(op, n))
  BY DEF Click
<1>2. /\ Mutation(op, n) \in Asked
      /\ Mutation(op, n).served = FALSE
      /\ Mutation(op, n).note = n
  BY DEF Mutation, Asked
<1> QED BY <1>1, <1>2

(* The steps of the query.                                                 *)
LEMMA QueryTyped ==
    ASSUME CTypeOK, Poll \/ CountUnread \/ SelectItems \/ Receive \/ Render \/ QueryFails
    PROVE  CTypeOK'
<1>1. UNCHANGED <<ivars, asked, told>> /\ ITypeOK'
  BY DEF Poll, CountUnread, SelectItems, Receive, Render, QueryFails, CTypeOK, ITypeOK, ivars
<1>2. CASE Poll
  BY <1>1, <1>2 DEF Poll, CTypeOK, store
<1>3. CASE CountUnread
  <2>1. query' \in [stage : {"counted"}, unread : Badges]
    BY <1>3, BadgeCounts DEF CountUnread
  <2> QED BY <1>1, <1>3, <2>1 DEF CountUnread, CTypeOK, store
<1>4. CASE SelectItems
  <2>1. query.unread \in Badges
    BY <1>4 DEF SelectItems, CTypeOK, Resting, Asking, Reply
  <2>2. query' \in Reply("replied")
    BY <1>4, <2>1, ListingTyped DEF SelectItems, Reply, CTypeOK
  <2> QED BY <1>1, <1>4, <2>2 DEF SelectItems, CTypeOK, store
<1>5. CASE Receive
  <2>1. query \in Reply("replied")
    BY <1>5 DEF Receive, CTypeOK, Resting, Asking
  <2>2. data' \in Reply("fresh")
    BY <1>5, <2>1 DEF Receive, Reply
  <2> QED BY <1>1, <1>5, <2>2 DEF Receive, CTypeOK, store
<1>6. CASE Render
  <2>1. data \in Reply("fresh")
    BY <1>6 DEF Render, CTypeOK, Resting
  <2>2. shown' \in [Notes -> Seen] /\ badge' \in Badges
    BY <1>6, <2>1 DEF Render, Reply
  <2> QED BY <1>1, <1>6, <2>2 DEF Render, CTypeOK
<1>7. CASE QueryFails
  BY <1>1, <1>7 DEF QueryFails, CTypeOK, store
<1> QED BY <1>2, <1>3, <1>4, <1>5, <1>6, <1>7

LEMMA TabTyped == CTypeOK /\ FreshInvariant /\ [CNext]_cvars => CTypeOK'
<1> SUFFICES ASSUME CTypeOK, FreshInvariant, [CNext]_cvars PROVE CTypeOK'
  OBVIOUS
<1>1. ITypeOK'
  BY TabStepMaps, InboxStepTyped DEF CTypeOK
<1>2. ASSUME NEW c \in Calls, ServerStep(c), UNCHANGED <<store, query, data, asked, told>>
      PROVE  CTypeOK'
  BY <1>1, <1>2 DEF CTypeOK, store
<1>3. ASSUME NEW c \in Calls, Click(c) PROVE CTypeOK'
  <2>1. PICK mutation \in Asked : Request(c, mutation)
    BY <1>3, ClickAsks
  <2>2. asked' \in [Calls -> {Nothing} \cup Asked]
    BY <2>1 DEF Request, CTypeOK
  <2> QED BY <1>1, <2>1, <2>2 DEF Request, CTypeOK, store
<1>4. ASSUME NEW c \in Calls, Serve(c) PROVE CTypeOK'
  <2>1. asked[c] \in Asked
    BY <1>4 DEF Serve, CTypeOK
  <2>2. [asked[c] EXCEPT !.served = TRUE] \in Asked
    BY <2>1 DEF Asked
  <2>3. asked' = [asked EXCEPT ![c] = [asked[c] EXCEPT !.served = TRUE]]
    BY <1>4 DEF Serve
  <2>4. asked' \in [Calls -> {Nothing} \cup Asked]
    BY <2>2, <2>3 DEF CTypeOK
  <2> QED BY <1>1, <1>4, <2>4 DEF Serve, CTypeOK, store
<1>5. ASSUME NEW c \in Calls, Succeed(c) PROVE CTypeOK'
  <2>1. /\ asked[c].op \in {"mark", "delete", "mark_all", "delete_all"}
        /\ asked[c].note \in Notes
    BY <1>5 DEF Succeed, CTypeOK, Asked
  <2>2. shown' \in [Notes -> Seen] /\ badge' \in Badges
    BY <1>5, <2>1, ReflectTyped DEF Succeed
  <2>3. told' \in [Notes -> {"nothing", "read", "deleted"}]
    BY <1>5, <2>1 DEF Succeed, Tell, CTypeOK
  <2>4. asked' \in [Calls -> {Nothing} \cup Asked]
    BY <1>5 DEF Succeed, CTypeOK
  <2> QED BY <1>1, <1>5, <2>2, <2>3, <2>4 DEF Succeed, CTypeOK
<1>6. ASSUME NEW c \in Calls, RequestFails(c) PROVE CTypeOK'
  <2>1. asked' \in [Calls -> {Nothing} \cup Asked]
    BY <1>6 DEF RequestFails, CTypeOK
  <2> QED BY <1>1, <1>6, <2>1 DEF RequestFails, CTypeOK, store
<1>7. CASE Poll \/ CountUnread \/ SelectItems \/ Receive \/ Render \/ QueryFails
  BY <1>7, QueryTyped
<1>8. CASE UNCHANGED cvars
  BY <1>1, <1>8 DEF cvars, store, CTypeOK
<1> QED BY <1>2, <1>3, <1>4, <1>5, <1>6, <1>7, <1>8 DEF CNext

-----------------------------------------------------------------------------
(* Freshness.                                                              *)

(* When the inbox goes forward, what the tab knows stays true.             *)
LEMMA ForwardKeepsFresh ==
    ASSUME CTypeOK, FreshInvariant, Forward, UNCHANGED <<shown, query, data, asked, told>>
    PROVE  FreshInvariant'
<1>1. ASSUME NEW items, Known(items) PROVE Known(items)'
  BY <1>1 DEF Known, Forward
<1>2. ASSUME NEW c \in Calls, asked[c] # Nothing
      PROVE  /\ asked[c].note \in Notes
             /\ inbox'[asked[c].note] # "none"
             /\ asked[c].served => Done(asked[c].op, asked[c].note)'
  <2>1. asked[c].note \in Notes /\ inbox[asked[c].note] # "none"
    BY <1>2 DEF CTypeOK, Asked, FreshInvariant
  <2>2. ASSUME asked[c].served PROVE Done(asked[c].op, asked[c].note)'
    <3>1. Done(asked[c].op, asked[c].note)
      BY <1>2, <2>2 DEF FreshInvariant
    <3> QED BY <2>1, <3>1 DEF Done, Forward
  <2> QED BY <2>1, <2>2 DEF Forward
<1>3. RepliesAreFresh' /\ Known(shown)'
  BY <1>1 DEF FreshInvariant, RepliesAreFresh, Known, Forward
<1>4. \A n \in Notes :
         /\ told[n] = "read" => inbox'[n] \in {"read", "deleted"}
         /\ told[n] = "deleted" => inbox'[n] = "deleted"
  BY DEF FreshInvariant, Forward
<1>5. /\ query.stage = "replied" => Known(query.items)'
      /\ data.stage = "fresh" => Known(data.items)'
  BY DEF FreshInvariant, Known, Forward
<1>6. (query' = query) /\ (data' = data) /\ (asked' = asked) /\ (told' = told)
  OBVIOUS
<1> QED BY <1>2, <1>3, <1>4, <1>5, <1>6 DEF FreshInvariant, Known, Done

LEMMA QueryKeepsFresh ==
    ASSUME CTypeOK, FreshInvariant,
           Poll \/ CountUnread \/ SelectItems \/ Receive \/ Render \/ QueryFails
    PROVE  FreshInvariant'
<1>1. UNCHANGED <<inbox, asked, told>>
  BY DEF Poll, CountUnread, SelectItems, Receive, Render, QueryFails, ivars
<1>2. ASSUME RepliesAreFresh', Known(shown'),
             query'.stage = "replied" => Known(query'.items),
             data'.stage = "fresh" => Known(data'.items)
      PROVE  FreshInvariant'
  BY <1>1, <1>2 DEF FreshInvariant, Known, Done
<1>3. /\ Known(shown)
      /\ query.stage = "replied" => Known(query.items)
      /\ data.stage = "fresh" => Known(data.items)
  BY DEF FreshInvariant
<1>4. CASE Poll \/ CountUnread \/ QueryFails
  <2>1. query'.stage # "replied" /\ data' = data /\ shown' = shown
    BY <1>4 DEF Poll, CountUnread, QueryFails, Resting, Asking, store
  <2> QED BY <1>2, <1>3, <2>1 DEF RepliesAreFresh
<1>5. CASE SelectItems
  <2>1. query'.items = Listing /\ data' = data /\ shown' = shown
    BY <1>5 DEF SelectItems, store
  <2>2. Known(Listing)
    BY DEF Known, Listing, Hide
  <2>3. \A n \in Notes :
           /\ told[n] = "read" => Listing[n] # "unread"
           /\ told[n] = "deleted" => Listing[n] = "hidden"
    BY DEF FreshInvariant, Listing, Hide
  <2>4. RepliesAreFresh'
    BY <1>1, <2>1, <2>3 DEF RepliesAreFresh
  <2> QED BY <1>2, <1>3, <2>1, <2>2, <2>4
<1>6. CASE Receive
  <2>1. /\ data' = [stage |-> "fresh", unread |-> query.unread, items |-> query.items]
        /\ query.stage = "replied" /\ query'.stage # "replied" /\ shown' = shown
    BY <1>6 DEF Receive, Resting, store
  <2> QED BY <1>2, <1>3, <2>1 DEF RepliesAreFresh
<1>7. CASE Render
  <2>1. /\ data.stage = "fresh" /\ shown' = data.items /\ data'.stage # "fresh"
        /\ query' = query
    BY <1>7 DEF Render, Resting
  <2>2. RepliesAreFresh'
    BY <1>1, <2>1 DEF FreshInvariant, RepliesAreFresh
  <2> QED BY <1>2, <1>3, <2>1, <2>2
<1> QED BY <1>4, <1>5, <1>6, <1>7

(* A mutation that has succeeded: the user is told what is so, and the     *)
(* fetch under way is thrown away.                                         *)
LEMMA SucceedKeepsFresh ==
    ASSUME CTypeOK, FreshInvariant, NEW c \in Calls, Succeed(c)
    PROVE  FreshInvariant'
<1> DEFINE n == asked[c].note
           op == asked[c].op
<1>1. /\ op \in {"mark", "delete", "mark_all", "delete_all"} /\ n \in Notes
      /\ Done(op, n)
  BY DEF Succeed, CTypeOK, Asked, FreshInvariant
<1>2. /\ query'.stage = "asking" /\ inbox' = inbox /\ data' = data
      /\ told' = Tell(op, n) /\ Reflect(op, n)
      /\ asked' = [asked EXCEPT ![c] = Nothing]
  BY DEF Succeed, Asking, ivars
<1>3. RepliesAreFresh'
  BY <1>2 DEF RepliesAreFresh
<1>4. Known(shown')
  BY <1>1, <1>2, ReflectTyped DEF FreshInvariant, Known
<1>5. \A m \in Notes :
         /\ told'[m] = "read" => inbox[m] \in {"read", "deleted"}
         /\ told'[m] = "deleted" => inbox[m] = "deleted"
  BY <1>1, <1>2 DEF Tell, Done, FreshInvariant, CTypeOK
<1>6. \A d \in Calls : asked'[d] # Nothing => asked'[d] = asked[d]
  BY <1>2 DEF CTypeOK
<1> QED BY <1>2, <1>3, <1>4, <1>5, <1>6 DEF FreshInvariant, Known, Done

LEMMA FreshStep == CTypeOK /\ FreshInvariant /\ [CNext]_cvars => FreshInvariant'
<1> SUFFICES ASSUME CTypeOK, FreshInvariant, [CNext]_cvars PROVE FreshInvariant'
  OBVIOUS
<1>1. Forward
  BY TabStepMaps, InboxGoesForward DEF CTypeOK
<1>2. ASSUME NEW c \in Calls, ServerStep(c), UNCHANGED <<store, query, data, asked, told>>
      PROVE  FreshInvariant'
  BY <1>1, <1>2, ForwardKeepsFresh DEF store
<1>3. ASSUME NEW c \in Calls, NEW one, asked' = [asked EXCEPT ![c] = one],
             UNCHANGED <<shown, query, data, told>>,
             one # Nothing => /\ one.note \in Notes
                              /\ inbox'[one.note] # "none"
                              /\ one.served => Done(one.op, one.note)'
      PROVE  FreshInvariant'
  <2>1. ASSUME NEW d \in Calls, asked'[d] # Nothing
        PROVE  /\ inbox'[asked'[d].note] # "none"
               /\ asked'[d].served => Done(asked[d].op, asked[d].note)'
    <3>1. CASE d = c
      <4>1. asked'[d] = one
        BY <1>3, <3>1 DEF CTypeOK
      <4> QED BY <1>3, <2>1, <4>1 DEF Done
    <3>2. CASE d # c
      <4>1. asked'[d] = asked[d]
        BY <1>3, <3>2 DEF CTypeOK
      <4>2. /\ asked[d].note \in Notes
            /\ inbox[asked[d].note] # "none"
            /\ asked[d].served => Done(asked[d].op, asked[d].note)
        BY <2>1, <4>1 DEF CTypeOK, Asked, FreshInvariant
      <4> QED BY <1>1, <4>1, <4>2 DEF Forward, Done
    <3> QED BY <3>1, <3>2
  <2>2. /\ RepliesAreFresh'
        /\ Known(shown)'
        /\ query.stage = "replied" => Known(query.items)'
        /\ data.stage = "fresh" => Known(data.items)'
    BY <1>1, <1>3 DEF FreshInvariant, RepliesAreFresh, Known, Forward
  <2>3. \A m \in Notes :
           /\ told[m] = "read" => inbox'[m] \in {"read", "deleted"}
           /\ told[m] = "deleted" => inbox'[m] = "deleted"
    BY <1>1 DEF FreshInvariant, Forward
  <2> QED BY <1>3, <2>1, <2>2, <2>3 DEF FreshInvariant, Known, Done
<1>4. ASSUME NEW c \in Calls, Click(c) PROVE FreshInvariant'
  <2>1. PICK mutation \in Asked :
           /\ mutation.served = FALSE
           /\ shown[mutation.note] # "hidden"
           /\ Request(c, mutation)
    BY <1>4, ClickAsks
  <2>2. mutation.note \in Notes /\ inbox'[mutation.note] # "none"
    BY <1>1, <2>1 DEF Asked, FreshInvariant, Known, Forward
  <2> QED BY <1>3, <2>1, <2>2 DEF Request, store
<1>5. ASSUME NEW c \in Calls, Serve(c) PROVE FreshInvariant'
  <2> DEFINE one == [asked[c] EXCEPT !.served = TRUE]
  <2>1. asked[c] \in Asked /\ inbox[asked[c].note] # "none" /\ asked[c] # Nothing
    BY <1>5 DEF Serve, CTypeOK, FreshInvariant
  <2>2. PICK op, n : op = asked[c].op /\ n = asked[c].note
    OBVIOUS
  <2>3. Done(op, n)'
    BY <1>5, <2>1, <2>2, HandleIsACall DEF Serve
  <2>4. one.note = n /\ one.op = op /\ n \in Notes
    BY <2>1, <2>2 DEF Asked
  <2>5. asked' = [asked EXCEPT ![c] = one] /\ UNCHANGED <<shown, query, data, told>>
    BY <1>5 DEF Serve, store
  <2> HIDE DEF one
  <2>6. inbox'[n] # "none"
    BY <1>1, <2>1, <2>2, <2>4 DEF Forward
  <2>7. PICK new : new = one
    OBVIOUS
  <2>8. Done(new.op, new.note)'
    BY <2>3, <2>4, <2>7
  <2>9. asked' = [asked EXCEPT ![c] = new]
    BY <2>5, <2>7
  <2> QED BY <1>3, <2>4, <2>5, <2>6, <2>7, <2>8, <2>9
<1>6. ASSUME NEW c \in Calls, Succeed(c) PROVE FreshInvariant'
  BY <1>6, SucceedKeepsFresh
<1>7. ASSUME NEW c \in Calls, RequestFails(c) PROVE FreshInvariant'
  BY <1>3, <1>7 DEF RequestFails, store
<1>8. CASE Poll \/ CountUnread \/ SelectItems \/ Receive \/ Render \/ QueryFails
  BY <1>8, QueryKeepsFresh
<1>9. CASE UNCHANGED cvars
  BY <1>1, <1>9, ForwardKeepsFresh DEF cvars, store
<1> QED BY <1>2, <1>4, <1>5, <1>6, <1>7, <1>8, <1>9 DEF CNext

LEMMA TabInit == CInit => CTypeOK /\ FreshInvariant
BY InboxInitTyped, BadgeCounts
   DEF CInit, CTypeOK, FreshInvariant, RepliesAreFresh, Known, Seen, Resting, Asking

LEMMA TabHolds == CSpec => [](CTypeOK /\ FreshInvariant)
BY TabInit, TabTyped, FreshStep, PTL DEF CSpec

(* The badge of the dropdown stays between zero and the number of          *)
(* notifications (`decrementUnread`, `markAsRead` of the store), and the   *)
(* list, the replies and the mutations keep their types.                   *)
THEOREM ScreenTyped == CSpec => []CTypeOK
BY TabHolds, PTL

(* No reply that reaches the tab was fetched before a mutation the user    *)
(* has been told of (`invalidateQueries`), for any number of               *)
(* notifications, mutations and other devices.                             *)
THEOREM RepliesFresh == CSpec => []RepliesAreFresh
<1>1. FreshInvariant => RepliesAreFresh
  BY DEF FreshInvariant
<1> QED BY <1>1, TabHolds, PTL

(* The tab with its mutations is one of the callers Inbox reckons with, so *)
(* what is proved of the counter holds beside it.                          *)
THEOREM TabIsACaller == CSpec => ISpec
<1>1. CInit => IInit
  BY DEF CInit
<1> QED BY <1>1, TabHolds, TabStepMaps, PTL DEF CSpec, ISpec

(* So what is proved of the counter holds beside it.                       *)
THEOREM CounterBesideTab == CSpec => []CounterFloor /\ []CounterNotAhead
BY TabIsACaller, FloorHolds, CeilingHolds
=============================================================================
