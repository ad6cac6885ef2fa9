-------------------------------- MODULE Inbox --------------------------------
(***************************************************************************)
(* The notifications of one user: the rows in PostgreSQL and the counter   *)
(* of unread notifications in Redis (services/notification_service.py,     *)
(* services/redis_service.py).                                             *)
(*                                                                         *)
(* A call changes the rows in one UPDATE or INSERT, commits, and then      *)
(* sends its commands to Redis one by one.  Redis commands of different    *)
(* calls interleave, and an error of Redis is logged and forgotten.        *)
(*                                                                         *)
(* Everybody has every category enabled: no code writes the settings.      *)
(* The publication on the user's channel is left out: the event stream     *)
(* that subscribes to it (api/v1/endpoints/notifications_sse.py) keeps no  *)
(* state, and no page of the frontend opens it.                            *)
(***************************************************************************)
EXTENDS Integers, Sequences, FiniteSets

CONSTANTS
    Notes,          \* notifications that will ever be created for the user
    Calls,          \* slots for calls under way at the same time
    RedisMayFail    \* does Redis lose commands?

ASSUME InboxAssumption ==
    /\ IsFiniteSet(Notes)
    /\ IsFiniteSet(Calls) /\ Calls # {}
    /\ RedisMayFail \in BOOLEAN

VARIABLES
    inbox,      \* the row of each notification
    counter,    \* unread_count:{user}; a missing key counts as 0
    commands,   \* per call: what it has still to tell Redis
    calm        \* history: so far no call has overlapped another, and Redis has
                \* lost nothing

ivars == <<inbox, counter, commands, calm>>

(* A deleted row stays in the table, but every query leaves it out.        *)
RowState == {"none", "unread", "read", "deleted"}
Command == {"incr", "get", "decr", "reset"}

Present == {n \in Notes : inbox[n] \in {"unread", "read"}}
Unread == {n \in Notes : inbox[n] = "unread"}

Free(c) == commands[c] = <<>>
Quiet == \A c \in Calls : Free(c)

(* Decrementing is a GET, followed by a DECR if it has read more than 0.   *)
Decrements(k) == [i \in 1..k |-> "get"]

(* The UPDATE of a call, committed, and what it will tell Redis.           *)
Write(c, notes, state, todo) ==
    /\ inbox' = [n \in Notes |-> IF n \in notes THEN state ELSE inbox[n]]
    /\ commands' = [commands EXCEPT ![c] = todo]
    /\ calm' = (calm /\ \A d \in Calls : Free(d))
    /\ UNCHANGED counter

-----------------------------------------------------------------------------
Create(c, n) ==
    /\ Free(c)
    /\ inbox[n] = "none"
    /\ Write(c, {n}, "unread", <<"incr">>)

(* The WHERE clause does not ask whether the notification is unread.       *)
MarkAsRead(c, n) ==
    /\ Free(c)
    /\ n \in Present
    /\ Write(c, {n}, "read", Decrements(1))

MarkAllAsRead(c) ==
    /\ Free(c)
    /\ Write(c, Unread, "read", <<"reset">>)

(* Mutant: deleting does not touch the counter.                            *)
DeleteUncounted(c, notes) ==
    /\ Free(c)
    /\ notes # {}
    /\ Write(c, notes \cap Present, "deleted", <<>>)

(* `delete` for one notification, `delete_many` for several: the UPDATE    *)
(* returns which of the rows were unread.                                  *)
Delete(c, notes) ==
    /\ Free(c)
    /\ notes # {}
    /\ Write(c, notes \cap Present, "deleted", Decrements(Cardinality(notes \cap Unread)))

DeleteAll(c) ==
    /\ Free(c)
    /\ Write(c, Present, "deleted", <<"reset">>)

(* Mutant: the DECR does not depend on what the GET has read.              *)
RedisUnguarded(c) ==
    /\ ~Free(c)
    /\ LET next == Head(commands[c])
           rest == Tail(commands[c])
       IN  /\ counter' = CASE next = "incr"  -> counter + 1
                           [] next = "decr"  -> counter - 1
                           [] next = "reset" -> 0
                           [] next = "get"   -> counter
           /\ commands' = [commands EXCEPT ![c] =
                             IF next = "get" THEN <<"decr">> \o rest ELSE rest]
    /\ UNCHANGED <<inbox, calm>>

(* Redis executes the next command of a call.                              *)
Redis(c) ==
    /\ ~Free(c)
    /\ LET next == Head(commands[c])
           rest == Tail(commands[c])
       IN  /\ counter' = CASE next = "incr"  -> counter + 1
                           [] next = "decr"  -> counter - 1
                           [] next = "reset" -> 0
                           [] next = "get"   -> counter
           /\ commands' = [commands EXCEPT ![c] =
                             IF next = "get" /\ counter > 0 THEN <<"decr">> \o rest ELSE rest]
    /\ UNCHANGED <<inbox, calm>>

(* A command is lost; a GET that fails reads 0.                            *)
RedisFails(c) ==
    /\ RedisMayFail
    /\ ~Free(c)
    /\ commands' = [commands EXCEPT ![c] = Tail(@)]
    /\ calm' = FALSE
    /\ UNCHANGED <<inbox, counter>>

-----------------------------------------------------------------------------
IInit ==
    /\ inbox = [n \in Notes |-> "none"]
    /\ counter = 0
    /\ commands = [c \in Calls |-> <<>>]
    /\ calm = TRUE

Arrive(c) == \E n \in Notes : Create(c, n)

Act(c) ==
    \/ \E n \in Notes : MarkAsRead(c, n)
    \/ MarkAllAsRead(c)
    \/ \E notes \in SUBSET Notes : Delete(c, notes)
    \/ DeleteAll(c)

INext == \E c \in Calls : Arrive(c) \/ Act(c) \/ Redis(c) \/ RedisFails(c)

ISpec == IInit /\ [][INext]_ivars

-----------------------------------------------------------------------------
ITypeOK ==
    /\ inbox \in [Notes -> RowState]
    /\ counter \in Int
    /\ commands \in [Calls -> Seq(Command)]
    /\ calm \in BOOLEAN

(* The calls that have read a positive counter and are about to decrement. *)
Decrementing == {c \in Calls : ~Free(c) /\ Head(commands[c]) = "decr"}

(* However the commands interleave and whichever of them are lost, the     *)
(* check `count > 0` keeps the counter from falling further below zero     *)
(* than there are other calls under way: one by one it never does.         *)
CounterFloor == counter + Cardinality(Calls) > Cardinality(Decrementing)

(* As long as calls have come one by one and Redis has lost nothing, the   *)
(* counter is neither negative nor ahead of the inbox, whatever has been   *)
(* marked twice or deleted unread.                                         *)
CounterNotAhead == calm /\ Quiet => counter \in 0..Cardinality(Unread)
=============================================================================
