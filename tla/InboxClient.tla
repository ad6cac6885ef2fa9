----------------------------- MODULE InboxClient -----------------------------
(***************************************************************************)
(* The notifications dropdown of one browser tab beside the Inbox: the     *)
(* store (store/notificationStore.ts), the query that polls the list and   *)
(* the mutations (hooks/useNotifications.ts).                              *)
(*                                                                         *)
(* The server reads the unread count and the list with two SELECTs, so a   *)
(* reply may mix two states of the inbox.  A mutation that succeeds        *)
(* changes the store by itself and invalidates the query, which cancels a  *)
(* fetch that is under way (its reply is thrown away) and starts another.  *)
(*                                                                         *)
(* The user's other devices, and those who notify him, use free calls of   *)
(* the Inbox.  All notifications fit in one page of the list.              *)
(***************************************************************************)
EXTENDS Inbox

VARIABLES
    shown,      \* the list in the store: hidden, unread or read
    badge,      \* unreadCount in the store
    query,      \* the fetch of the list
    data,       \* a reply that the store does not show yet
    asked,      \* per call: the mutation it carries out for this tab
    told        \* what the user has been told of one notification he acted on

cvars == <<ivars, shown, badge, query, data, asked, told>>
store == <<shown, badge>>

Hide(state) == IF state \in {"unread", "read"} THEN state ELSE "hidden"
Listing == [n \in Notes |-> Hide(inbox[n])]

Resting == [stage |-> "resting"]
Asking == [stage |-> "asking"]
Nothing == [op |-> "nothing"]

-----------------------------------------------------------------------------
(* The query.  refetchInterval: 30 seconds.                                *)

Poll ==
    /\ query = Resting
    /\ query' = Asking
    /\ UNCHANGED <<ivars, store, data, asked, told>>

(* `get_list`: first the number of unread rows ...                         *)
CountUnread ==
    /\ query.stage = "asking"
    /\ query' = [stage |-> "counted", unread |-> Cardinality(Unread)]
    /\ UNCHANGED <<ivars, store, data, asked, told>>

(* ... then the rows.                                                      *)
SelectItems ==
    /\ query.stage = "counted"
    /\ query' = [stage |-> "replied", unread |-> query.unread, items |-> Listing]
    /\ UNCHANGED <<ivars, store, data, asked, told>>

(* The reply becomes the query's data ...                                  *)
Receive ==
    /\ query.stage = "replied"
    /\ data' = [stage |-> "fresh", unread |-> query.unread, items |-> query.items]
    /\ query' = Resting
    /\ UNCHANGED <<ivars, store, asked, told>>

(* Mutant: the list is replaced and the badge is not.                      *)
RenderItems ==
    /\ data.stage = "fresh"
    /\ shown' = data.items
    /\ data' = Resting
    /\ UNCHANGED <<ivars, badge, query, asked, told>>

(* ... and the effect of the next rendering copies it into the store, list *)
(* and badge, over whatever a mutation has done there in between.          *)
Render ==
    /\ data.stage = "fresh"
    /\ shown' = data.items
    /\ badge' = data.unread
    /\ data' = Resting
    /\ UNCHANGED <<ivars, query, asked, told>>

QueryFails ==
    /\ query # Resting
    /\ query' = Resting
    /\ UNCHANGED <<ivars, store, data, asked, told>>

-----------------------------------------------------------------------------
(* The mutations.                                                          *)

Mutation(op, n) == [op |-> op, note |-> n, served |-> FALSE]

Request(c, mutation) ==
    /\ Free(c)
    /\ asked[c] = Nothing
    /\ asked' = [asked EXCEPT ![c] = mutation]
    /\ UNCHANGED <<ivars, store, query, data, told>>

(* What the dropdown offers: an unread notification is marked by a click,  *)
(* any shown one can be deleted, and so on.                                *)
Click(c) ==
    \E n \in Notes :
        \/ shown[n] = "unread" /\ Request(c, Mutation("mark", n))
        \/ shown[n] # "hidden" /\ Request(c, Mutation("delete", n))
        \/ badge > 0 /\ shown[n] # "hidden" /\ Request(c, Mutation("mark_all", n))
        \/ shown[n] # "hidden" /\ Request(c, Mutation("delete_all", n))

(* The endpoint.  It answers with 200 also if it has found no row.         *)
Handle(c) ==
    LET n == asked[c].note
    IN  CASE asked[c].op = "mark" ->
               IF n \in Present THEN MarkAsRead(c, n) ELSE UNCHANGED ivars
          [] asked[c].op = "delete"     -> Delete(c, {n})
          [] asked[c].op = "mark_all"   -> MarkAllAsRead(c)
          [] asked[c].op = "delete_all" -> DeleteAll(c)

Serve(c) ==
    /\ asked[c] # Nothing
    /\ ~asked[c].served
    /\ Free(c)
    /\ Handle(c)
    /\ asked' = [asked EXCEPT ![c].served = TRUE]
    /\ UNCHANGED <<store, query, data, told>>

(* Mutant: the badge is not kept from falling below zero.                  *)
Unclamped(k) == k

AtLeastZero(k) == IF k < 0 THEN 0 ELSE k

(* The actions of the store, as the mutation that succeeded calls them.    *)
Reflect(op, n) ==
    CASE op = "mark" ->
           /\ shown' = [shown EXCEPT ![n] = IF @ = "hidden" THEN @ ELSE "read"]
           /\ badge' = AtLeastZero(badge - 1)
      [] op = "delete" ->
           /\ shown' = [shown EXCEPT ![n] = "hidden"]
           /\ badge' = IF shown[n] = "unread" THEN AtLeastZero(badge - 1) ELSE badge
      [] op = "mark_all" ->
           /\ shown' = [m \in Notes |-> IF shown[m] = "unread" THEN "read" ELSE shown[m]]
           /\ badge' = 0
      [] op = "delete_all" ->
           /\ shown' = [m \in Notes |-> "hidden"]
           /\ badge' = 0

Tell(op, n) ==
    CASE op = "mark" /\ told[n] = "nothing" -> [told EXCEPT ![n] = "read"]
      [] op = "delete"                      -> [told EXCEPT ![n] = "deleted"]
      [] OTHER                              -> told

(* Mutant: a fetch that is under way is left to finish.                    *)
SucceedUncancelled(c) ==
    /\ asked[c] # Nothing
    /\ asked[c].served
    /\ Free(c)
    /\ Reflect(asked[c].op, asked[c].note)
    /\ told' = Tell(asked[c].op, asked[c].note)
    /\ query' = IF query = Resting THEN Asking ELSE query
    /\ asked' = [asked EXCEPT ![c] = Nothing]
    /\ UNCHANGED <<ivars, data>>

(* onSuccess: change the store, throw away what is being fetched and fetch *)
(* again.                                                                  *)
Succeed(c) ==
    /\ asked[c] # Nothing
    /\ asked[c].served
    /\ Free(c)
    /\ Reflect(asked[c].op, asked[c].note)
    /\ told' = Tell(asked[c].op, asked[c].note)
    /\ query' = Asking
    /\ asked' = [asked EXCEPT ![c] = Nothing]
    /\ UNCHANGED <<ivars, data>>

(* The request, or its reply, is lost.  Nothing happens in the tab.        *)
RequestFails(c) ==
    /\ asked[c] # Nothing
    /\ asked' = [asked EXCEPT ![c] = Nothing]
    /\ UNCHANGED <<ivars, store, query, data, told>>

-----------------------------------------------------------------------------
CInit ==
    /\ IInit
    /\ shown = [n \in Notes |-> "hidden"]
    /\ badge = 0
    /\ query = Asking
    /\ data = Resting
    /\ asked = [c \in Calls |-> Nothing]
    /\ told = [n \in Notes |-> "nothing"]

ServerStep(c) ==
    \/ asked[c] = Nothing /\ (Arrive(c) \/ Act(c))
    \/ Redis(c)
    \/ RedisFails(c)

CNext ==
    \/ Poll \/ CountUnread \/ SelectItems \/ Receive \/ Render \/ QueryFails
    \/ \E c \in Calls :
        \/ ServerStep(c) /\ UNCHANGED <<store, query, data, asked, told>>
        \/ Click(c) \/ Serve(c) \/ Succeed(c) \/ RequestFails(c)

CSpec == CInit /\ [][CNext]_cvars

(* The tab keeps polling, and its fetches do not fail, nor are they        *)
(* cancelled, every single time.  No mutation has to be made or to end.    *)
PollFairness ==
    /\ WF_cvars(Poll) /\ WF_cvars(Render)
    /\ SF_cvars(CountUnread) /\ SF_cvars(SelectItems) /\ SF_cvars(Receive)

FairCSpec == CSpec /\ PollFairness

-----------------------------------------------------------------------------
Seen == {"hidden", "unread", "read"}
Badges == 0..Cardinality(Notes)
Reply(stage) == [stage : {stage}, unread : Badges, items : [Notes -> Seen]]
Asked ==
    [op : {"mark", "delete", "mark_all", "delete_all"}, note : Notes, served : BOOLEAN]

(* The badge never leaves the number of notifications there are.           *)
CTypeOK ==
    /\ ITypeOK
    /\ shown \in [Notes -> Seen]
    /\ badge \in Badges
    /\ query \in {Resting, Asking} \cup [stage : {"counted"}, unread : Badges]
                  \cup Reply("replied")
    /\ data \in {Resting} \cup Reply("fresh")
    /\ asked \in [Calls -> {Nothing} \cup Asked]
    /\ told \in [Notes -> {"nothing", "read", "deleted"}]

(* No reply that reaches the tab was fetched before a mutation the user    *)
(* has been told of: invalidateQueries has cancelled it.  (A reply that    *)
(* waits to be rendered may still bring back for a moment what he has just *)
(* read or deleted; the fetch that the mutation has started removes it.)   *)
RepliesAreFresh ==
    query.stage = "replied" =>
        \A n \in Notes :
            /\ told[n] = "read" => query.items[n] # "unread"
            /\ told[n] = "deleted" => query.items[n] = "hidden"

(* The inductive invariant behind it: what the user has been told of, and  *)
(* what a mutation that was served has done, is so in the inbox; and the   *)
(* tab shows, receives and acts upon no notification that does not exist.  *)
Done(op, n) ==
    /\ op = "mark" => inbox[n] \in {"read", "deleted"}
    /\ op = "delete" => inbox[n] = "deleted"

Known(items) == \A n \in Notes : items[n] # "hidden" => inbox[n] # "none"

FreshInvariant ==
    /\ RepliesAreFresh
    /\ Known(shown)
    /\ query.stage = "replied" => Known(query.items)
    /\ data.stage = "fresh" => Known(data.items)
    /\ \A c \in Calls : asked[c] # Nothing =>
          /\ inbox[asked[c].note] # "none"
          /\ asked[c].served => Done(asked[c].op, asked[c].note)
    /\ \A n \in Notes :
          /\ told[n] = "read" => inbox[n] \in {"read", "deleted"}
          /\ told[n] = "deleted" => inbox[n] = "deleted"

(* Notes is finite, so the inbox comes to rest in the end; then the screen *)
(* comes to show it, badge and list, whatever replies were mixed, lost or  *)
(* cancelled on the way.                                                   *)
ScreenConverges == <>[](shown = Listing /\ badge = Cardinality(Unread))
=============================================================================
