------------------------- MODULE OrganizationProofs -------------------------
(***************************************************************************)
(* Proofs about the members of an organization (Members) and a checklist   *)
(* (Checklists), for any number of users, requests, trees and runs.        *)
(***************************************************************************)
EXTENDS Members, Checklists, UnitOfWorkProofs, FiniteSetTheorems, TLAPS

-----------------------------------------------------------------------------
(* Members: what a request has read and will write.                        *)

MemberRow == [is_active : BOOLEAN, there : BOOLEAN]

IsAsk(a) == a = NoWrites \/ a \in [{"is_active"} -> BOOLEAN]

(* A pending write is some of what was asked for.                          *)
SomeOf(w, a) == DOMAIN w \subseteq DOMAIN a /\ \A c \in DOMAIN w : w[c] = a[c]

LEMMA NoWritesEmpty == DOMAIN NoWrites = {}
BY DEF NoWrites

LEMMA AskValues ==
    ASSUME NEW a, IsAsk(a)
    PROVE  /\ DOMAIN a \subseteq {"is_active"}
           /\ \A c \in DOMAIN a : a[c] \in BOOLEAN
BY NoWritesEmpty DEF IsAsk

LEMMA NetIsSome ==
    ASSUME NEW x, NEW a
    PROVE  SomeOf(Net(x, a), a)
BY NetDomain DEF SomeOf

LEMMA NothingIsSome == ASSUME NEW a PROVE SomeOf(NoWrites, a)
BY NoWritesEmpty DEF SomeOf

LEMMA MemberWritten ==
    ASSUME NEW x \in MemberRow, NEW a, IsAsk(a), NEW w, SomeOf(w, a)
    PROVE  /\ Apply(x, w) \in MemberRow
           /\ Apply(x, w).there = x.there
           /\ Apply(x, w).is_active /\ ~x.is_active => "is_active" \in DOMAIN a /\ a["is_active"] = TRUE
<1>1. DOMAIN w \subseteq {"is_active"} /\ \A c \in DOMAIN w : w[c] = a[c] /\ w[c] \in BOOLEAN
  BY AskValues DEF SomeOf
<1>2. DOMAIN w \subseteq DOMAIN a
  BY DEF SomeOf
<1> QED BY <1>1, <1>2 DEF MemberRow, Apply

-----------------------------------------------------------------------------
MemberInvariant ==
    /\ MbTypeOK
    /\ DOMAIN desk = Desks
    /\ \A r \in Desks :
        /\ desk[r].stage \in {"counted", "membership", "user"} => desk[r].who \in Users
        /\ desk[r].stage \in {"membership", "user"} =>
            /\ Exists(desk[r].who)
            /\ IsAsk(desk[r].asks)
            /\ SomeOf(desk[r].memberWrites, desk[r].asks)
        /\ desk[r].stage = "user" => SomeOf(desk[r].writes, desk[r].asks)

(* The rows are as they were, and one desk has a new task.                 *)
LEMMA DeskKeeps ==
    ASSUME MemberInvariant, NEW r \in Desks, NEW d, At(r, d),
           d.stage \in {"idle", "counted", "membership", "user"},
           d.stage \in {"counted", "membership", "user"} => d.who \in Users,
           d.stage \in {"membership", "user"} =>
               Exists(d.who) /\ IsAsk(d.asks) /\ SomeOf(d.memberWrites, d.asks),
           d.stage = "user" => SomeOf(d.writes, d.asks)
    PROVE  MemberInvariant'
BY DEF MemberInvariant, MbTypeOK, At, Exists

LEMMA MemberStep == MemberInvariant /\ [MbNext]_mbvars => MemberInvariant'
<1> SUFFICES ASSUME MemberInvariant, [MbNext]_mbvars PROVE MemberInvariant'
  OBVIOUS
<1>1. ASSUME NEW r \in Desks, NEW u \in Users, CountMembers(r, u) PROVE MemberInvariant'
  BY <1>1, DeskKeeps DEF CountMembers
<1>2. ASSUME NEW r \in Desks, NEW u \in Users, NEW on \in BOOLEAN, LoadMembership(r, u, on)
      PROVE  MemberInvariant'
  <2> DEFINE asks == [is_active |-> on]
             d == [stage |-> "membership", who |-> u, asks |-> asks,
                   memberWrites |-> Net(membership[u], asks)]
  <2>1. At(r, d) /\ Exists(u)
    BY <1>2 DEF LoadMembership
  <2>2. asks \in [{"is_active"} -> BOOLEAN]
    OBVIOUS
  <2>3. IsAsk(asks) /\ SomeOf(Net(membership[u], asks), asks)
    BY <2>2, NetIsSome DEF IsAsk
  <2> HIDE DEF asks
  <2>4. /\ d.stage = "membership" /\ d.who = u /\ d.asks = asks
        /\ d.memberWrites = Net(membership[u], asks)
    OBVIOUS
  <2> HIDE DEF d
  <2> QED BY <2>1, <2>3, <2>4, DeskKeeps
<1>3. ASSUME NEW r \in Desks, NEW u \in Users, NEW asks, IsAsk(asks), NEW w, SomeOf(w, asks),
             Exists(u), At(r, Flushing(u, asks, w))
      PROVE  MemberInvariant'
  <2> DEFINE d == Flushing(u, asks, w)
  <2>1. /\ d.stage = "user" /\ d.who = u /\ d.asks = asks /\ d.memberWrites = w
        /\ d.writes = Net(user[u], asks)
    BY DEF Flushing
  <2>2. SomeOf(Net(user[u], asks), asks)
    BY NetIsSome
  <2> HIDE DEF d
  <2> QED BY <1>3, <2>1, <2>2, DeskKeeps DEF d
<1>4. ASSUME NEW r \in Desks, LoadUser(r) PROVE MemberInvariant'
  <2>1. /\ desk[r].stage = "membership"
        /\ At(r, Flushing(desk[r].who, desk[r].asks, desk[r].memberWrites))
    BY <1>4 DEF LoadUser
  <2>2. /\ desk[r].who \in Users /\ Exists(desk[r].who) /\ IsAsk(desk[r].asks)
        /\ SomeOf(desk[r].memberWrites, desk[r].asks)
    BY <2>1 DEF MemberInvariant
  <2> QED BY <1>3, <2>1, <2>2
<1>5. ASSUME NEW r \in Desks, NEW u \in Users, NEW patch \in {NoWrites} \cup [{"is_active"} -> BOOLEAN],
             UpdateUser(r, u, patch)
      PROVE  MemberInvariant'
  BY <1>3, <1>5, NothingIsSome DEF UpdateUser, IsAsk
<1>6. ASSUME NEW r \in Desks, CreateUser(r) PROVE MemberInvariant'
  BY <1>6 DEF CreateUser, MemberInvariant, MbTypeOK, Row, NoTask, Exists
<1>7. ASSUME NEW r \in Desks, CommitMember(r) PROVE MemberInvariant'
  <2> DEFINE u == desk[r].who
  <2>1. /\ desk[r].stage = "user"
        /\ user' = [user EXCEPT ![u] = Apply(user[u], desk[r].writes)]
        /\ membership' = [membership EXCEPT ![u] = Apply(membership[u], desk[r].memberWrites)]
        /\ restored' \subseteq restored \cup {u}
        /\ desk' = [desk EXCEPT ![r] = NoTask]
    BY <1>7 DEF CommitMember
  <2>2. /\ u \in Users /\ Exists(u) /\ IsAsk(desk[r].asks)
        /\ SomeOf(desk[r].writes, desk[r].asks) /\ SomeOf(desk[r].memberWrites, desk[r].asks)
    BY <2>1 DEF MemberInvariant
  <2>3. user \in [Users -> MemberRow] /\ membership \in [Users -> MemberRow]
    BY DEF MemberInvariant, MbTypeOK, MemberRow
  <2>4. /\ Apply(user[u], desk[r].writes) \in MemberRow
        /\ Apply(user[u], desk[r].writes).there = user[u].there
        /\ Apply(membership[u], desk[r].memberWrites) \in MemberRow
    BY <2>2, <2>3, MemberWritten
  <2>5. \A v \in Users : user'[v].there = user[v].there
    BY <2>1, <2>2, <2>3, <2>4
  <2>6. MbTypeOK'
    <3>1. user' \in [Users -> MemberRow] /\ membership' \in [Users -> MemberRow]
      BY <2>1, <2>2, <2>3, <2>4
    <3>2. \A v \in Users : ~user'[v].there => user'[v] = NotThere /\ membership'[v] = NotThere
      BY <2>1, <2>2, <2>3, <2>5 DEF MemberInvariant, MbTypeOK, Exists
    <3>3. \A s \in Desks : desk'[s].stage \in {"idle", "counted", "membership", "user"}
      BY <2>1 DEF MemberInvariant, MbTypeOK, NoTask
    <3>4. restored' \subseteq Users
      BY <2>1, <2>2 DEF MemberInvariant, MbTypeOK
    <3> QED BY <3>1, <3>2, <3>3, <3>4 DEF MbTypeOK, Exists, MemberRow
  <2> QED BY <2>1, <2>5, <2>6 DEF MemberInvariant, NoTask, Exists
<1>8. ASSUME NEW r \in Desks, Quit(r) PROVE MemberInvariant'
  BY <1>8, DeskKeeps DEF Quit, NoTask
<1>9. CASE UNCHANGED mbvars
  BY <1>9 DEF mbvars, MemberInvariant, MbTypeOK, Exists
<1> QED BY <1>1, <1>2, <1>4, <1>5, <1>6, <1>7, <1>8, <1>9 DEF MbNext

LEMMA MemberStart == MbInit => MemberInvariant
BY MemberAssumption DEF MbInit, MemberInvariant, MbTypeOK, Row, NotThere, NoTask, Exists

LEMMA MemberKept == MbSpec => []MemberInvariant
BY MemberStart, MemberStep, PTL DEF MbSpec

(* Members: its type invariant, and that rows come in pairs.               *)
THEOREM MembersTyped == MbSpec => []MbTypeOK
BY MemberKept, PTL DEF MemberInvariant

(* Members: whoever cannot work is let in by a request that asks for it.   *)
THEOREM LetInOnPurpose == MbSpec => OnlyActivationLetsIn
<1>1. ASSUME MemberInvariant, MbNext, NEW u \in Users, Exists(u), ~MayWork(u), MayWork(u)'
      PROVE  \E r \in Desks :
               /\ desk[r].stage = "user" /\ desk'[r] = NoTask
               /\ desk[r].who = u
               /\ desk[r].asks = [is_active |-> TRUE]
  <2>1. user'[u] # user[u] \/ membership'[u] # membership[u]
    BY <1>1 DEF MayWork
  <2>2. user \in [Users -> MemberRow] /\ membership \in [Users -> MemberRow]
    BY <1>1 DEF MemberInvariant, MbTypeOK, MemberRow
  <2>3. PICK r \in Desks : CommitMember(r) /\ desk[r].who = u
    BY <1>1, <2>1, <2>2 DEF MbNext, CountMembers, LoadMembership, UpdateUser, CreateUser, LoadUser,
       CommitMember, Quit, At
  <2>4. /\ desk[r].stage = "user" /\ desk'[r] = NoTask
        /\ user'[u] = Apply(user[u], desk[r].writes)
        /\ membership'[u] = Apply(membership[u], desk[r].memberWrites)
    BY <1>1, <2>2, <2>3 DEF CommitMember, MemberInvariant
  <2>5. /\ IsAsk(desk[r].asks)
        /\ SomeOf(desk[r].writes, desk[r].asks) /\ SomeOf(desk[r].memberWrites, desk[r].asks)
    BY <1>1, <2>4 DEF MemberInvariant
  <2>6. "is_active" \in DOMAIN desk[r].asks /\ desk[r].asks["is_active"] = TRUE
    <3> DEFINE a == desk[r].asks
               x == user[u]
               y == membership[u]
    <3>1. x \in MemberRow /\ y \in MemberRow
      BY <2>2
    <3>2. Apply(x, desk[r].writes).is_active /\ ~x.is_active =>
            "is_active" \in DOMAIN a /\ a["is_active"] = TRUE
      BY <2>5, <3>1, MemberWritten
    <3>3. Apply(y, desk[r].memberWrites).is_active /\ ~y.is_active =>
            "is_active" \in DOMAIN a /\ a["is_active"] = TRUE
      BY <2>5, <3>1, MemberWritten
    <3>4. /\ ~(x.is_active /\ y.is_active)
          /\ Apply(x, desk[r].writes).is_active /\ Apply(y, desk[r].memberWrites).is_active
      BY <1>1, <2>4 DEF MayWork
    <3> QED BY <3>2, <3>3, <3>4
  <2>7. desk[r].asks = [is_active |-> TRUE]
    BY <2>5, <2>6, NoWritesEmpty DEF IsAsk
  <2> QED BY <2>3, <2>4, <2>7, Zenon
<1>2. MemberInvariant /\ [MbNext]_mbvars =>
        [\A u \in Users : Exists(u) /\ ~MayWork(u) /\ MayWork(u)' =>
          \E r \in Desks :
            /\ desk[r].stage = "user" /\ desk'[r] = NoTask
            /\ desk[r].who = u
            /\ desk[r].asks = [is_active |-> TRUE]]_mbvars
  BY <1>1
<1> QED BY <1>2, MemberKept, PTL DEF MbSpec, OnlyActivationLetsIn

-----------------------------------------------------------------------------
(* Members: the tariff.  A request that has counted the members and found  *)
(* room is counted in advance.  A membership that is switched on again is  *)
(* not counted at all.                                                     *)

Counted == {r \in Desks : desk[r].stage = "counted"}

Hired == Active \ restored

TariffInvariant ==
    /\ MemberInvariant
    /\ Cardinality(Hired) + Cardinality(Counted) <= MaxUsers - 1 + Cardinality(Desks)

LEMMA MembersCounted ==
    /\ IsFiniteSet(Hired) /\ Cardinality(Hired) \in Nat
    /\ IsFiniteSet(Active) /\ Cardinality(Active) \in Nat
    /\ Cardinality(Hired) <= Cardinality(Active)
    /\ IsFiniteSet(Counted) /\ Cardinality(Counted) \in Nat
    /\ Cardinality(Desks) \in Nat
    /\ Cardinality(Counted) <= Cardinality(Desks)
<1>1. Hired \subseteq Active /\ Active \subseteq Users /\ Counted \subseteq Desks
  BY DEF Hired, Active, Counted
<1>2. IsFiniteSet(Active) /\ IsFiniteSet(Counted) /\ Cardinality(Counted) <= Cardinality(Desks)
  BY <1>1, MemberAssumption, FS_Subset
<1>3. IsFiniteSet(Hired) /\ Cardinality(Hired) <= Cardinality(Active)
  BY <1>1, <1>2, FS_Subset
<1> QED BY <1>2, <1>3, MemberAssumption, FS_CardinalityType

LEMMA TariffFalls ==
    ASSUME TariffInvariant, MemberInvariant', Hired' \subseteq Hired, Counted' \subseteq Counted
    PROVE  TariffInvariant'
<1>1. /\ IsFiniteSet(Hired') /\ Cardinality(Hired') <= Cardinality(Hired)
      /\ IsFiniteSet(Counted') /\ Cardinality(Counted') <= Cardinality(Counted)
  BY MembersCounted, FS_Subset
<1>2. Cardinality(Hired') \in Nat /\ Cardinality(Counted') \in Nat
  BY <1>1, FS_CardinalityType
<1> QED BY <1>1, <1>2, MembersCounted, MemberAssumption DEF TariffInvariant

LEMMA TariffStep == TariffInvariant /\ [MbNext]_mbvars => TariffInvariant'
<1> SUFFICES ASSUME TariffInvariant, [MbNext]_mbvars PROVE TariffInvariant'
  OBVIOUS
<1>m. MemberInvariant /\ MemberInvariant'
  BY MemberStep DEF TariffInvariant
<1>d. DOMAIN desk = Desks
  BY <1>m DEF MemberInvariant
<1>1. ASSUME NEW r \in Desks, NEW u \in Users, CountMembers(r, u) PROVE TariffInvariant'
  <2>1. Hired' = Hired /\ Cardinality(Active) < MaxUsers
    BY <1>1 DEF CountMembers, At, Hired, Active, BelowLimit
  <2>2. Cardinality(Counted') <= Cardinality(Desks) /\ Cardinality(Counted') \in Nat
    <3>1. Counted' \subseteq Desks
      BY DEF Counted
    <3> QED BY <3>1, MemberAssumption, FS_Subset, FS_CardinalityType
  <2> QED BY <1>m, <2>1, <2>2, MembersCounted, MemberAssumption DEF TariffInvariant
<1>2. ASSUME NEW r \in Desks, CreateUser(r) PROVE TariffInvariant'
  <2> DEFINE u == desk[r].who
  <2>1. r \in Counted /\ u \in Users /\ restored' = restored
    BY <1>2, <1>m DEF CreateUser, Counted, MemberInvariant
  <2>2. Hired' \subseteq Hired \cup {u}
    BY <1>2, <1>m DEF CreateUser, Hired, Active, MemberInvariant, MbTypeOK
  <2>3. Counted' \subseteq Counted \ {r}
    BY <1>2, <1>d DEF CreateUser, Counted, NoTask
  <2>4. /\ IsFiniteSet(Hired \cup {u}) /\ Cardinality(Hired \cup {u}) <= Cardinality(Hired) + 1
        /\ Cardinality(Hired \cup {u}) \in Nat
    <3>1. /\ IsFiniteSet(Hired \cup {u})
          /\ Cardinality(Hired \cup {u}) = IF u \in Hired THEN Cardinality(Hired)
                                            ELSE Cardinality(Hired) + 1
      BY MembersCounted, FS_AddElement
    <3> QED BY <3>1, MembersCounted
  <2>5. IsFiniteSet(Counted \ {r}) /\ Cardinality(Counted \ {r}) = Cardinality(Counted) - 1
    BY <2>1, MembersCounted, FS_RemoveElement
  <2>6. /\ IsFiniteSet(Hired') /\ Cardinality(Hired') <= Cardinality(Hired \cup {u})
        /\ IsFiniteSet(Counted') /\ Cardinality(Counted') <= Cardinality(Counted \ {r})
    BY <2>2, <2>3, <2>4, <2>5, FS_Subset
  <2>7. Cardinality(Hired') \in Nat /\ Cardinality(Counted') \in Nat
    BY <2>6, FS_CardinalityType
  <2> QED BY <1>m, <2>4, <2>5, <2>6, <2>7, MembersCounted, MemberAssumption DEF TariffInvariant
<1>3. ASSUME NEW r \in Desks, CommitMember(r) PROVE TariffInvariant'
  <2> DEFINE u == desk[r].who
  <2>1. /\ membership' = [membership EXCEPT ![u] = Apply(membership[u], desk[r].memberWrites)]
        /\ restored' = restored \cup
              {v \in {u} : ~membership[v].is_active /\ membership'[v].is_active}
        /\ desk' = [desk EXCEPT ![r] = NoTask]
    BY <1>3 DEF CommitMember
  <2>2. \A v \in Users : v # u => membership'[v] = membership[v]
    BY <2>1, <1>m DEF MemberInvariant, MbTypeOK
  <2>3. ASSUME NEW v \in Hired' PROVE v \in Hired
    <3>1. v \in Users /\ membership'[v].is_active /\ v \notin restored'
      BY <2>3 DEF Hired, Active
    <3>2. v \notin restored
      BY <2>1, <3>1
    <3>3. membership[v].is_active
      <4>1. CASE v = u
        BY <2>1, <3>1, <4>1, Zenon
      <4>2. CASE v # u
        BY <2>2, <3>1, <4>2
      <4> QED BY <4>1, <4>2
    <3> QED BY <3>1, <3>2, <3>3 DEF Hired, Active
  <2>4. Counted' \subseteq Counted
    BY <2>1, <1>d DEF Counted, NoTask
  <2> QED BY <1>m, <2>3, <2>4, TariffFalls
<1>4. ASSUME NEW r \in Desks, NEW d, At(r, d), d.stage # "counted" PROVE TariffInvariant'
  <2>1. Hired' = Hired /\ Counted' \subseteq Counted
    BY <1>4, <1>d DEF At, Hired, Active, Counted
  <2> QED BY <1>m, <2>1, TariffFalls
<1>5. ASSUME NEW r \in Desks, NEW u \in Users, NEW on \in BOOLEAN, LoadMembership(r, u, on)
      PROVE  TariffInvariant'
  <2> DEFINE d == [stage |-> "membership", who |-> u, asks |-> [is_active |-> on],
                   memberWrites |-> Net(membership[u], [is_active |-> on])]
  <2>1. At(r, d) /\ d.stage # "counted"
    BY <1>5 DEF LoadMembership
  <2> HIDE DEF d
  <2> QED BY <1>4, <2>1
<1>6. ASSUME NEW r \in Desks, NEW u, NEW asks, NEW w, At(r, Flushing(u, asks, w))
      PROVE  TariffInvariant'
  <2>1. Flushing(u, asks, w).stage # "counted"
    BY DEF Flushing
  <2> QED BY <1>4, <1>6, <2>1
<1>7. ASSUME NEW r \in Desks, LoadUser(r) PROVE TariffInvariant'
  BY <1>6, <1>7 DEF LoadUser
<1>8. ASSUME NEW r \in Desks, NEW u \in Users, NEW patch, UpdateUser(r, u, patch)
      PROVE  TariffInvariant'
  BY <1>6, <1>8 DEF UpdateUser
<1>9. ASSUME NEW r \in Desks, Quit(r) PROVE TariffInvariant'
  BY <1>4, <1>9 DEF Quit, NoTask
<1>10. CASE UNCHANGED mbvars
  <2>1. Hired' = Hired /\ Counted' = Counted
    BY <1>10 DEF mbvars, Hired, Active, Counted
  <2> QED BY <1>m, <2>1, TariffFalls
<1> QED BY <1>1, <1>2, <1>3, <1>5, <1>7, <1>8, <1>9, <1>10 DEF MbNext

LEMMA TariffStart == MbInit => TariffInvariant
<1> SUFFICES ASSUME MbInit PROVE TariffInvariant
  OBVIOUS
<1>1. Hired \subseteq {Founder} /\ Counted = {}
  BY DEF MbInit, Hired, Active, Counted, NotThere, NoTask
<1>2. IsFiniteSet({Founder}) /\ Cardinality({Founder}) = 1
  BY FS_Singleton
<1>3. Cardinality(Hired) <= 1 /\ Cardinality(Counted) = 0
  BY <1>1, <1>2, FS_Subset, FS_EmptySet
<1>4. Cardinality(Desks) \in Nat /\ Cardinality(Desks) # 0
  BY MemberAssumption, FS_CardinalityType, FS_EmptySet
<1> QED BY <1>3, <1>4, MemberStart, MembersCounted, MemberAssumption DEF TariffInvariant

(* Members: requests that overlap exceed the tariff by less than their     *)
(* number.                                                                 *)
THEOREM TariffOverrun == MbSpec => []LimitOverrun
<1>1. TariffInvariant => LimitOverrun
  BY MembersCounted, MemberAssumption DEF TariffInvariant, LimitOverrun, Hired
<1> QED BY <1>1, TariffStart, TariffStep, PTL DEF MbSpec

-----------------------------------------------------------------------------
(* Checklists: a pending save, and the request it leaves no trace of.      *)

ChecklistWrites(w) ==
    /\ DOMAIN w \subseteq {"status", "visibility"}
    /\ "status" \in DOMAIN w => w["status"] \in ChecklistStatus
    /\ "visibility" \in DOMAIN w => w["visibility"] \in ChecklistVisibility

LEMMA ChecklistWritten ==
    ASSUME NEW x \in ChecklistRow, NEW w, ChecklistWrites(w)
    PROVE  /\ Apply(x, w) \in ChecklistRow
           /\ Apply(x, w).runs_count = x.runs_count
           /\ Apply(x, w).visibility # x.visibility => "visibility" \in DOMAIN w
           /\ "visibility" \in DOMAIN w => Apply(x, w).visibility = w["visibility"]
BY DEF ChecklistRow, ChecklistWrites, Apply

LEMMA ChecklistNet ==
    ASSUME NEW x, NEW w, ChecklistWrites(w)
    PROVE  /\ ChecklistWrites(Net(x, w))
           /\ "visibility" \in DOMAIN Net(x, w) =>
                "visibility" \in DOMAIN w /\ Net(x, w)["visibility"] = w["visibility"]
                /\ w["visibility"] # x["visibility"]
BY NetDomain DEF ChecklistWrites

Starting == {r \in Visits : visit[r].stage = "starting"}

SavingOK(v, all) ==
    /\ ChecklistWrites(v.writes)
    /\ "visibility" \in DOMAIN v.writes =>
        /\ v.found.visibility # v.writes["visibility"]
        /\ v.writes["visibility"] = "public" => v.by \in Admins
    /\ v.inserted \in SmallTrees /\ v.inserted \subseteq all

ChecklistInvariant ==
    /\ checklist \in ChecklistRow
    /\ standing \in {"absent", "live", "deleted"}
    /\ trees \subseteq made /\ made \subseteq Trees
    /\ DOMAIN visit = Visits
    /\ \A r \in Visits :
        /\ visit[r].stage \in {"idle", "loaded", "saving", "starting"}
        /\ visit[r].stage = "saving" => SavingOK(visit[r], made)
    /\ standing = "absent" => begun = 0 /\ \A r \in Visits : visit[r] = NoVisit
    /\ begun \in Nat /\ begun + Cardinality(Starting) <= MaxRuns
    /\ RunsAreCounted

LEMMA StartingCounted ==
    /\ IsFiniteSet(Starting) /\ Cardinality(Starting) \in Nat
<1>1. Starting \subseteq Visits
  BY DEF Starting
<1> QED BY <1>1, ChecklistAssumption, FS_Subset, FS_CardinalityType

(* The checklist is as it was, and nobody has begun to start a run.        *)
LEMMA VisitKeeps ==
    ASSUME ChecklistInvariant, NEW r \in Visits, NEW v, Go(r, v), standing # "absent",
           made \subseteq made', made' \subseteq Trees,
           v.stage \in {"idle", "loaded", "saving"},
           v.stage = "saving" => SavingOK(v, made')
    PROVE  ChecklistInvariant'
<1>1. /\ UNCHANGED <<checklist, standing, trees, begun>>
      /\ visit' = [visit EXCEPT ![r] = v]
  BY DEF Go
<1>2. Starting' \subseteq Starting
  BY <1>1 DEF ChecklistInvariant, Starting
<1>3. Cardinality(Starting') <= Cardinality(Starting) /\ Cardinality(Starting') \in Nat
  BY <1>2, StartingCounted, FS_Subset, FS_CardinalityType
<1>4. begun' \in Nat /\ begun' + Cardinality(Starting') <= MaxRuns
  BY <1>1, <1>3, StartingCounted, ChecklistAssumption DEF ChecklistInvariant
<1>5. \A s \in Visits :
        /\ visit'[s].stage \in {"idle", "loaded", "saving", "starting"}
        /\ visit'[s].stage = "saving" => SavingOK(visit'[s], made')
  BY <1>1 DEF ChecklistInvariant, SavingOK
<1> QED BY <1>1, <1>4, <1>5 DEF ChecklistInvariant, RunsAreCounted

LEMMA SmallTreesSmall == \A t \in SmallTrees : t \subseteq Trees
BY DEF SmallTrees

LEMMA NoWritesFit == ChecklistWrites(NoWrites)
BY NoWritesEmpty DEF ChecklistWrites

LEMMA PatchesFit == \A patch \in ChecklistPatches : ChecklistWrites(patch)
BY NoWritesFit DEF ChecklistPatches, ChecklistWrites

LEMMA ChecklistStep == ChecklistInvariant /\ [ClNext]_clvars => ChecklistInvariant'
<1> SUFFICES ASSUME ChecklistInvariant, [ClNext]_clvars PROVE ChecklistInvariant'
  OBVIOUS
<1>a. ASSUME NEW r \in Visits, visit[r] # NoVisit PROVE standing # "absent"
  BY <1>a DEF ChecklistInvariant
<1>n. NoVisit.stage = "idle"
  BY DEF NoVisit
<1>1. ASSUME NEW u \in Editors, NEW status \in ChecklistStatus, NEW visibility \in ChecklistVisibility,
             NEW new \in SmallTrees, CreateChecklist(u, status, visibility, new)
      PROVE  ChecklistInvariant'
  <2>1. /\ standing = "absent" /\ standing' = "live" /\ trees' = new /\ made' = made \cup new
        /\ checklist' = NewChecklist(u, status, visibility) /\ visit' = visit /\ begun' = begun
    BY <1>1 DEF CreateChecklist
  <2>2. checklist' \in ChecklistRow /\ checklist'.runs_count = 0
    BY <2>1 DEF NewChecklist, ChecklistRow
  <2>3. Starting' = Starting /\ begun = 0
    BY <2>1 DEF Starting, ChecklistInvariant
  <2>4. new \subseteq Trees
    BY SmallTreesSmall
  <2>5. \A r \in Visits : visit'[r].stage = "idle"
    BY <2>1, <1>n DEF ChecklistInvariant
  <2> QED BY <2>1, <2>2, <2>3, <2>4, <2>5 DEF ChecklistInvariant, RunsAreCounted
<1>2. ASSUME NEW r \in Visits, LoadChecklist(r) PROVE ChecklistInvariant'
  <2> DEFINE v == [stage |-> "loaded", row |-> checklist]
  <2>1. Go(r, v) /\ standing = "live" /\ made' = made /\ v.stage = "loaded"
    BY <1>2 DEF LoadChecklist
  <2> HIDE DEF v
  <2> QED BY <2>1, VisitKeeps DEF ChecklistInvariant
<1>3. ASSUME NEW r \in Visits, NEW u \in Editors, NEW patch \in ChecklistPatches,
             NEW replace \in BOOLEAN, NEW tree \in SmallTrees,
             UpdateChecklist(r, u, patch, replace, tree)
      PROVE  ChecklistInvariant'
  <2> DEFINE x == visit[r].row
             w == Net(x, patch)
             seen == IF replace THEN trees ELSE {}
             v == Saving(u, x, patch, seen, tree)
  <2>1. /\ visit[r].stage = "loaded" /\ MaySetVisibility(u, visit[r].row, patch)
        /\ Go(r, v) /\ made' = made \cup tree
    BY <1>3 DEF UpdateChecklist
  <2>2. /\ v.stage = "saving" /\ v.by = u /\ v.writes = w /\ v.inserted = tree
        /\ \A c \in DOMAIN w : v.found[c] = x[c]
    BY DEF Saving
  <2>3. ChecklistWrites(patch)
    BY PatchesFit
  <2>4. /\ ChecklistWrites(w)
        /\ "visibility" \in DOMAIN w =>
            /\ w["visibility"] # x["visibility"]
            /\ w["visibility"] = "public" => u \in Admins
    BY <2>1, <2>3, ChecklistNet DEF MaySetVisibility
  <2> HIDE DEF w, v
  <2>5. SavingOK(v, made')
    BY <2>1, <2>2, <2>4 DEF SavingOK, w
  <2> QED BY <1>a, <1>n, <2>1, <2>2, <2>5, VisitKeeps, SmallTreesSmall DEF ChecklistInvariant
<1>4. ASSUME NEW r \in Visits, NEW u \in Editors, NEW status \in ChecklistStatus, SetStatus(r, u, status)
      PROVE  ChecklistInvariant'
  <2> DEFINE patch == [status |-> status]
             w == Net(visit[r].row, patch)
             v == Saving(u, visit[r].row, patch, {}, {})
  <2>1. visit[r].stage = "loaded" /\ Go(r, v) /\ made' = made
    BY <1>4 DEF SetStatus
  <2>2. /\ v.stage = "saving" /\ v.by = u /\ v.writes = w /\ v.inserted = {}
    BY DEF Saving
  <2>3. ChecklistWrites(patch) /\ "visibility" \notin DOMAIN patch
    BY DEF ChecklistWrites
  <2>4. ChecklistWrites(w) /\ "visibility" \notin DOMAIN w
    BY <2>3, ChecklistNet
  <2>5. {} \in SmallTrees
    BY DEF SmallTrees
  <2> HIDE DEF w, v
  <2>6. SavingOK(v, made')
    BY <2>1, <2>2, <2>4, <2>5 DEF SavingOK, w
  <2> QED BY <1>a, <1>n, <2>1, <2>2, <2>6, VisitKeeps DEF ChecklistInvariant
<1>5. ASSUME NEW r \in Visits, DeleteChecklist(r) PROVE ChecklistInvariant'
  <2>1. /\ standing = "live" /\ standing' = "deleted" /\ trees' = {} /\ made' = made
        /\ visit' = [visit EXCEPT ![r] = NoVisit] /\ checklist' = checklist /\ begun' = begun
        /\ visit[r].stage = "loaded"
    BY <1>5 DEF DeleteChecklist
  <2>2. Starting' = Starting
    BY <2>1, <1>n DEF Starting, ChecklistInvariant
  <2> QED BY <2>1, <2>2, <1>n DEF ChecklistInvariant, RunsAreCounted, SavingOK
<1>6. ASSUME NEW r \in Visits, CommitSave(r) PROVE ChecklistInvariant'
  <2>1. /\ standing = "live" /\ visit[r].stage = "saving"
        /\ checklist' = Apply(checklist, visit[r].writes)
        /\ trees' = (trees \ visit[r].seen) \cup visit[r].inserted
        /\ visit' = [visit EXCEPT ![r] = NoVisit]
        /\ UNCHANGED <<standing, made, begun>>
    BY <1>6 DEF CommitSave
  <2>2. SavingOK(visit[r], made)
    BY <2>1 DEF ChecklistInvariant
  <2>3. checklist' \in ChecklistRow /\ checklist'.runs_count = checklist.runs_count
    BY <2>1, <2>2, ChecklistWritten DEF ChecklistInvariant, SavingOK
  <2>4. Starting' = Starting
    BY <2>1, <1>n DEF Starting, ChecklistInvariant
  <2>5. trees' \subseteq made'
    BY <2>1, <2>2 DEF ChecklistInvariant, SavingOK
  <2> QED BY <2>1, <2>3, <2>4, <2>5, <1>n DEF ChecklistInvariant, RunsAreCounted, SavingOK
<1>7. ASSUME NEW r \in Visits, begun + RunsUnderWay < MaxRuns, StartRun(r) PROVE ChecklistInvariant'
  <2>1. /\ visit[r].stage = "loaded" /\ standing = "live" /\ made' = made
        /\ UNCHANGED <<checklist, standing, trees, begun>>
        /\ visit' = [visit EXCEPT ![r] = [stage |-> "starting", row |-> visit[r].row]]
    BY <1>7 DEF StartRun, Go
  <2>2. Starting' = Starting \cup {r} /\ r \notin Starting
    BY <2>1 DEF Starting, ChecklistInvariant
  <2>3. Cardinality(Starting') = Cardinality(Starting) + 1
    BY <2>2, StartingCounted, FS_AddElement
  <2>4. begun' + Cardinality(Starting') <= MaxRuns
    BY <1>7, <2>1, <2>3, StartingCounted, ChecklistAssumption DEF RunsUnderWay, Starting, ChecklistInvariant
  <2> QED BY <2>1, <2>4 DEF ChecklistInvariant, RunsAreCounted, SavingOK
<1>8. ASSUME NEW r \in Visits, IncrementRuns(r) PROVE ChecklistInvariant'
  <2>1. /\ visit[r].stage = "starting" /\ begun' = begun + 1
        /\ checklist' = [checklist EXCEPT !.runs_count = checklist.runs_count + 1]
        /\ visit' = [visit EXCEPT ![r] = NoVisit]
        /\ UNCHANGED <<standing, trees, made>>
    BY <1>8 DEF IncrementRuns
  <2>2. checklist' \in ChecklistRow /\ checklist'.runs_count = checklist.runs_count + 1
    BY <2>1 DEF ChecklistInvariant, ChecklistRow
  <2>3. Starting' = Starting \ {r} /\ r \in Starting
    BY <2>1, <1>n DEF Starting, ChecklistInvariant
  <2>4. Cardinality(Starting') = Cardinality(Starting) - 1
    BY <2>3, StartingCounted, FS_RemoveElement
  <2>5. begun' \in Nat /\ begun' + Cardinality(Starting') <= MaxRuns
    BY <2>1, <2>4, StartingCounted, ChecklistAssumption DEF ChecklistInvariant
  <2>6. standing # "absent"
    BY <2>1, <1>n, <1>a
  <2> QED BY <2>1, <2>2, <2>5, <2>6, <1>n DEF ChecklistInvariant, RunsAreCounted, SavingOK
<1>9. ASSUME NEW r \in Visits, Leave(r) PROVE ChecklistInvariant'
  BY <1>9, <1>a, <1>n, VisitKeeps DEF Leave, ChecklistInvariant
<1>10. CASE UNCHANGED clvars
  BY <1>10 DEF clvars, ChecklistInvariant, RunsAreCounted, SavingOK, Starting
<1> QED BY <1>1, <1>2, <1>3, <1>4, <1>5, <1>6, <1>7, <1>8, <1>9, <1>10 DEF ClNext

LEMMA ChecklistStart == ClInit => ChecklistInvariant
<1> SUFFICES ASSUME ClInit PROVE ChecklistInvariant
  OBVIOUS
<1>1. Starting = {}
  BY DEF ClInit, Starting, NoVisit
<1>2. checklist \in ChecklistRow /\ checklist.runs_count = 0
  BY DEF ClInit, NewChecklist, ChecklistRow, ChecklistStatus, ChecklistVisibility
<1> QED BY <1>1, <1>2, FS_EmptySet, ChecklistAssumption
    DEF ClInit, ChecklistInvariant, RunsAreCounted, NoVisit

LEMMA ChecklistKept == ClSpec => []ChecklistInvariant
BY ChecklistStart, ChecklistStep, PTL DEF ClSpec

(* Checklists: its type invariant, and the bound on the number of runs.    *)
THEOREM ChecklistsTyped == ClSpec => []ClTypeOK
<1>1. ChecklistInvariant => ClTypeOK
  BY StartingCounted, ChecklistAssumption DEF ChecklistInvariant, ClTypeOK
<1> QED BY <1>1, ChecklistKept, PTL

(* Checklists: the row counts the runs that were started, no more and no   *)
(* less.                                                                   *)
THEOREM RunsCounted == ClSpec => []RunsAreCounted
<1>1. ChecklistInvariant => RunsAreCounted
  BY DEF ChecklistInvariant
<1> QED BY <1>1, ChecklistKept, PTL

(* Checklists: a new checklist is public only with a superuser for its     *)
(* author, and afterwards its visibility changes only by the commit of a   *)
(* save that has read the other value - a superuser's, if it becomes       *)
(* public.                                                                 *)
THEOREM ChecklistVisibilityKept == ClSpec => ChecklistPublicBySuperuser
<1>1. ASSUME ChecklistInvariant, ClNext PROVE ChecklistVisibilityGuarded
  <2>t. checklist \in ChecklistRow /\ DOMAIN visit = Visits
    BY <1>1 DEF ChecklistInvariant
  <2>1. ASSUME standing = "absent", standing' = "live", checklist'.visibility = "public"
        PROVE  checklist'.author_id \in Admins
    <3>1. PICK u \in Editors, status \in ChecklistStatus, visibility \in ChecklistVisibility,
               new \in SmallTrees : CreateChecklist(u, status, visibility, new)
      BY <1>1, <2>1 DEF ClNext, LoadChecklist, UpdateChecklist, SetStatus, DeleteChecklist,
         CommitSave, StartRun, IncrementRuns, Leave, Go
    <3> QED BY <2>1, <3>1 DEF CreateChecklist, NewChecklist
  <2>2. ASSUME standing = "live", checklist'.visibility # checklist.visibility
        PROVE  \E r \in Visits :
                 /\ CommitsSave(r)
                 /\ visit[r].found.visibility # checklist'.visibility
                 /\ checklist'.visibility = "public" => visit[r].by \in Admins
    <3>1. ASSUME NEW r \in Visits, IncrementRuns(r) PROVE FALSE
      BY <2>2, <2>t, <3>1 DEF IncrementRuns, ChecklistRow
    <3>2. PICK r \in Visits : CommitSave(r)
      BY <1>1, <2>2, <3>1 DEF ClNext, CreateChecklist, LoadChecklist, UpdateChecklist, SetStatus,
         DeleteChecklist, StartRun, Leave, Go
    <3>3. /\ SavingOK(visit[r], made) /\ checklist' = Apply(checklist, visit[r].writes)
          /\ CommitsSave(r)
      BY <1>1, <2>t, <3>2 DEF CommitSave, CommitsSave, ChecklistInvariant
    <3>4. /\ "visibility" \in DOMAIN visit[r].writes
          /\ checklist'.visibility = visit[r].writes["visibility"]
      BY <2>2, <2>t, <3>3, ChecklistWritten DEF SavingOK
    <3> QED BY <3>3, <3>4 DEF SavingOK
  <2> QED BY <2>1, <2>2 DEF ChecklistVisibilityGuarded
<1>2. ChecklistInvariant /\ [ClNext]_clvars => [ChecklistVisibilityGuarded]_clvars
  BY <1>1
<1> QED BY <1>2, ChecklistKept, PTL DEF ClSpec, ChecklistPublicBySuperuser

(* Checklists: what a list offers, `get_checklist` shows.                  *)
THEOREM ListedCanBeOpened == ClSpec => []ListedIsReadable
<1>1. ListedIsReadable
  BY DEF ListedIsReadable, Listed, Readable, StatusesFor, ChecklistReaders
<1> QED BY <1>1, PTL

-----------------------------------------------------------------------------
(* Checklists: saves that take turns.  Whatever is in the table when the   *)
(* only save under way commits was there when its DELETE began.            *)

TakeTurns ==
    \A r, s \in Visits : visit[r].stage = "saving" /\ visit[s].stage = "saving" => r = s

TurnsInvariant ==
    /\ ChecklistInvariant
    /\ OneTree
    /\ \A r \in Visits :
        visit[r].stage = "saving" /\ visit[r].inserted # {} => visit[r].seen = trees

LEMMA TurnsStep == TurnsInvariant /\ TakeTurns /\ [ClNext]_clvars => TurnsInvariant'
<1> SUFFICES ASSUME TurnsInvariant, TakeTurns, [ClNext]_clvars PROVE TurnsInvariant'
  OBVIOUS
<1>i. ChecklistInvariant /\ ChecklistInvariant' /\ DOMAIN visit = Visits
  BY ChecklistStep DEF TurnsInvariant, ChecklistInvariant
<1>n. NoVisit.stage = "idle"
  BY DEF NoVisit
<1>1. ASSUME NEW u \in Editors, NEW status \in ChecklistStatus, NEW visibility \in ChecklistVisibility,
             NEW new \in SmallTrees, CreateChecklist(u, status, visibility, new)
      PROVE  TurnsInvariant'
  BY <1>1, <1>i, <1>n DEF CreateChecklist, ChecklistInvariant, SmallTrees, TurnsInvariant, OneTree
<1>2. ASSUME NEW r \in Visits, NEW v, Go(r, v),
             v.stage = "saving" /\ v.inserted # {} => v.seen = trees
      PROVE  TurnsInvariant'
  BY <1>2, <1>i DEF Go, TurnsInvariant, OneTree
<1>3. ASSUME NEW r \in Visits, LoadChecklist(r) PROVE TurnsInvariant'
  <2> DEFINE v == [stage |-> "loaded", row |-> checklist]
  <2>1. Go(r, v) /\ v.stage = "loaded"
    BY <1>3 DEF LoadChecklist
  <2> HIDE DEF v
  <2> QED BY <1>2, <2>1
<1>4. ASSUME NEW r \in Visits, NEW u \in Editors, NEW patch \in ChecklistPatches,
             NEW replace \in BOOLEAN, NEW tree \in SmallTrees,
             UpdateChecklist(r, u, patch, replace, tree)
      PROVE  TurnsInvariant'
  <2> DEFINE seen == IF replace THEN trees ELSE {}
             v == Saving(u, visit[r].row, patch, seen, tree)
  <2>1. Go(r, v) /\ (tree # {} => replace)
    BY <1>4 DEF UpdateChecklist
  <2>2. v.inserted = tree /\ v.seen = seen
    BY DEF Saving
  <2> HIDE DEF v
  <2> QED BY <1>2, <2>1, <2>2
<1>5. ASSUME NEW r \in Visits, NEW u \in Editors, NEW status \in ChecklistStatus, SetStatus(r, u, status)
      PROVE  TurnsInvariant'
  <2> DEFINE v == Saving(u, visit[r].row, [status |-> status], {}, {})
  <2>1. Go(r, v) /\ v.inserted = {}
    BY <1>5 DEF SetStatus, Saving
  <2> HIDE DEF v
  <2> QED BY <1>2, <2>1
<1>6. ASSUME NEW r \in Visits, DeleteChecklist(r) PROVE TurnsInvariant'
  <2>1. \A s \in Visits : visit'[s].stage = "saving" => visit'[s].inserted = {}
    BY <1>6, <1>i, <1>n DEF DeleteChecklist, Holds
  <2>2. trees' = {}
    BY <1>6 DEF DeleteChecklist
  <2> QED BY <1>i, <2>1, <2>2 DEF TurnsInvariant, OneTree
<1>7. ASSUME NEW r \in Visits, CommitSave(r) PROVE TurnsInvariant'
  <2>1. /\ visit[r].stage = "saving"
        /\ trees' = (trees \ visit[r].seen) \cup visit[r].inserted
        /\ visit' = [visit EXCEPT ![r] = NoVisit]
    BY <1>7 DEF CommitSave
  <2>2. \A s \in Visits : visit'[s].stage # "saving"
    BY <2>1, <1>i, <1>n DEF TakeTurns
  <2>3. OneTree'
    <3>1. CASE visit[r].inserted = {}
      BY <2>1, <3>1 DEF TurnsInvariant, OneTree
    <3>2. CASE visit[r].inserted # {}
      <4>1. visit[r].inserted \in SmallTrees
        BY <2>1, <1>i DEF ChecklistInvariant, SavingOK
      <4>2. trees' = visit[r].inserted
        BY <2>1, <3>2 DEF TurnsInvariant
      <4> QED BY <4>1, <4>2 DEF SmallTrees, OneTree
    <3> QED BY <3>1, <3>2
  <2> QED BY <1>i, <2>2, <2>3 DEF TurnsInvariant
<1>8. ASSUME NEW r \in Visits, StartRun(r) PROVE TurnsInvariant'
  <2> DEFINE v == [stage |-> "starting", row |-> visit[r].row]
  <2>1. Go(r, v) /\ v.stage = "starting"
    BY <1>8 DEF StartRun
  <2> HIDE DEF v
  <2> QED BY <1>2, <2>1
<1>9. ASSUME NEW r \in Visits, IncrementRuns(r) PROVE TurnsInvariant'
  BY <1>9, <1>i, <1>n DEF IncrementRuns, TurnsInvariant, OneTree
<1>10. ASSUME NEW r \in Visits, Leave(r) PROVE TurnsInvariant'
  BY <1>2, <1>10, <1>n DEF Leave
<1>11. CASE UNCHANGED clvars
  BY <1>11, <1>i DEF clvars, TurnsInvariant, OneTree
<1> QED BY <1>1, <1>3, <1>4, <1>5, <1>6, <1>7, <1>8, <1>9, <1>10, <1>11 DEF ClNext

(* Checklists: saves that never overlap leave one tree at most, that of    *)
(* the last save which had one.                                            *)
THEOREM OneTreeInTurns == ClSpec /\ []TakeTurns => []OneTree
<1>1. ClInit => TurnsInvariant
  BY ChecklistStart DEF ClInit, TurnsInvariant, OneTree, NoVisit
<1>2. TurnsInvariant => OneTree
  BY DEF TurnsInvariant
<1> QED BY <1>1, <1>2, TurnsStep, PTL DEF ClSpec

-----------------------------------------------------------------------------
(* Checklists: the trees.  Each tree belongs to the slot of the request    *)
(* that committed it, and no two of them to the same: when the next        *)
(* request of that slot deletes the nodes it finds, that tree is there.    *)

BelongTo(f) ==
    /\ f \in [trees -> Visits]
    /\ \A s, t \in trees : f[s] = f[t] => s = t
    /\ \A t \in trees :
        visit[f[t]].stage = "saving" /\ visit[f[t]].inserted # {} => t \in visit[f[t]].seen

TreesInvariant == ChecklistInvariant /\ \E f : BelongTo(f)

(* Trees that are gone belong to nobody.                                   *)
LEMMA FewerTrees ==
    ASSUME NEW f, BelongTo(f), trees' \subseteq trees,
           \A t \in trees' :
             visit'[f[t]].stage = "saving" /\ visit'[f[t]].inserted # {} => t \in visit'[f[t]].seen
    PROVE  \E g : BelongTo(g)'
<1>g. PICK g : g = [t \in trees' |-> f[t]]
  OBVIOUS
<1>1. g \in [trees' -> Visits] /\ \A t \in trees' : g[t] = f[t]
  BY <1>g DEF BelongTo
<1>2. BelongTo(g)'
  BY <1>1 DEF BelongTo
<1> QED BY <1>2

LEMMA TreesStep == TreesInvariant /\ [ClNext]_clvars => TreesInvariant'
<1> SUFFICES ASSUME TreesInvariant, [ClNext]_clvars PROVE \E g : BelongTo(g)'
  BY ChecklistStep DEF TreesInvariant
<1>i. ChecklistInvariant /\ DOMAIN visit = Visits
  BY DEF TreesInvariant, ChecklistInvariant
<1>f. PICK f : BelongTo(f)
  BY DEF TreesInvariant
<1>n. NoVisit.stage = "idle"
  BY DEF NoVisit
<1>1. ASSUME NEW u \in Editors, NEW status \in ChecklistStatus, NEW visibility \in ChecklistVisibility,
             NEW new \in SmallTrees, CreateChecklist(u, status, visibility, new)
      PROVE  \E g : BelongTo(g)'
  <2>1. /\ trees' = new /\ visit' = visit
        /\ \A r \in Visits : visit[r].stage = "idle"
        /\ \A s, t \in new : s = t
    BY <1>1, <1>i, <1>n DEF CreateChecklist, ChecklistInvariant, SmallTrees
  <2>2. PICK r \in Visits : TRUE
    BY ChecklistAssumption
  <2> DEFINE g == [t \in new |-> r]
  <2>3. BelongTo(g)'
    BY <2>1, <2>2 DEF BelongTo
  <2> QED BY <2>3
<1>2. ASSUME NEW r \in Visits, NEW v, Go(r, v),
             v.stage = "saving" /\ v.inserted # {} => trees \subseteq v.seen
      PROVE  \E g : BelongTo(g)'
  <2>1. trees' = trees /\ visit' = [visit EXCEPT ![r] = v]
    BY <1>2 DEF Go
  <2>2. \A t \in trees' :
          visit'[f[t]].stage = "saving" /\ visit'[f[t]].inserted # {} => t \in visit'[f[t]].seen
    BY <1>2, <1>f, <1>i, <2>1 DEF BelongTo
  <2> QED BY <1>f, <2>1, <2>2, FewerTrees
<1>3. ASSUME NEW r \in Visits, LoadChecklist(r) PROVE \E g : BelongTo(g)'
  <2> DEFINE v == [stage |-> "loaded", row |-> checklist]
  <2>1. Go(r, v) /\ v.stage = "loaded"
    BY <1>3 DEF LoadChecklist
  <2> HIDE DEF v
  <2> QED BY <1>2, <2>1
<1>4. ASSUME NEW r \in Visits, NEW u \in Editors, NEW patch \in ChecklistPatches,
             NEW replace \in BOOLEAN, NEW tree \in SmallTrees,
             UpdateChecklist(r, u, patch, replace, tree)
      PROVE  \E g : BelongTo(g)'
  <2> DEFINE seen == IF replace THEN trees ELSE {}
             v == Saving(u, visit[r].row, patch, seen, tree)
  <2>1. Go(r, v) /\ (tree # {} => replace)
    BY <1>4 DEF UpdateChecklist
  <2>2. v.inserted = tree /\ v.seen = seen
    BY DEF Saving
  <2> HIDE DEF v
  <2> QED BY <1>2, <2>1, <2>2
<1>5. ASSUME NEW r \in Visits, NEW u \in Editors, NEW status \in ChecklistStatus, SetStatus(r, u, status)
      PROVE  \E g : BelongTo(g)'
  <2> DEFINE v == Saving(u, visit[r].row, [status |-> status], {}, {})
  <2>1. Go(r, v) /\ v.inserted = {}
    BY <1>5 DEF SetStatus, Saving
  <2> HIDE DEF v
  <2> QED BY <1>2, <2>1
<1>6. ASSUME NEW r \in Visits, DeleteChecklist(r) PROVE \E g : BelongTo(g)'
  <2>1. trees' = {}
    BY <1>6 DEF DeleteChecklist
  <2> QED BY <1>f, <2>1, FewerTrees
<1>7. ASSUME NEW r \in Visits, CommitSave(r) PROVE \E g : BelongTo(g)'
  <2> DEFINE new == visit[r].inserted
             old == trees \ visit[r].seen
  <2>1. /\ visit[r].stage = "saving" /\ trees' = old \cup new
        /\ visit' = [visit EXCEPT ![r] = NoVisit]
    BY <1>7 DEF CommitSave
  <2>2. CASE new = {}
    <3>1. \A t \in trees' :
            visit'[f[t]].stage = "saving" /\ visit'[f[t]].inserted # {} => t \in visit'[f[t]].seen
      BY <1>f, <1>i, <1>n, <2>1, <2>2 DEF BelongTo
    <3> QED BY <1>f, <2>1, <2>2, <3>1, FewerTrees
  <2>3. CASE new # {}
    <3>1. PICK x \in Trees : new = {x}
      BY <2>1, <2>3, <1>i DEF ChecklistInvariant, SavingOK, SmallTrees
    <3>2. \A t \in old : f[t] # r /\ f[t] \in Visits
      BY <1>f, <2>1, <2>3 DEF BelongTo
    <3>g. PICK g : g = [t \in trees' |-> IF t = x THEN r ELSE f[t]]
      OBVIOUS
    <3>3. /\ DOMAIN g = trees' /\ g[x] = r /\ x \in trees'
          /\ \A t \in trees' : t # x => t \in old /\ g[t] = f[t]
      BY <2>1, <3>1, <3>g
    <3>4. g \in [trees' -> Visits]
      BY <3>2, <3>3, <3>g
    <3>5. \A s, t \in trees' : g[s] = g[t] => s = t
      BY <1>f, <3>2, <3>3 DEF BelongTo
    <3>6. \A t \in trees' :
            visit'[g[t]].stage = "saving" /\ visit'[g[t]].inserted # {} => t \in visit'[g[t]].seen
      BY <1>f, <1>i, <1>n, <2>1, <3>2, <3>3 DEF BelongTo
    <3>7. BelongTo(g)'
      BY <3>4, <3>5, <3>6 DEF BelongTo
    <3> QED BY <3>7
  <2> QED BY <2>2, <2>3
<1>8. ASSUME NEW r \in Visits, StartRun(r) PROVE \E g : BelongTo(g)'
  <2> DEFINE v == [stage |-> "starting", row |-> visit[r].row]
  <2>1. Go(r, v) /\ v.stage = "starting"
    BY <1>8 DEF StartRun
  <2> HIDE DEF v
  <2> QED BY <1>2, <2>1
<1>9. ASSUME NEW r \in Visits, IncrementRuns(r) PROVE \E g : BelongTo(g)'
  <2>1. trees' = trees /\ visit' = [visit EXCEPT ![r] = NoVisit]
    BY <1>9 DEF IncrementRuns
  <2>2. \A t \in trees' :
          visit'[f[t]].stage = "saving" /\ visit'[f[t]].inserted # {} => t \in visit'[f[t]].seen
    BY <1>f, <1>i, <1>n, <2>1 DEF BelongTo
  <2> QED BY <1>f, <2>1, <2>2, FewerTrees
<1>10. ASSUME NEW r \in Visits, Leave(r) PROVE \E g : BelongTo(g)'
  BY <1>2, <1>10, <1>n DEF Leave
<1>11. CASE UNCHANGED clvars
  <2>1. BelongTo(f)'
    BY <1>11, <1>f DEF clvars, BelongTo
  <2> QED BY <2>1
<1> QED BY <1>1, <1>3, <1>4, <1>5, <1>6, <1>7, <1>8, <1>9, <1>10, <1>11 DEF ClNext

LEMMA TreesStart == ClInit => TreesInvariant
<1> SUFFICES ASSUME ClInit PROVE \E f : BelongTo(f)
  BY ChecklistStart DEF TreesInvariant
<1> DEFINE f == [t \in {} |-> t]
<1>1. BelongTo(f)
  BY DEF ClInit, BelongTo
<1> QED BY <1>1

(* Checklists: saves that overlap leave at most one tree for each slot.    *)
THEOREM OneTreePerRequest == ClSpec => []TreesArePerRequest
<1>1. TreesInvariant => TreesArePerRequest
  <2> SUFFICES ASSUME TreesInvariant PROVE TreesArePerRequest
    OBVIOUS
  <2>1. PICK f : BelongTo(f)
    BY DEF TreesInvariant
  <2>2. trees \subseteq Trees
    BY DEF TreesInvariant, ChecklistInvariant
  <2>3. IsFiniteSet(trees) /\ IsFiniteSet(Visits)
    BY <2>2, ChecklistAssumption, FS_Subset
  <2>4. Cardinality(trees) \in Nat /\ Cardinality(Visits) \in Nat
    BY <2>3, FS_CardinalityType
  <2>5. f \in [trees -> Visits] /\ \A s, t \in trees : f[s] = f[t] => s = t
    BY <2>1 DEF BelongTo
  <2>6. ~(Cardinality(Visits) < Cardinality(trees))
    BY <2>3, <2>5, FS_PigeonHole
  <2> QED BY <2>4, <2>6 DEF TreesArePerRequest
<1> QED BY <1>1, TreesStart, TreesStep, PTL DEF ClSpec
=============================================================================
