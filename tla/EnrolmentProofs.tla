-------------------------- MODULE EnrolmentProofs --------------------------
(***************************************************************************)
(* Proofs about what is inserted under a unique constraint: registrations  *)
(* (Registration) and the assignments of a course (Courses), for any       *)
(* number of requests, organizations, addresses and users; that waiting    *)
(* for a transaction is never mutual among registrations; and that the     *)
(* assignments implement CourseRoster.                                     *)
(***************************************************************************)
EXTENDS Registration, Courses, UnitOfWorkProofs, TLAPS

-----------------------------------------------------------------------------
(* Registration: types.                                                    *)

LEMMA KeysCompared ==
    ASSUME NEW f, NEW g
    PROVE  /\ SameKey(f, g, "tariffs")
           /\ SameKey(f, g, "organizations") <=> form[f].inn = form[g].inn
           /\ SameKey(f, g, "users") <=> form[f].email = form[g].email
BY Zenon DEF SameKey

LEMMA FormTyped ==
    ASSUME NEW kind \in {"register", "hire"}, NEW inn \in Inns \cup Forms, NEW email \in Emails,
           NEW tariff \in Forms
    PROVE  Form(kind, inn, email, tariff) \in Filled
BY DEF Form, Filled

LEMMA FailedTyped == Failed \in {NoForm, Failed} \cup Filled
OBVIOUS

LEMMA WritingFilled ==
    ASSUME GTypeOK, NEW f \in Forms, form[f].stage \in {"writing", "committed"}
    PROVE  form[f] \in Filled
BY DEF GTypeOK, NoForm, Failed

LEMMA FormsStep == GTypeOK /\ [GNext]_form => GTypeOK'
<1> SUFFICES ASSUME GTypeOK, [GNext]_form PROVE GTypeOK'
  OBVIOUS
<1>1. ASSUME NEW f \in Forms, NEW inn \in Inns, NEW email \in Emails, Register(f, inn, email)
      PROVE  GTypeOK'
  <2>1. PICK tariff \in Forms : form' = [form EXCEPT ![f] = Form("register", inn, email, tariff)]
    BY <1>1 DEF Register, DefaultTariff, Committed
  <2>2. Form("register", inn, email, tariff) \in Filled
    BY FormTyped
  <2> QED BY <2>1, <2>2 DEF GTypeOK
<1>2. ASSUME NEW f \in Forms, NEW email \in Emails, Hire(f, email) PROVE GTypeOK'
  <2>1. Form("hire", f, email, f) \in Filled
    BY FormTyped
  <2> QED BY <1>2, <2>1 DEF Hire, GTypeOK
<1>3. ASSUME NEW f \in Forms, NEW table \in Tables, Insert(f, table) PROVE GTypeOK'
  <2>1. form[f] \in Filled
    BY <1>3, WritingFilled DEF Insert, Pending, Writing
  <2>2. [form[f] EXCEPT !.inserted = form[f].inserted \cup {table}] \in Filled
    BY <2>1 DEF Filled
  <2>3. form' = [form EXCEPT ![f] = [form[f] EXCEPT !.inserted = form[f].inserted \cup {table}]]
    BY <1>3 DEF Insert
  <2> QED BY <2>2, <2>3 DEF GTypeOK
<1>4. ASSUME NEW f \in Forms, Fail(f) PROVE GTypeOK'
  BY <1>4 DEF Fail, GTypeOK
<1>5. ASSUME NEW f \in Forms, CommitForm(f) PROVE GTypeOK'
  <2>1. form[f] \in Filled
    BY <1>5, WritingFilled DEF CommitForm, Writing
  <2>2. [form[f] EXCEPT !.stage = "committed"] \in Filled
    BY <2>1 DEF Filled
  <2>3. form' = [form EXCEPT ![f] = [form[f] EXCEPT !.stage = "committed"]]
    BY <1>5 DEF CommitForm
  <2> QED BY <2>2, <2>3 DEF GTypeOK
<1>6. CASE UNCHANGED form
  BY <1>6 DEF GTypeOK
<1> QED BY <1>1, <1>2, <1>3, <1>4, <1>5, <1>6 DEF GNext, Goes, Duplicate, Cancel

LEMMA FormsStart == GInit => GTypeOK
BY DEF GInit, GTypeOK

(* Registration: its type invariant.                                       *)
THEOREM FormsTyped == GSpec => []GTypeOK
BY FormsStart, FormsStep, PTL DEF GSpec

-----------------------------------------------------------------------------
(* Registration: the constraints.  No key is inserted twice by requests    *)
(* that have not failed; a tariff that a registration refers to is its own *)
(* or was committed.                                                       *)

Alive(f) == form[f].stage \in {"writing", "committed"}

KeysDiffer ==
    \A f, g \in Forms : Alive(f) /\ Alive(g) /\ f # g =>
        \A table \in form[f].inserted \cap form[g].inserted : ~SameKey(f, g, table)

Complete ==
    \A f \in Forms : form[f].stage = "committed" =>
        /\ "users" \in form[f].inserted
        /\ form[f].kind = "register" => "organizations" \in form[f].inserted
        /\ form[f].kind = "register" /\ form[f].tariff = f => "tariffs" \in form[f].inserted

HasTariff(f) ==
    \/ form[f].tariff = f
    \/ /\ form[form[f].tariff].stage = "committed"
       /\ "tariffs" \in form[form[f].tariff].inserted

RegistrationInvariant ==
    /\ GTypeOK
    /\ KeysDiffer
    /\ Complete
    /\ \A f \in Forms : Alive(f) /\ form[f].kind = "register" => HasTariff(f)

LEMMA RegistrationStep == RegistrationInvariant /\ [GNext]_form => RegistrationInvariant'
<1> SUFFICES ASSUME RegistrationInvariant, [GNext]_form PROVE RegistrationInvariant'
  OBVIOUS
<1>t. GTypeOK /\ GTypeOK' /\ DOMAIN form = Forms
  BY FormsStep DEF RegistrationInvariant, GTypeOK
<1>a. \A f \in Forms : Alive(f) => form[f].tariff \in Forms /\ form[f].inserted \subseteq Tables
  BY <1>t, WritingFilled DEF Alive, Filled
<1>k. ASSUME NEW g \in Forms, NEW h \in Forms, NEW t \in Tables,
             form'[g].inn = form[g].inn /\ form'[g].email = form[g].email,
             form'[h].inn = form[h].inn /\ form'[h].email = form[h].email,
             SameKey(g, h, t)'
      PROVE  SameKey(g, h, t)
  BY <1>k DEF SameKey, Tables
<1>1. ASSUME NEW f \in Forms, NEW x, form[f] = NoForm, form' = [form EXCEPT ![f] = x],
             x.stage = "writing", x.inserted = {},
             x.kind = "register" => x.tariff = f \/ x.tariff \in DefaultTariff
      PROVE  RegistrationInvariant'
  <2>1. ~Alive(f)
    BY <1>1 DEF Alive, NoForm
  <2>2. KeysDiffer'
    <3> SUFFICES ASSUME NEW g \in Forms, NEW h \in Forms, Alive(g)', Alive(h)', g # h,
                        NEW t \in form'[g].inserted \cap form'[h].inserted, SameKey(g, h, t)'
                 PROVE  FALSE
      BY DEF KeysDiffer
    <3>1. g # f /\ h # f
      BY <1>1, <1>t
    <3>2. form'[g] = form[g] /\ form'[h] = form[h] /\ Alive(g) /\ Alive(h)
      BY <1>1, <1>t, <3>1 DEF Alive
    <3> QED BY <1>a, <1>k, <3>2 DEF RegistrationInvariant, KeysDiffer
  <2>3. Complete'
    BY <1>1, <1>t, <2>1 DEF RegistrationInvariant, Complete, Alive
  <2>4. \A g \in Forms : Alive(g)' /\ form'[g].kind = "register" => HasTariff(g)'
    BY <1>1, <1>t, <1>a, <2>1 DEF RegistrationInvariant, HasTariff, Alive, DefaultTariff, Committed
  <2> QED BY <1>t, <2>2, <2>3, <2>4 DEF RegistrationInvariant
<1>2. ASSUME NEW f \in Forms, NEW inn \in Inns, NEW email \in Emails, Register(f, inn, email)
      PROVE  RegistrationInvariant'
  <2>1. PICK tariff \in IF DefaultTariff = {} THEN {f} ELSE DefaultTariff :
          form' = [form EXCEPT ![f] = Form("register", inn, email, tariff)]
    BY <1>2 DEF Register
  <2> DEFINE x == Form("register", inn, email, tariff)
  <2>2. x.stage = "writing" /\ x.inserted = {} /\ x.tariff = tariff
    BY DEF Form
  <2>3. form[f] = NoForm
    BY <1>2 DEF Register
  <2> HIDE DEF x
  <2> QED BY <1>1, <2>1, <2>2, <2>3 DEF x
<1>3. ASSUME NEW f \in Forms, NEW email \in Emails, Hire(f, email) PROVE RegistrationInvariant'
  <2> DEFINE x == Form("hire", f, email, f)
  <2>1. x.stage = "writing" /\ x.inserted = {} /\ x.kind = "hire"
    BY DEF Form
  <2>2. form[f] = NoForm /\ form' = [form EXCEPT ![f] = x]
    BY <1>3 DEF Hire
  <2> HIDE DEF x
  <2> QED BY <1>1, <2>1, <2>2
<1>4. ASSUME NEW f \in Forms, NEW table \in Tables, Insert(f, table) PROVE RegistrationInvariant'
  <2>1. /\ form[f].stage = "writing"
        /\ form' = [form EXCEPT ![f] = [form[f] EXCEPT !.inserted = form[f].inserted \cup {table}]]
        /\ Inserting(f, table) = {} /\ Inserted(f, table) = {}
    BY <1>4 DEF Insert, Pending, Writing
  <2>2. form[f] \in Filled
    BY <1>t, <2>1, WritingFilled
  <2>3. /\ form'[f].stage = "writing" /\ form'[f].kind = form[f].kind
        /\ form'[f].inn = form[f].inn /\ form'[f].email = form[f].email
        /\ form'[f].tariff = form[f].tariff
        /\ form'[f].inserted = form[f].inserted \cup {table}
    BY <1>t, <2>1, <2>2 DEF Filled
  <2>4. \A g \in Forms : g # f => form'[g] = form[g]
    BY <1>t, <2>1
  <2>5. ASSUME NEW g \in Forms, g # f, Alive(g), table \in form[g].inserted
        PROVE  ~SameKey(f, g, table) /\ ~SameKey(g, f, table)
    <3>1. ~SameKey(f, g, table)
      BY <2>1, <2>5 DEF Inserting, Inserted, Writing, Committed, Alive
    <3>2. SameKey(g, f, table) => SameKey(f, g, table)
      BY KeysCompared DEF Tables
    <3> QED BY <3>1, <3>2
  <2>6. \A g, h \in Forms, t \in Tables : SameKey(g, h, t)' => SameKey(g, h, t)
    BY <1>k, <2>3, <2>4
  <2>7. KeysDiffer'
    <3> SUFFICES ASSUME NEW g \in Forms, NEW h \in Forms, Alive(g)', Alive(h)', g # h,
                        NEW t \in form'[g].inserted \cap form'[h].inserted, SameKey(g, h, t)'
                 PROVE  FALSE
      BY DEF KeysDiffer
    <3>1. Alive(g) /\ Alive(h)
      BY <2>1, <2>3, <2>4 DEF Alive
    <3>2. t \in Tables
      BY <1>a, <2>3, <2>4, <3>1
    <3>3. SameKey(g, h, t)
      BY <2>6, <3>2
    <3>4. CASE t \in form[g].inserted /\ t \in form[h].inserted
      BY <3>1, <3>3, <3>4 DEF RegistrationInvariant, KeysDiffer
    <3>5. CASE g = f /\ t = table /\ t \in form[h].inserted
      BY <2>5, <3>1, <3>3, <3>5
    <3>6. CASE h = f /\ t = table /\ t \in form[g].inserted
      BY <2>5, <3>1, <3>3, <3>6
    <3> QED BY <2>3, <2>4, <3>4, <3>5, <3>6
  <2>8. Complete'
    BY <2>1, <2>3, <2>4 DEF RegistrationInvariant, Complete
  <2>9. \A g \in Forms : Alive(g)' /\ form'[g].kind = "register" => HasTariff(g)'
    BY <1>a, <2>1, <2>3, <2>4 DEF RegistrationInvariant, HasTariff, Alive
  <2> QED BY <1>t, <2>7, <2>8, <2>9 DEF RegistrationInvariant
<1>5. ASSUME NEW f \in Forms, form[f].stage = "writing", Fail(f) PROVE RegistrationInvariant'
  <2>1. /\ form' = [form EXCEPT ![f] = Failed] /\ Failed.stage = "failed"
    BY <1>5 DEF Fail, Failed
  <2>2. /\ \A g \in Forms : g # f => form'[g] = form[g]
        /\ form'[f].stage = "failed"
    BY <1>t, <2>1
  <2>3. KeysDiffer'
    BY <2>2 DEF RegistrationInvariant, KeysDiffer, Alive, SameKey
  <2>4. Complete'
    BY <2>2 DEF RegistrationInvariant, Complete
  <2>5. \A g \in Forms : Alive(g)' /\ form'[g].kind = "register" => HasTariff(g)'
    BY <1>a, <1>5, <2>2 DEF RegistrationInvariant, HasTariff, Alive
  <2> QED BY <1>t, <2>3, <2>4, <2>5 DEF RegistrationInvariant
<1>6. ASSUME NEW f \in Forms, CommitForm(f) PROVE RegistrationInvariant'
  <2>1. /\ form[f].stage = "writing" /\ "users" \in form[f].inserted
        /\ form' = [form EXCEPT ![f] = [form[f] EXCEPT !.stage = "committed"]]
        /\ \A table \in Tables : ~Pending(f, table)
    BY <1>6 DEF CommitForm, Writing
  <2>2. form[f] \in Filled
    BY <1>t, <2>1, WritingFilled
  <2>3. /\ form'[f].stage = "committed" /\ form'[f].kind = form[f].kind
        /\ form'[f].inn = form[f].inn /\ form'[f].email = form[f].email
        /\ form'[f].tariff = form[f].tariff /\ form'[f].inserted = form[f].inserted
    BY <1>t, <2>1, <2>2 DEF Filled
  <2>4. \A g \in Forms : g # f => form'[g] = form[g]
    BY <1>t, <2>1
  <2>5. \A table \in Tables : table \notin form[f].inserted => ~Inserts(f, table)
    BY <2>1 DEF Pending, Writing
  <2>6. /\ form[f].kind = "register" /\ form[f].tariff = f => Inserts(f, "tariffs")
        /\ form[f].kind = "register" /\ (form[f].tariff = f => "tariffs" \in form[f].inserted) =>
                Inserts(f, "organizations")
    BY Zenon DEF Inserts
  <2>7. /\ form[f].kind = "register" /\ form[f].tariff = f => "tariffs" \in form[f].inserted
        /\ form[f].kind = "register" => "organizations" \in form[f].inserted
    BY <2>5, <2>6 DEF Tables
  <2>8. \A g, h \in Forms, t \in Tables : SameKey(g, h, t)' => SameKey(g, h, t)
    BY <1>k, <2>3, <2>4
  <2>9. \A g \in Forms : Alive(g)' => Alive(g) /\ form'[g].inserted = form[g].inserted
    BY <2>1, <2>3, <2>4 DEF Alive
  <2>10. KeysDiffer'
    BY <1>a, <2>8, <2>9 DEF RegistrationInvariant, KeysDiffer
  <2>11. Complete'
    BY <2>1, <2>3, <2>4, <2>7 DEF RegistrationInvariant, Complete
  <2>12. \A g \in Forms : Alive(g)' /\ form'[g].kind = "register" => HasTariff(g)'
    BY <1>a, <2>1, <2>3, <2>4 DEF RegistrationInvariant, HasTariff, Alive
  <2> QED BY <1>t, <2>10, <2>11, <2>12 DEF RegistrationInvariant
<1>7. CASE UNCHANGED form
  <2>1. \A f \in Forms : Alive(f)' = Alive(f) /\ HasTariff(f)' = HasTariff(f)
    BY <1>7 DEF Alive, HasTariff
  <2>2. \A g, h \in Forms, t \in Tables : SameKey(g, h, t)' => SameKey(g, h, t)
    BY <1>7, <1>k
  <2>3. KeysDiffer'
    BY <1>7, <1>a, <2>1, <2>2 DEF RegistrationInvariant, KeysDiffer, Alive
  <2>4. Complete'
    BY <1>7 DEF RegistrationInvariant, Complete
  <2> QED BY <1>7, <1>t, <2>1, <2>3, <2>4 DEF RegistrationInvariant, Alive, HasTariff
<1>8. ASSUME NEW f \in Forms, Cancel(f) PROVE RegistrationInvariant'
  BY <1>5, <1>8 DEF Cancel, Writing
<1>9. ASSUME NEW f \in Forms, NEW table \in Tables, Duplicate(f, table) PROVE RegistrationInvariant'
  BY <1>5, <1>9 DEF Duplicate, Pending, Writing
<1> QED BY <1>2, <1>3, <1>4, <1>6, <1>7, <1>8, <1>9 DEF GNext, Goes

LEMMA RegistrationStart == GInit => RegistrationInvariant
<1> SUFFICES ASSUME GInit PROVE RegistrationInvariant
  OBVIOUS
<1>1. \A f \in Forms : form[f].stage = "none"
  BY DEF GInit, NoForm
<1> QED BY <1>1, FormsStart DEF RegistrationInvariant, KeysDiffer, Complete, Alive

(* Registration: one organization of an INN, one user of an email, one     *)
(* default tariff, and every subscription refers to it.                    *)
THEOREM RegistrationsKept == GSpec => []RegistrationsFit
<1>1. GSpec => []RegistrationInvariant
  BY RegistrationStart, RegistrationStep, PTL DEF GSpec
<1>2. RegistrationInvariant => RegistrationsFit
  <2> SUFFICES ASSUME RegistrationInvariant, NEW f \in Committed, NEW g \in Committed
               PROVE  /\ f # g => form[f].email # form[g].email
                      /\ form[f].kind = "register" /\ form[g].kind = "register" =>
                           /\ f # g => form[f].inn # form[g].inn
                           /\ form[f].tariff = form[g].tariff
                           /\ form[f].tariff \in Committed
    BY DEF RegistrationsFit
  <2>1. /\ f \in Forms /\ form[f].stage = "committed" /\ Alive(f) /\ f \in Forms
        /\ g \in Forms /\ form[g].stage = "committed" /\ Alive(g)
    BY DEF Committed, Alive
  <2>2. \A h, k \in Forms : \A table \in form[h].inserted \cap form[k].inserted :
          Alive(h) /\ Alive(k) /\ SameKey(h, k, table) => h = k
    BY DEF RegistrationInvariant, KeysDiffer
  <2>3. form[f].email = form[g].email => f = g
    BY <2>1, <2>2, KeysCompared DEF RegistrationInvariant, Complete
  <2>4. form[f].kind = "register" /\ form[g].kind = "register" /\ form[f].inn = form[g].inn => f = g
    BY <2>1, <2>2, KeysCompared DEF RegistrationInvariant, Complete
  <2>5. ASSUME NEW h \in Forms, form[h].stage = "committed", form[h].kind = "register"
        PROVE  /\ form[h].tariff \in Forms
               /\ form[form[h].tariff].stage = "committed"
               /\ "tariffs" \in form[form[h].tariff].inserted
    <3>1. form[h].tariff \in Forms /\ Alive(h)
      BY <2>5, WritingFilled DEF RegistrationInvariant, Filled, Alive
    <3> QED BY <2>5, <3>1 DEF RegistrationInvariant, HasTariff, Complete
  <2>6. ASSUME form[f].kind = "register", form[g].kind = "register"
        PROVE  form[f].tariff = form[g].tariff /\ form[f].tariff \in Committed
    BY <2>1, <2>2, <2>5, <2>6, KeysCompared DEF Alive, Committed
  <2> QED BY <2>3, <2>4, <2>6
<1> QED BY <1>1, <1>2, PTL

-----------------------------------------------------------------------------
(* Registration: waiting.  A request that has inserted into a table has    *)
(* nothing left to insert into the tables before it.                       *)

InOrder ==
    \A f \in Writing :
        /\ "organizations" \in form[f].inserted =>
              form[f].kind = "register" /\ ~Pending(f, "tariffs")
        /\ "users" \in form[f].inserted => ~Pending(f, "tariffs") /\ ~Pending(f, "organizations")

(* An insert follows the order of the tables.                              *)
LEMMA InsertInOrder ==
    ASSUME GTypeOK, InOrder, NEW f \in Forms, NEW table \in Tables, Insert(f, table)
    PROVE  InOrder'
<1>1. /\ f \in Writing
      /\ \A g \in Forms : form'[g] = IF g = f
                                       THEN [form[f] EXCEPT !.inserted = form[f].inserted \cup {table}]
                                       ELSE form[g]
  BY DEF Insert, Pending, Writing, GTypeOK
<1>2. form[f] \in Filled
  BY <1>1, WritingFilled DEF Writing
<1>3. /\ form'[f].kind = form[f].kind /\ form'[f].tariff = form[f].tariff
      /\ form'[f].inserted = form[f].inserted \cup {table}
      /\ form'[f].stage = form[f].stage
  BY <1>1, <1>2 DEF Filled
<1>4. Writing' = Writing
  BY <1>1, <1>3 DEF Writing
<1>5. ASSUME NEW g \in Writing, g # f
      PROVE  /\ form'[g] = form[g]
             /\ \A t \in Tables : Pending(g, t)' <=> Pending(g, t)
  BY <1>1, <1>4, <1>5 DEF Pending, Inserts, Writing, Tables
<1>6. /\ Pending(f, "tariffs") <=>
            /\ form[f].kind = "register" /\ form[f].tariff = f
            /\ "tariffs" \notin form[f].inserted
      /\ Pending(f, "tariffs")' <=>
            /\ form'[f].kind = "register" /\ form'[f].tariff = f
            /\ "tariffs" \notin form'[f].inserted
      /\ Pending(f, "organizations") <=>
            /\ form[f].kind = "register"
            /\ form[f].tariff = f => "tariffs" \in form[f].inserted
            /\ "organizations" \notin form[f].inserted
      /\ Pending(f, "organizations")' <=>
            /\ form'[f].kind = "register"
            /\ form'[f].tariff = f => "tariffs" \in form'[f].inserted
            /\ "organizations" \notin form'[f].inserted
      /\ Pending(f, "users") <=>
            /\ form[f].kind = "register" => "organizations" \in form[f].inserted
            /\ "users" \notin form[f].inserted
  BY <1>1, <1>4 DEF Pending, Inserts
<1>7. Pending(f, table)
  BY DEF Insert
<1>8. /\ "organizations" \in form'[f].inserted =>
            form'[f].kind = "register" /\ ~Pending(f, "tariffs")'
      /\ "users" \in form'[f].inserted =>
            ~Pending(f, "tariffs")' /\ ~Pending(f, "organizations")'
  <2>1. table \in {"tariffs", "organizations", "users"}
    BY DEF Tables
  <2> QED BY <1>1, <1>3, <1>6, <1>7, <2>1 DEF InOrder
<1>9. \A g \in Writing : g # f =>
        /\ "organizations" \in form'[g].inserted =>
              form'[g].kind = "register" /\ ~Pending(g, "tariffs")'
        /\ "users" \in form'[g].inserted =>
              ~Pending(g, "tariffs")' /\ ~Pending(g, "organizations")'
  BY <1>5 DEF InOrder, Tables
<1> QED BY <1>4, <1>8, <1>9 DEF InOrder

(* A request that ends, or has inserted nothing.                           *)
LEMMA OthersInOrder ==
    ASSUME GTypeOK, InOrder, NEW f \in Forms, NEW x, form' = [form EXCEPT ![f] = x],
           x.stage # "writing" \/ x.inserted = {}
    PROVE  InOrder'
<1>1. \A g \in Forms : form'[g] = IF g = f THEN x ELSE form[g]
  BY DEF GTypeOK
<1>2. \A g \in Writing' : g # f => g \in Writing
  BY <1>1 DEF Writing
<1>3. ASSUME NEW g \in Writing', g # f
      PROVE  \A t \in Tables : Pending(g, t)' <=> Pending(g, t)
  BY <1>1, <1>2, <1>3 DEF Pending, Inserts, Tables, Writing
<1>4. f \in Writing' => form'[f].inserted = {}
  BY <1>1 DEF Writing
<1> SUFFICES ASSUME NEW g \in Writing'
             PROVE  /\ "organizations" \in form'[g].inserted =>
                          form'[g].kind = "register" /\ ~Pending(g, "tariffs")'
                    /\ "users" \in form'[g].inserted =>
                          ~Pending(g, "tariffs")' /\ ~Pending(g, "organizations")'
  BY DEF InOrder
<1>5. CASE g = f
  BY <1>4, <1>5
<1>6. CASE g # f
  <2>1. g \in Writing /\ form'[g] = form[g]
    BY <1>1, <1>2, <1>6 DEF Writing
  <2> QED BY <1>3, <1>6, <2>1 DEF InOrder, Tables
<1> QED BY <1>5, <1>6

LEMMA OrderStep == GTypeOK /\ InOrder /\ [GNext]_form => InOrder'
<1> SUFFICES ASSUME GTypeOK, InOrder, [GNext]_form PROVE InOrder'
  OBVIOUS
<1>1. ASSUME NEW f \in Forms, NEW inn \in Inns, NEW email \in Emails, Register(f, inn, email)
      PROVE  InOrder'
  BY <1>1, OthersInOrder DEF Register, Form
<1>2. ASSUME NEW f \in Forms, NEW email \in Emails, Hire(f, email) PROVE InOrder'
  BY <1>2, OthersInOrder DEF Hire, Form
<1>3. ASSUME NEW f \in Forms, NEW table \in Tables, Insert(f, table) PROVE InOrder'
  BY <1>3, InsertInOrder
<1>4. ASSUME NEW f \in Forms, Fail(f) PROVE InOrder'
  BY <1>4, OthersInOrder DEF Fail, Failed
<1>5. ASSUME NEW f \in Forms, CommitForm(f) PROVE InOrder'
  <2>1. form[f] \in Filled
    BY <1>5, WritingFilled DEF CommitForm, Writing
  <2> DEFINE x == [form[f] EXCEPT !.stage = "committed"]
  <2>2. x.stage = "committed"
    BY <2>1 DEF Filled
  <2>3. form' = [form EXCEPT ![f] = x]
    BY <1>5 DEF CommitForm
  <2> HIDE DEF x
  <2> QED BY <2>2, <2>3, OthersInOrder
<1>6. CASE UNCHANGED form
  BY <1>6 DEF InOrder, Writing, Pending, Inserts
<1> QED BY <1>1, <1>2, <1>3, <1>4, <1>5, <1>6 DEF GNext, Goes, Duplicate, Cancel

(* A circle can neither hold somebody who waits for a user, nor, without   *)
(* such a one, somebody who waits for an organization, nor, without both,  *)
(* somebody who waits for the tariff.                                      *)
LEMMA NoCircle ==
    ASSUME InOrder, NEW circle \in SUBSET Forms,
           \A f \in circle : \E g \in circle : Behind(f, g)
    PROVE  circle = {}
<1>1. ASSUME NEW f \in circle
      PROVE  \E g \in circle, table \in Tables :
                /\ Pending(f, table) /\ table \notin form[f].inserted
                /\ g \in Writing /\ table \in form[g].inserted
  BY <1>1 DEF Behind, Inserting, Pending
<1>2. \A f \in circle : \E g \in circle, table \in {"tariffs", "organizations"} :
            /\ Pending(f, table) /\ g \in Writing /\ table \in form[g].inserted
  <2> SUFFICES ASSUME NEW g \in circle, g \in Writing, "users" \in form[g].inserted
               PROVE  FALSE
    BY <1>1 DEF Tables
  <2>1. \A table \in Tables : ~Pending(g, table)
    BY DEF InOrder, Tables, Pending
  <2> QED BY <1>1, <2>1
<1>3. \A f \in circle : \E g \in circle :
            /\ Pending(f, "tariffs") /\ g \in Writing /\ "tariffs" \in form[g].inserted
  <2> SUFFICES ASSUME NEW g \in circle, g \in Writing, "organizations" \in form[g].inserted
               PROVE  FALSE
    BY <1>2
  <2>1. ~Pending(g, "tariffs") /\ ~Pending(g, "organizations")
    BY DEF InOrder, Pending
  <2> QED BY <1>2, <2>1
<1>4. \A g \in circle : "tariffs" \notin form[g].inserted
  BY <1>3 DEF Pending
<1> QED BY <1>3, <1>4

(* A request that has nothing left to insert has inserted its user.        *)
LEMMA EndsWithUser ==
    ASSUME NEW f \in Writing, \A table \in Tables : ~Pending(f, table)
    PROVE  "users" \in form[f].inserted
BY DEF Pending, Inserts, Tables

(* Registration: requests never wait in a circle, and as long as any are   *)
(* under way one of them can go on.  This is why `register` and            *)
(* `create_user` need no deadlock detection, unlike assign_course.         *)
THEOREM NoWaitingInACircle == GSpec => []NobodyWaitsInACircle
<1>1. InOrder => NobodyWaitsInACircle
  <2> SUFFICES ASSUME InOrder PROVE NobodyWaitsInACircle
    OBVIOUS
  <2>1. \A circle \in (SUBSET Forms) \ {{}} : \E f \in circle : \A g \in circle : ~Behind(f, g)
    BY NoCircle
  <2>2. ASSUME Writing # {}, \A f \in Writing : ~MayGo(f) PROVE FALSE
    <3>1. ASSUME NEW f \in Writing PROVE \E g \in Writing : Behind(f, g)
      <4>1. PICK table \in Tables : Pending(f, table)
        BY <2>2, EndsWithUser DEF MayGo
      <4>2. Inserting(f, table) # {}
        BY <2>2, <4>1 DEF MayGo
      <4> QED BY <4>1, <4>2 DEF Behind, Inserting
    <3>2. Writing \in SUBSET Forms
      BY DEF Writing
    <3> QED BY <2>2, <3>1, <3>2, NoCircle
  <2> QED BY <2>1, <2>2 DEF NobodyWaitsInACircle
<1>2. GInit => InOrder
  BY DEF GInit, InOrder, Writing, NoForm
<1> QED BY <1>1, <1>2, OrderStep, FormsTyped, PTL DEF GSpec

-----------------------------------------------------------------------------
(* Courses: lists of users, and the rows of assignments.                   *)

LEMMA GivenSplit ==
    ASSUME NEW S, NEW users \in Seq(S), users # <<>>
    PROVE  /\ Head(users) \in S /\ Tail(users) \in Seq(S)
           /\ Given(users) = {Head(users)} \cup Given(Tail(users))
<1>1. Head(users) \in S /\ Tail(users) \in Seq(S) /\ Len(users) \in Nat \ {0}
  OBVIOUS
<1>2. /\ Head(users) = users[1] /\ Len(Tail(users)) = Len(users) - 1
      /\ \A i \in 1..(Len(users) - 1) : Tail(users)[i] = users[i + 1]
  OBVIOUS
<1>3. DOMAIN users = 1..Len(users) /\ DOMAIN Tail(users) = 1..(Len(users) - 1)
  BY <1>1, <1>2
<1>4. ASSUME NEW x \in Given(users) PROVE x \in {Head(users)} \cup Given(Tail(users))
  <2>1. PICK i \in 1..Len(users) : x = users[i]
    BY <1>3, <1>4 DEF Given
  <2>2. CASE i = 1
    BY <1>2, <2>1, <2>2
  <2>3. CASE i # 1
    <3>1. i - 1 \in 1..(Len(users) - 1) /\ users[(i - 1) + 1] = x
      BY <1>1, <2>1, <2>3
    <3>2. Tail(users)[i - 1] = x
      BY <1>2, <3>1
    <3> QED BY <1>3, <3>1, <3>2 DEF Given
  <2> QED BY <2>2, <2>3
<1>5. Given(Tail(users)) \subseteq Given(users)
  <2> SUFFICES ASSUME NEW i \in 1..(Len(users) - 1) PROVE Tail(users)[i] \in Given(users)
    BY <1>3 DEF Given
  <2>1. i + 1 \in 1..Len(users) /\ Tail(users)[i] = users[i + 1]
    BY <1>1, <1>2
  <2> QED BY <1>3, <2>1 DEF Given
<1>6. Head(users) \in Given(users)
  BY <1>1, <1>2, <1>3 DEF Given
<1> QED BY <1>1, <1>4, <1>5, <1>6

AssignmentRow ==
    [status : AssignmentStatus, progress_percent : 0..100, completed_at : BOOLEAN]

Dated(x) == x.status = "completed" => x.completed_at

LEMMA AssignmentsTold ==
    /\ \A x \in AssignmentRow : x # NotAssigned
    /\ NewAssignment \in AssignmentRow /\ Dated(NewAssignment) /\ NewAssignment # NotAssigned
    /\ NewAssignment.status = "assigned"
    /\ NotAssigned.status = "none"
<1>1. NewAssignment \in AssignmentRow /\ NewAssignment.status = "assigned"
  BY DEF NewAssignment, AssignmentRow, AssignmentStatus
<1>2. \A x \in AssignmentRow : x.status \in AssignmentStatus
  BY DEF AssignmentRow
<1>3. NotAssigned.status = "none" /\ "none" \notin AssignmentStatus
  BY DEF NotAssigned, AssignmentStatus
<1> QED BY <1>1, <1>2, <1>3 DEF Dated

(* What a report writes, and that no completed row loses its date.         *)
LEMMA ProgressTyped ==
    ASSUME NEW seen \in AssignmentRow, NEW percent \in 0..100, NEW x \in AssignmentRow
    PROVE  /\ Apply(x, Progress(seen, percent)) \in AssignmentRow
           /\ Dated(x) => Dated(Apply(x, Progress(seen, percent)))
<1> DEFINE status == StatusAfter(seen, percent)
           asked == [status |-> status, progress_percent |-> percent]
           changed == Net(seen, asked)
           dated == [completed_at |-> TRUE]
           w == Progress(seen, percent)
           y == Apply(x, w)
<1>1. status \in AssignmentStatus
  BY DEF StatusAfter, AssignmentRow, AssignmentStatus
<1>2. DOMAIN asked = {"status", "progress_percent"} /\ asked["status"] = status
      /\ asked["progress_percent"] = percent
  OBVIOUS
<1>3. DOMAIN dated = {"completed_at"} /\ dated["completed_at"] = TRUE
  OBVIOUS
<1>4. w = IF status = "completed" THEN Then(changed, dated) ELSE changed
  BY DEF Progress
<1> HIDE DEF status, asked, dated
<1>5. /\ DOMAIN changed \subseteq {"status", "progress_percent"}
      /\ \A c \in DOMAIN changed : changed[c] = asked[c]
  BY <1>2, NetDomain
<1> HIDE DEF changed
<1>6. /\ DOMAIN Then(changed, dated) = DOMAIN changed \cup DOMAIN dated
      /\ \A c \in DOMAIN dated : Then(changed, dated)[c] = dated[c]
      /\ \A c \in DOMAIN changed \ DOMAIN dated : Then(changed, dated)[c] = changed[c]
  BY ThenDomain
<1> HIDE DEF w
<1>7. /\ DOMAIN w \subseteq {"status", "progress_percent", "completed_at"}
      /\ "status" \in DOMAIN w => w["status"] = status
      /\ "progress_percent" \in DOMAIN w => w["progress_percent"] = percent
      /\ "completed_at" \in DOMAIN w => w["completed_at"] = TRUE
      /\ status = "completed" => "completed_at" \in DOMAIN w
  BY <1>2, <1>3, <1>4, <1>5, <1>6
<1>8. /\ y \in AssignmentRow
      /\ y.status = IF "status" \in DOMAIN w THEN w["status"] ELSE x.status
      /\ y.completed_at = IF "completed_at" \in DOMAIN w THEN w["completed_at"] ELSE x.completed_at
  BY <1>1, <1>7 DEF AssignmentRow, Apply
<1> HIDE DEF y
<1>9. Dated(x) => Dated(y)
  BY <1>7, <1>8 DEF Dated
<1> QED BY <1>8, <1>9 DEF y, w

(* A report that finds the row as it read it leaves the progress it was    *)
(* given, and calls it complete at 0 or 100 only.                          *)
LEMMA ProgressUndisturbed ==
    ASSUME NEW seen \in AssignmentRow, NEW percent \in 0..100,
           Apply(seen, Progress(seen, percent)).status = "completed"
    PROVE  Apply(seen, Progress(seen, percent)).progress_percent \in {0, 100}
<1> DEFINE status == StatusAfter(seen, percent)
           asked == [status |-> status, progress_percent |-> percent]
           changed == Net(seen, asked)
           dated == [completed_at |-> TRUE]
           w == Progress(seen, percent)
           y == Apply(seen, w)
<1>1. status = "completed" => percent \in {0, 100}
  BY DEF StatusAfter
<1>2. DOMAIN asked = {"status", "progress_percent"} /\ asked["status"] = status
      /\ asked["progress_percent"] = percent
  OBVIOUS
<1>3. DOMAIN dated = {"completed_at"}
  OBVIOUS
<1>4. w = IF status = "completed" THEN Then(changed, dated) ELSE changed
  BY DEF Progress
<1> HIDE DEF status, asked, dated
<1>5. /\ DOMAIN changed = {c \in DOMAIN asked : asked[c] # seen[c]}
      /\ \A c \in DOMAIN changed : changed[c] = asked[c]
  BY DEF Net, Changed
<1> HIDE DEF changed
<1>6. /\ DOMAIN Then(changed, dated) = DOMAIN changed \cup DOMAIN dated
      /\ \A c \in DOMAIN changed \ DOMAIN dated : Then(changed, dated)[c] = changed[c]
  BY ThenDomain
<1> HIDE DEF w
<1>7. /\ "status" \in DOMAIN w => w["status"] = status
      /\ "status" \notin DOMAIN w => seen["status"] = status
      /\ "progress_percent" \in DOMAIN w => w["progress_percent"] = percent
      /\ "progress_percent" \notin DOMAIN w => seen["progress_percent"] = percent
  BY <1>2, <1>3, <1>4, <1>5, <1>6
<1>8. y.status = status /\ y.progress_percent = percent
  BY <1>7 DEF AssignmentRow, Apply
<1> QED BY <1>1, <1>8 DEF y, w

-----------------------------------------------------------------------------
(* Courses: the invariant.  A batch that goes on has, of the users it was  *)
(* given, inserted some, is still to look at some, and has found that the  *)
(* others have the course.                                                 *)

Having == {u \in Learners : Assigned(u)}

BatchOK(b, having) ==
    /\ b.left \in Seq(Learners)
    /\ b.given \subseteq Learners
    /\ b.added \subseteq b.given
    /\ Given(b.left) \subseteq b.given
    /\ b.given \subseteq b.added \cup Given(b.left) \cup having
    /\ b.stage = "inserting" => b.left # <<>>

CourseInvariant ==
    /\ is_published \in BOOLEAN
    /\ DOMAIN assignment = Learners
    /\ \A u \in Learners :
        assignment[u] = NotAssigned \/ (assignment[u] \in AssignmentRow /\ Dated(assignment[u]))
    /\ DOMAIN batch = Batches
    /\ \A r \in Batches :
        /\ batch[r].stage \in {"idle", "looking", "inserting", "reporting"}
        /\ batch[r].stage \in {"looking", "inserting"} => BatchOK(batch[r], Having)
        /\ batch[r].stage = "reporting" =>
            /\ batch[r].user \in Learners /\ Assigned(batch[r].user)
            /\ batch[r].seen \in AssignmentRow
    /\ Having = answered

LEMMA StepKeeps ==
    ASSUME CourseInvariant, NEW r \in Batches, NEW b, Step(r, b),
           b.stage \in {"idle", "looking", "inserting", "reporting"},
           b.stage \in {"looking", "inserting"} => BatchOK(b, Having),
           b.stage = "reporting" =>
             b.user \in Learners /\ Assigned(b.user) /\ b.seen \in AssignmentRow
    PROVE  CourseInvariant'
<1>1. UNCHANGED <<is_published, assignment, answered>> /\ batch' = [batch EXCEPT ![r] = b]
  BY DEF Step
<1>2. Having' = Having /\ \A u : Assigned(u)' = Assigned(u)
  BY <1>1 DEF Having, Assigned
<1>3. \A s \in Batches :
        /\ batch'[s].stage \in {"idle", "looking", "inserting", "reporting"}
        /\ batch'[s].stage \in {"looking", "inserting"} => BatchOK(batch'[s], Having)
        /\ batch'[s].stage = "reporting" =>
            /\ batch'[s].user \in Learners /\ Assigned(batch'[s].user)
            /\ batch'[s].seen \in AssignmentRow
  BY <1>1 DEF CourseInvariant
<1> QED BY <1>1, <1>2, <1>3 DEF CourseInvariant, Assigned

LEMMA MoreHaving ==
    ASSUME NEW b, NEW having, NEW more, having \subseteq more, BatchOK(b, having)
    PROVE  BatchOK(b, more)
BY DEF BatchOK

LEMMA CourseStep == CourseInvariant /\ [CoNext]_covars => CourseInvariant'
<1> SUFFICES ASSUME CourseInvariant, [CoNext]_covars PROVE CourseInvariant'
  OBVIOUS
<1>n. NoBatch.stage = "idle"
  BY DEF NoBatch
<1>b. \A stage, given, left, added :
        LET b == Batch(stage, given, left, added)
        IN  b.stage = stage /\ b.given = given /\ b.left = left /\ b.added = added
  BY DEF Batch
<1>1. ASSUME NEW published \in BOOLEAN, SetPublished(published) PROVE CourseInvariant'
  BY <1>1 DEF SetPublished, CourseInvariant, Having, Assigned
<1>2. ASSUME NEW r \in Batches, NEW users \in Lists, Assign(r, users) PROVE CourseInvariant'
  <2> DEFINE b == Batch("looking", Given(users), users, {})
  <2>1. Step(r, b)
    BY <1>2 DEF Assign
  <2>2. users \in Seq(Learners) /\ Given(users) \subseteq Learners
    <3>1. PICK u \in Learners, v \in Learners : users = <<u, v>>
      BY DEF Lists
    <3>2. users \in Seq(Learners)
      BY <3>1
    <3>3. \A i \in DOMAIN users : users[i] \in Learners
      BY <3>2
    <3> QED BY <3>2, <3>3 DEF Given
  <2>3. b.stage = "looking" /\ BatchOK(b, Having)
    BY <1>b, <2>2 DEF BatchOK
  <2> HIDE DEF b
  <2> QED BY <2>1, <2>3, StepKeeps
<1>3. ASSUME NEW r \in Batches, LookUp(r) PROVE CourseInvariant'
  <2> DEFINE b == batch[r]
             u == Head(b.left)
  <2>1. b.stage = "looking" /\ b.left # <<>> /\ BatchOK(b, Having)
    BY <1>3 DEF LookUp, CourseInvariant
  <2>2. u \in Learners /\ Tail(b.left) \in Seq(Learners) /\ Given(b.left) = {u} \cup Given(Tail(b.left))
    BY <2>1, GivenSplit DEF BatchOK
  <2>3. CASE Assigned(u) \/ u \in b.added
    <3> DEFINE c == Batch("looking", b.given, Tail(b.left), b.added)
    <3>1. Step(r, c)
      BY <1>3, <2>3 DEF LookUp
    <3>2. /\ c.stage = "looking" /\ c.given = b.given /\ c.left = Tail(b.left)
          /\ c.added = b.added
      BY <1>b
    <3>3. u \in b.added \cup Having
      BY <2>2, <2>3 DEF Having
    <3> HIDE DEF c, b, u
    <3>4. BatchOK(c, Having)
      BY <2>1, <2>2, <3>2, <3>3 DEF BatchOK
    <3> QED BY <3>1, <3>2, <3>4, StepKeeps
  <2>4. CASE ~(Assigned(u) \/ u \in b.added)
    <3> DEFINE c == Batch("inserting", b.given, b.left, b.added)
    <3>1. Step(r, c)
      BY <1>3, <2>4 DEF LookUp
    <3>2. c.stage = "inserting" /\ BatchOK(c, Having)
      BY <1>b, <2>1 DEF BatchOK
    <3> HIDE DEF c
    <3> QED BY <3>1, <3>2, StepKeeps
  <2> QED BY <2>3, <2>4
<1>4. ASSUME NEW r \in Batches, InsertAssignment(r) PROVE CourseInvariant'
  <2> DEFINE b == batch[r]
             u == Head(b.left)
             c == Batch("looking", b.given, Tail(b.left), b.added \cup {u})
  <2>1. Step(r, c) /\ b.stage = "inserting" /\ BatchOK(b, Having)
    BY <1>4 DEF InsertAssignment, CourseInvariant
  <2>2. u \in Learners /\ Tail(b.left) \in Seq(Learners) /\ Given(b.left) = {u} \cup Given(Tail(b.left))
    BY <2>1, GivenSplit DEF BatchOK
  <2>3. /\ c.stage = "looking" /\ c.given = b.given /\ c.left = Tail(b.left)
        /\ c.added = b.added \cup {u}
    BY <1>b
  <2> HIDE DEF c, b, u
  <2>4. BatchOK(c, Having)
    BY <2>1, <2>2, <2>3 DEF BatchOK
  <2> QED BY <2>1, <2>3, <2>4, StepKeeps
<1>5. ASSUME NEW r \in Batches, Step(r, NoBatch) PROVE CourseInvariant'
  BY <1>5, <1>n, StepKeeps
<1>6. ASSUME NEW r \in Batches, CommitBatch(r) PROVE CourseInvariant'
  <2> DEFINE b == batch[r]
  <2>1. /\ b.stage = "looking" /\ b.left = <<>> /\ BatchOK(b, Having)
        /\ assignment' = [u \in Learners |-> IF u \in b.added THEN NewAssignment ELSE assignment[u]]
        /\ answered' = answered \cup b.given
        /\ batch' = [batch EXCEPT ![r] = NoBatch] /\ is_published' = is_published
    BY <1>6 DEF CommitBatch, CourseInvariant
  <2>2. Given(b.left) = {}
    BY <2>1 DEF Given
  <2>3. b.added \subseteq b.given /\ b.given \subseteq Learners /\ b.given \subseteq b.added \cup Having
    BY <2>1, <2>2 DEF BatchOK
  <2>4. \A u \in Learners :
          /\ u \in b.added => assignment'[u] = NewAssignment
          /\ u \notin b.added => assignment'[u] = assignment[u]
    BY <2>1
  <2>5. Having' = Having \cup b.added
    BY <2>3, <2>4, AssignmentsTold DEF Having, Assigned
  <2>6. Having' = answered'
    BY <2>1, <2>3, <2>5 DEF CourseInvariant
  <2>7. \A u \in Learners :
          assignment'[u] = NotAssigned \/ (assignment'[u] \in AssignmentRow /\ Dated(assignment'[u]))
    BY <2>4, AssignmentsTold DEF CourseInvariant
  <2>8. \A s \in Batches : s # r => batch'[s] = batch[s]
    BY <2>1 DEF CourseInvariant
  <2>9. batch'[r].stage = "idle"
    BY <2>1, <1>n DEF CourseInvariant
  <2>10. \A u \in Learners : Assigned(u) => Assigned(u)'
    BY <2>5 DEF Having
  <2>11. \A s \in Batches :
          /\ batch'[s].stage \in {"idle", "looking", "inserting", "reporting"}
          /\ batch'[s].stage \in {"looking", "inserting"} => BatchOK(batch'[s], Having')
          /\ batch'[s].stage = "reporting" =>
              /\ batch'[s].user \in Learners /\ assignment'[batch'[s].user] # NotAssigned
              /\ batch'[s].seen \in AssignmentRow
    BY <2>5, <2>8, <2>9, <2>10, MoreHaving DEF CourseInvariant, Assigned
  <2>12. DOMAIN assignment' = Learners /\ DOMAIN batch' = Batches
    BY <2>1 DEF CourseInvariant
  <2> QED BY <2>1, <2>6, <2>7, <2>11, <2>12 DEF CourseInvariant, Assigned
<1>7. ASSUME NEW r \in Batches, NEW u \in Learners, LoadAssignment(r, u) PROVE CourseInvariant'
  <2> DEFINE b == [stage |-> "reporting", user |-> u, seen |-> assignment[u]]
  <2>1. Step(r, b) /\ Assigned(u) /\ assignment[u] \in AssignmentRow
    BY <1>7 DEF LoadAssignment, CourseInvariant, Assigned
  <2>2. b.stage = "reporting" /\ b.user = u /\ b.seen = assignment[u]
    OBVIOUS
  <2> HIDE DEF b
  <2> QED BY <2>1, <2>2, StepKeeps
<1>8. ASSUME NEW r \in Batches, NEW percent \in Percents, Report(r, percent) PROVE CourseInvariant'
  <2> DEFINE b == batch[r]
             x == assignment[b.user]
             y == Apply(x, Progress(b.seen, percent))
  <2>1. /\ b.stage = "reporting" /\ assignment' = [assignment EXCEPT ![b.user] = y]
        /\ batch' = [batch EXCEPT ![r] = NoBatch] /\ UNCHANGED <<is_published, answered>>
    BY <1>8 DEF Report
  <2>2. /\ b.user \in Learners /\ b.seen \in AssignmentRow
        /\ x \in AssignmentRow /\ Dated(x) /\ percent \in 0..100
    BY <2>1, CourseAssumption DEF CourseInvariant, Assigned
  <2>3. y \in AssignmentRow /\ Dated(y) /\ y # NotAssigned
    BY <2>2, ProgressTyped, AssignmentsTold
  <2> HIDE DEF y
  <2>4. /\ DOMAIN assignment' = Learners /\ DOMAIN batch' = Batches
        /\ \A u \in Learners : assignment'[u] = IF u = b.user THEN y ELSE assignment[u]
        /\ \A s \in Batches : batch'[s] = IF s = r THEN NoBatch ELSE batch[s]
    BY <2>1 DEF CourseInvariant
  <2>5. \A u \in Learners : assignment'[u] # NotAssigned <=> assignment[u] # NotAssigned
    BY <2>2, <2>3, <2>4, AssignmentsTold
  <2>6. Having' = Having
    BY <2>5 DEF Having, Assigned
  <2>7. \A u \in Learners :
          assignment'[u] = NotAssigned \/ (assignment'[u] \in AssignmentRow /\ Dated(assignment'[u]))
    BY <2>3, <2>4 DEF CourseInvariant
  <2>8. \A s \in Batches :
          /\ batch'[s].stage \in {"idle", "looking", "inserting", "reporting"}
          /\ batch'[s].stage \in {"looking", "inserting"} => BatchOK(batch'[s], Having')
          /\ batch'[s].stage = "reporting" =>
              /\ batch'[s].user \in Learners /\ assignment'[batch'[s].user] # NotAssigned
              /\ batch'[s].seen \in AssignmentRow
    BY <1>n, <2>4, <2>5, <2>6 DEF CourseInvariant, Assigned
  <2> QED BY <2>1, <2>4, <2>6, <2>7, <2>8 DEF CourseInvariant, Assigned
<1>9. CASE UNCHANGED covars
  BY <1>9 DEF covars, CourseInvariant, Having, Assigned
<1> QED BY <1>1, <1>2, <1>3, <1>4, <1>5, <1>6, <1>7, <1>8, <1>9
    DEF CoNext, DuplicateAssignment, Deadlock, Drop

LEMMA CourseStart == CoInit => CourseInvariant
BY DEF CoInit, CourseInvariant, Having, Assigned, NoBatch

LEMMA CourseKept == CoSpec => []CourseInvariant
BY CourseStart, CourseStep, PTL DEF CoSpec

(* Courses: its type invariant.                                            *)
THEOREM CoursesTyped == CoSpec => []CoTypeOK
<1>1. CourseInvariant => CoTypeOK
  BY DEF CourseInvariant, CoTypeOK, Having, Assigned, AssignmentRow
<1> QED BY <1>1, CourseKept, PTL

(* Courses: a batch gives the course to all of its users or to none.       *)
THEOREM BatchesWhole == CoSpec => []BatchesAreWhole
<1>1. CourseInvariant => BatchesAreWhole
  BY DEF CourseInvariant, BatchesAreWhole, Having
<1> QED BY <1>1, CourseKept, PTL

(* Courses: a completed assignment has a date, whatever reports overlap.   *)
THEOREM CompletionDated == CoSpec => []CompletedIsDated
<1>1. CourseInvariant => CompletedIsDated
  <2> SUFFICES ASSUME CourseInvariant, NEW u \in Learners, assignment[u].status = "completed"
               PROVE  assignment[u].completed_at
    BY DEF CompletedIsDated
  <2> QED BY AssignmentsTold DEF CourseInvariant, Dated
<1> QED BY <1>1, CourseKept, PTL

(* Courses: an assignment is called complete at a progress other than 100, *)
(* or 0, only by a report that has not seen the latest one.                *)
THEOREM CompletionComplete == CoSpec => CompletedIsComplete
<1>1. ASSUME CourseInvariant, CoNext, NEW u \in Learners,
             assignment'[u].status = "completed", assignment'[u].progress_percent \notin {0, 100},
             assignment'[u] # assignment[u]
      PROVE  \E r \in Batches :
               /\ batch[r].stage = "reporting" /\ batch'[r] = NoBatch
               /\ batch[r].user = u
               /\ batch[r].seen # assignment[u]
  <2>1. ASSUME NEW r \in Batches, CommitBatch(r) PROVE FALSE
    <3>1. assignment'[u] = NewAssignment
      BY <1>1, <2>1 DEF CommitBatch
    <3> QED BY <1>1, <3>1, AssignmentsTold
  <2>2. PICK r \in Batches, percent \in Percents : Report(r, percent)
    BY <1>1, <2>1 DEF CoNext, SetPublished, Assign, LookUp, InsertAssignment, DuplicateAssignment,
       Deadlock, Drop, LoadAssignment, Step
  <2>3. /\ batch[r].stage = "reporting" /\ batch'[r] = NoBatch
        /\ batch[r].user = u
        /\ assignment'[u] = Apply(assignment[u], Progress(batch[r].seen, percent))
    BY <1>1, <2>2 DEF Report, CourseInvariant
  <2>4. batch[r].seen \in AssignmentRow /\ percent \in 0..100
    BY <1>1, <2>3, CourseAssumption DEF CourseInvariant
  <2>5. batch[r].seen # assignment[u]
    BY <1>1, <2>3, <2>4, ProgressUndisturbed
  <2> QED BY <2>3, <2>5
<1>2. CourseInvariant /\ [CoNext]_covars =>
        [\A u \in Learners :
          assignment'[u].status = "completed" /\ assignment'[u].progress_percent \notin {0, 100} =>
            \/ assignment'[u] = assignment[u]
            \/ \E r \in Batches :
                /\ batch[r].stage = "reporting" /\ batch'[r] = NoBatch
                /\ batch[r].user = u
                /\ batch[r].seen # assignment[u]]_covars
  BY <1>1
<1> QED BY <1>2, CourseKept, PTL DEF CoSpec, CompletedIsComplete

-----------------------------------------------------------------------------
(* Courses: the roster.  What a batch has inserted and not committed,      *)
(* nobody has, and no other batch has inserted: the constraint.            *)

UnderWay == {r \in Batches : batch[r].stage \in {"looking", "inserting"}}

Fresh ==
    \A r \in UnderWay :
        /\ batch[r].added \cap Having = {}
        /\ \A s \in UnderWay \ {r} : batch[r].added \cap batch[s].added = {}

(* A request that has inserted nothing more than it had, or has ended.     *)
LEMMA FreshStays ==
    ASSUME CourseInvariant, Fresh, NEW r \in Batches, NEW b, batch' = [batch EXCEPT ![r] = b],
           UNCHANGED Having,
           b.stage \in {"looking", "inserting"} =>
             \/ b.added = {}
             \/ r \in UnderWay /\ b.added = batch[r].added
    PROVE  Fresh'
<1>1. \A s \in Batches : batch'[s] = IF s = r THEN b ELSE batch[s]
  BY DEF CourseInvariant
<1>2. \A s \in UnderWay' : batch'[s].added = {} \/ (s \in UnderWay /\ batch'[s].added = batch[s].added)
  BY <1>1 DEF UnderWay
<1> QED BY <1>2 DEF Fresh

LEMMA FreshStep == CourseInvariant /\ Fresh /\ [CoNext]_covars => Fresh'
<1> SUFFICES ASSUME CourseInvariant, Fresh, [CoNext]_covars PROVE Fresh'
  OBVIOUS
<1>n. NoBatch.stage = "idle"
  BY DEF NoBatch
<1>b. \A stage, given, left, added :
        LET b == Batch(stage, given, left, added)
        IN  b.stage = stage /\ b.given = given /\ b.left = left /\ b.added = added
  BY DEF Batch
<1>s. ASSUME NEW r \in Batches, NEW b, Step(r, b),
             b.stage \in {"looking", "inserting"} =>
               b.added = {} \/ (r \in UnderWay /\ b.added = batch[r].added)
      PROVE  Fresh'
  BY <1>s, FreshStays DEF Step, Having, Assigned
<1>1. ASSUME NEW published \in BOOLEAN, SetPublished(published) PROVE Fresh'
  BY <1>1 DEF SetPublished, Fresh, UnderWay, Having, Assigned
<1>2. ASSUME NEW r \in Batches, NEW users \in Lists, Assign(r, users) PROVE Fresh'
  <2> DEFINE b == Batch("looking", Given(users), users, {})
  <2>1. Step(r, b) /\ b.added = {}
    BY <1>2, <1>b DEF Assign
  <2> HIDE DEF b
  <2> QED BY <1>s, <2>1
<1>3. ASSUME NEW r \in Batches, LookUp(r) PROVE Fresh'
  <2>1. r \in UnderWay
    BY <1>3 DEF LookUp, UnderWay
  <2>2. \E stage, left : Step(r, Batch(stage, batch[r].given, left, batch[r].added))
    BY <1>3 DEF LookUp
  <2>3. PICK b : Step(r, b) /\ b.added = batch[r].added
    BY <1>b, <2>2
  <2> QED BY <1>s, <2>1, <2>3
<1>4. ASSUME NEW r \in Batches, InsertAssignment(r) PROVE Fresh'
  <2> DEFINE b == batch[r]
             u == Head(b.left)
             c == Batch("looking", b.given, Tail(b.left), b.added \cup {u})
  <2>1. Step(r, c) /\ b.stage = "inserting" /\ ~Assigned(u) /\ Inserters(r, u) = {}
    BY <1>4 DEF InsertAssignment
  <2>2. c.stage = "looking" /\ c.added = b.added \cup {u}
    BY <1>b
  <2>3. \A s \in UnderWay \ {r} : u \notin batch[s].added
    BY <2>1 DEF Inserters, UnderWay
  <2>4. u \notin Having /\ Having' = Having
    BY <2>1 DEF Having, Step, Assigned
  <2> HIDE DEF c, u
  <2>5. \A s \in Batches : batch'[s] = IF s = r THEN c ELSE batch[s]
    BY <2>1 DEF Step, CourseInvariant
  <2>6. UnderWay' = UnderWay /\ r \in UnderWay
    BY <2>1, <2>2, <2>5 DEF UnderWay
  <2>7. \A s \in UnderWay : batch'[s].added = IF s = r THEN b.added \cup {u} ELSE batch[s].added
    BY <2>2, <2>5 DEF UnderWay
  <2> HIDE DEF b
  <2>8. b.added = batch[r].added
    BY DEF b
  <2>9. \A s \in UnderWay :
          /\ batch'[s].added \cap Having = {}
          /\ \A t \in UnderWay \ {s} : batch'[s].added \cap batch'[t].added = {}
    BY <2>3, <2>4, <2>6, <2>7, <2>8 DEF Fresh
  <2> QED BY <2>4, <2>6, <2>9 DEF Fresh
<1>5. ASSUME NEW r \in Batches, Step(r, NoBatch) PROVE Fresh'
  BY <1>5, <1>n, <1>s
<1>6. ASSUME NEW r \in Batches, CommitBatch(r) PROVE Fresh'
  <2>1. /\ r \in UnderWay
        /\ assignment' = [u \in Learners |->
                            IF u \in batch[r].added THEN NewAssignment ELSE assignment[u]]
        /\ batch' = [batch EXCEPT ![r] = NoBatch]
    BY <1>6 DEF CommitBatch, UnderWay
  <2>2. \A u \in Learners : u \notin batch[r].added => assignment'[u] = assignment[u]
    BY <2>1
  <2>3. Having' \subseteq Having \cup batch[r].added
    BY <2>2 DEF Having, Assigned
  <2>4. \A s \in UnderWay' : s \in UnderWay \ {r} /\ batch'[s] = batch[s]
    BY <1>n, <2>1 DEF UnderWay, CourseInvariant
  <2> QED BY <2>1, <2>3, <2>4 DEF Fresh
<1>7. ASSUME NEW r \in Batches, NEW u \in Learners, LoadAssignment(r, u) PROVE Fresh'
  BY <1>7, <1>s DEF LoadAssignment
<1>8. ASSUME NEW r \in Batches, NEW percent \in Percents, Report(r, percent) PROVE Fresh'
  <2> DEFINE b == batch[r]
             y == Apply(assignment[b.user], Progress(b.seen, percent))
  <2>1. /\ b.stage = "reporting" /\ assignment' = [assignment EXCEPT ![b.user] = y]
        /\ batch' = [batch EXCEPT ![r] = NoBatch]
    BY <1>8 DEF Report
  <2>2. /\ b.user \in Learners /\ assignment[b.user] \in AssignmentRow
        /\ b.seen \in AssignmentRow /\ percent \in 0..100
    BY <2>1, CourseAssumption DEF CourseInvariant, Assigned
  <2>3. y # NotAssigned
    BY <2>2, ProgressTyped, AssignmentsTold
  <2> HIDE DEF y
  <2>4. \A u \in Learners : assignment'[u] # NotAssigned <=> assignment[u] # NotAssigned
    BY <2>1, <2>2, <2>3, AssignmentsTold DEF CourseInvariant
  <2>5. UNCHANGED Having
    BY <2>4 DEF Having, Assigned
  <2> QED BY <1>n, <2>1, <2>5, FreshStays
<1>9. CASE UNCHANGED covars
  BY <1>9 DEF covars, Fresh, UnderWay, Having, Assigned
<1> QED BY <1>1, <1>2, <1>3, <1>4, <1>5, <1>6, <1>7, <1>8, <1>9
    DEF CoNext, DuplicateAssignment, Deadlock, Drop

(* What a report shows, whatever row it finds.                             *)
LEMMA ProgressShown ==
    ASSUME NEW seen \in AssignmentRow, NEW percent \in 0..100, NEW x \in AssignmentRow
    PROVE  LET y == Apply(x, Progress(seen, percent))
           IN  /\ y.progress_percent \in {percent, x.progress_percent}
               /\ y.status = "assigned" => x.status = "assigned"
               /\ x.completed_at => y.completed_at
<1> DEFINE status == StatusAfter(seen, percent)
           asked == [status |-> status, progress_percent |-> percent]
           changed == Net(seen, asked)
           dated == [completed_at |-> TRUE]
           w == Progress(seen, percent)
           y == Apply(x, w)
<1>1. status = "assigned" => seen.status = "assigned"
  BY DEF StatusAfter
<1>2. DOMAIN asked = {"status", "progress_percent"} /\ asked["status"] = status
      /\ asked["progress_percent"] = percent
  OBVIOUS
<1>3. DOMAIN dated = {"completed_at"} /\ dated["completed_at"] = TRUE
  OBVIOUS
<1>4. w = IF status = "completed" THEN Then(changed, dated) ELSE changed
  BY DEF Progress
<1> HIDE DEF status, asked, dated
<1>5. /\ DOMAIN changed = {c \in DOMAIN asked : asked[c] # seen[c]}
      /\ \A c \in DOMAIN changed : changed[c] = asked[c]
  BY DEF Net, Changed
<1> HIDE DEF changed
<1>6. /\ DOMAIN Then(changed, dated) = DOMAIN changed \cup DOMAIN dated
      /\ \A c \in DOMAIN dated : Then(changed, dated)[c] = dated[c]
      /\ \A c \in DOMAIN changed \ DOMAIN dated : Then(changed, dated)[c] = changed[c]
  BY ThenDomain
<1> HIDE DEF w
<1>7. /\ "status" \in DOMAIN w => w["status"] = status /\ seen["status"] # status
      /\ "progress_percent" \in DOMAIN w => w["progress_percent"] = percent
      /\ "completed_at" \in DOMAIN w => w["completed_at"] = TRUE
  BY <1>2, <1>3, <1>4, <1>5, <1>6
<1>8. /\ y.status = IF "status" \in DOMAIN w THEN w["status"] ELSE x.status
      /\ y.progress_percent = IF "progress_percent" \in DOMAIN w
                                THEN w["progress_percent"] ELSE x.progress_percent
      /\ y.completed_at = IF "completed_at" \in DOMAIN w THEN w["completed_at"] ELSE x.completed_at
  BY DEF AssignmentRow, Apply
<1>9. /\ y.progress_percent \in {percent, x.progress_percent}
      /\ y.status = "assigned" => x.status = "assigned"
      /\ x.completed_at => y.completed_at
  BY <1>1, <1>7, <1>8
<1> QED BY <1>9 DEF w

LEMMA RosterStep == CourseInvariant /\ Fresh /\ [CoNext]_covars => [Roster!Next]_(Roster!vars)
<1> SUFFICES ASSUME CourseInvariant, Fresh, CoNext
             PROVE  Roster!Next \/ UNCHANGED Roster!vars
  BY DEF covars, Roster!vars
<1>1. ASSUME NEW r \in Batches, CommitBatch(r) PROVE Roster!Next
  <2> DEFINE b == batch[r]
  <2>1. /\ b.stage = "looking" /\ b.left = <<>> /\ BatchOK(b, Having) /\ r \in UnderWay
        /\ assignment' = [u \in Learners |-> IF u \in b.added THEN NewAssignment ELSE assignment[u]]
        /\ answered' = answered \cup b.given
    BY <1>1 DEF CommitBatch, CourseInvariant, UnderWay
  <2>2. Given(b.left) = {}
    BY <2>1 DEF Given
  <2>3. /\ b.given \in SUBSET Learners
        /\ \A u \in Learners : u \in b.added <=> u \in b.given \ answered
    BY <2>1, <2>2 DEF BatchOK, Fresh, CourseInvariant
  <2>4. NewAssignment = Roster!Row("assigned", 0, FALSE)
    BY DEF NewAssignment, Roster!Row
  <2>5. Roster!Give(b.given)
    BY <2>1, <2>3, <2>4 DEF Roster!Give
  <2> QED BY <2>3, <2>5 DEF Roster!Next
<1>2. ASSUME NEW r \in Batches, NEW percent \in Percents, Report(r, percent) PROVE Roster!Next
  <2> DEFINE b == batch[r]
             u == b.user
             x == assignment[u]
             y == Apply(x, Progress(b.seen, percent))
  <2>1. /\ b.stage = "reporting" /\ assignment' = [assignment EXCEPT ![u] = y]
        /\ answered' = answered
    BY <1>2 DEF Report
  <2>2. /\ u \in answered /\ b.seen \in AssignmentRow
        /\ x \in AssignmentRow /\ Dated(x) /\ percent \in 0..100
    BY <2>1, CourseAssumption DEF CourseInvariant, Assigned, Having
  <2>3. y \in AssignmentRow /\ Dated(y)
    BY <2>2, ProgressTyped
  <2>4. /\ y.progress_percent \in Percents \cup {x.progress_percent}
        /\ y.status = "assigned" => x.status = "assigned"
        /\ y.status = "completed" \/ x.completed_at => y.completed_at
    BY <2>2, <2>3, ProgressShown DEF Dated
  <2> HIDE DEF y
  <2>5. /\ y = Roster!Row(y.status, y.progress_percent, y.completed_at)
        /\ y.status \in {"assigned", "in_progress", "completed"}
        /\ y.completed_at \in BOOLEAN
    BY <2>3 DEF AssignmentRow, AssignmentStatus, Roster!Row
  <2>6. Roster!Show(u, y.status, y.progress_percent, y.completed_at)
    BY <2>1, <2>4, <2>5 DEF Roster!Show
  <2> QED BY <2>2, <2>4, <2>5, <2>6 DEF Roster!Next
<1>3. CoNext =>
        \/ \E r \in Batches : CommitBatch(r) \/ \E percent \in Percents : Report(r, percent)
        \/ UNCHANGED <<answered, assignment>>
  BY DEF CoNext, SetPublished, Assign, LookUp, InsertAssignment, DuplicateAssignment, Deadlock,
     Drop, LoadAssignment, Step
<1> QED BY <1>1, <1>2, <1>3 DEF Roster!vars

(* Courses: batches and reports that overlap implement whole batches and   *)
(* single reports.                                                         *)
THEOREM RosterHolds == CoSpec => ImplementsRoster
<1>1. CoInit => Roster!Init /\ Fresh
  BY DEF CoInit, Roster!Init, NotAssigned, Roster!None, Fresh, UnderWay, NoBatch
<1> QED BY <1>1, FreshStep, RosterStep, CourseKept, PTL
    DEF CoSpec, ImplementsRoster, Roster!Spec
=============================================================================
