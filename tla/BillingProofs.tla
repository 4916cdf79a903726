----------------------------- MODULE BillingProofs -----------------------------
(***************************************************************************)
(* What Billing promises for any subscriptions, requests and failures.     *)
(*                                                                         *)
(* A reference is written before its effect, so the invariant follows each *)
(* one from there: recorded, it is applied, being applied, or given up.    *)
(***************************************************************************)
EXTENDS Billing, FiniteSetTheorems, TLAPS

\* What the handlers have in hand is what their next step expects.
HandsTyped ==
    \A r \in Requests :
        /\ req[r].op = "save" => req[r].about \in created
        /\ req[r].op \in {"record", "apply"} => req[r].about \in References

Applying(x, r) == req[r] = [op |-> "apply", about |-> x]

\* One handler at most applies a reference, after it was recorded and before the
\* effect is written.
AppliedByOne ==
    /\ \A r \in Requests : req[r].op = "apply" =>
         req[r].about \in refs /\ applied[req[r].about] = 0
    /\ \A r, s \in Requests :
         req[r].op = "apply" /\ req[s].op = "apply" /\ req[r].about = req[s].about => r = s
    /\ \A x \in References : x \notin refs => applied[x] = 0

Accounted(x) == applied[x] = 1 \/ x \in lost \/ \E r \in Requests : Applying(x, r)

\* What is recorded, or acknowledged, is accounted for.
AllAccounted ==
    /\ \A x \in refs : Accounted(x)
    /\ \A e \in Events : delivery[e] = "acked" => Accounted(e)

IInv == TypeOK /\ HandsTyped /\ AppliedByOne /\ PaidOnce /\ AllAccounted

-------------------------------------------------------------------------------
LEMMA EventsAreReferences == Events \subseteq References
BY DEF References

LEMMA InitIInv == Init => IInv
BY SubsAssumption, BoundsAssumption, EventsAreReferences
   DEF Init, IInv, TypeOK, HandsTyped, AppliedByOne, PaidOnce, AllAccounted, Idle, References

\* The type invariant is kept by every step.
LEMMA NextTypeOK == TypeOK /\ HandsTyped /\ [Next]_vars => TypeOK'
<1> SUFFICES ASSUME TypeOK, HandsTyped, [Next]_vars PROVE TypeOK'
  OBVIOUS
<1> USE SubsAssumption, BoundsAssumption DEF TypeOK, HandsTyped, Idle
<1>1. ASSUME NEW r \in Requests, NEW s \in Subs, Checkout(r, s) PROVE TypeOK'
  BY <1>1 DEF Checkout, GoesOn, rowVars
<1>2. ASSUME NEW r \in Requests, SavesCheckout(r) PROVE TypeOK'
  BY <1>2 DEF SavesCheckout, Done
<1>3. ASSUME NEW s \in Subs, Pays(s) PROVE TypeOK'
  BY <1>3 DEF Pays, rowVars, Events
<1>4. ASSUME NEW s \in Subs, Cancels(s) PROVE TypeOK'
  BY <1>4 DEF Cancels, rowVars
<1>5. ASSUME NEW e \in Events, AnswerLost(e) PROVE TypeOK'
  BY <1>5 DEF AnswerLost, rowVars, Fault
<1>6. ASSUME NEW r \in Requests, NEW e \in Events, Receives(r, e) PROVE TypeOK'
  BY <1>6, EventsAreReferences DEF Receives, rowVars, providerVars, GoesOn
<1>7. ASSUME NEW r \in Requests, NEW s \in Subs, Verifies(r, s) PROVE TypeOK'
  BY <1>7 DEF Verifies, rowVars, providerVars, GoesOn, References
<1>8. ASSUME NEW r \in Requests, Records(r) PROVE TypeOK'
  BY <1>8 DEF Records, providerVars, GoesOn
<1>9. ASSUME NEW r \in Requests, FindsRecorded(r) PROVE TypeOK'
  BY <1>9 DEF FindsRecorded, AnswerKnown, Acks, Done, rowVars
<1>10. ASSUME NEW r \in Requests, RecordFails(r) PROVE TypeOK'
  BY <1>10 DEF RecordFails, Acks, Done, rowVars, Fault
<1>11. ASSUME NEW r \in Requests, Applies(r) PROVE TypeOK'
  BY <1>11 DEF Applies, Acks, Done, PlanAfter
<1>12. ASSUME NEW r \in Requests, RequestDies(r) PROVE TypeOK'
  BY <1>12 DEF RequestDies, Done, rowVars, providerVars, Fault
<1>13. ASSUME NEW r \in Requests, AsksForMonitor(r) PROVE TypeOK'
  BY <1>13 DEF AsksForMonitor, GoesOn, rowVars, providerVars
<1>14. ASSUME NEW r \in Requests, Counts(r) PROVE TypeOK'
  BY <1>14 DEF Counts, GoesOn, Done, rowVars, providerVars
<1>15. ASSUME NEW r \in Requests, Inserts(r) PROVE TypeOK'
  BY <1>15 DEF Inserts, Done, providerVars
<1>16. CASE DeletesMonitor
  BY <1>16 DEF DeletesMonitor, providerVars
<1>17. CASE UNCHANGED vars
  BY <1>17 DEF vars, rowVars, providerVars
<1> QED
  BY <1>1, <1>2, <1>3, <1>4, <1>5, <1>6, <1>7, <1>8, <1>9, <1>10, <1>11, <1>12, <1>13,
     <1>14, <1>15, <1>16, <1>17 DEF Next

\* Hands are typed after every step.
LEMMA NextHandsTyped == TypeOK /\ HandsTyped /\ [Next]_vars => HandsTyped'
<1> SUFFICES ASSUME TypeOK, HandsTyped, [Next]_vars PROVE HandsTyped'
  OBVIOUS
<1> USE SubsAssumption, EventsAreReferences DEF TypeOK, HandsTyped, Idle, GoesOn, Done
<1>1. CASE \E r \in Requests, s \in Subs : Checkout(r, s) \/ Verifies(r, s)
  BY <1>1 DEF Checkout, Verifies, providerVars, References
<1>2. CASE \E r \in Requests, e \in Events : Receives(r, e)
  BY <1>2 DEF Receives, providerVars
<1>3. CASE \E r \in Requests : SavesCheckout(r) \/ Records(r) \/ FindsRecorded(r) \/ Applies(r)
  BY <1>3 DEF SavesCheckout, Records, FindsRecorded, Applies, providerVars
<1>4. CASE \E r \in Requests : RecordFails(r) \/ RequestDies(r)
  BY <1>4 DEF RecordFails, RequestDies, providerVars
<1>5. CASE \E r \in Requests : AsksForMonitor(r) \/ Counts(r) \/ Inserts(r)
  BY <1>5 DEF AsksForMonitor, Counts, Inserts, providerVars
<1>6. CASE DeletesMonitor \/ (\E s \in Subs : Pays(s) \/ Cancels(s)) \/ (\E e \in Events : AnswerLost(e))
  BY <1>6 DEF DeletesMonitor, Pays, Cancels, AnswerLost, providerVars
<1>7. CASE UNCHANGED vars
  BY <1>7 DEF vars, providerVars
<1> QED
  BY <1>1, <1>2, <1>3, <1>4, <1>5, <1>6, <1>7 DEF Next

\* Steps that touch neither references nor what is applied, and let nobody begin to
\* apply anything.
Apart ==
    /\ UNCHANGED <<refs, applied>>
    /\ \A r \in Requests : req'[r].op = "apply" => req'[r] = req[r]

LEMMA ApartKeepsAppliedByOne ==
    ASSUME AppliedByOne, PaidOnce, Apart PROVE AppliedByOne' /\ PaidOnce'
BY DEF AppliedByOne, PaidOnce, Apart

\* Only recording and applying matter to the count of effects.
LEMMA MostStepsAreApart ==
    ASSUME TypeOK, [Next]_vars,
           ~ \E r \in Requests : Records(r) \/ Applies(r)
    PROVE  Apart
<1> USE DEF TypeOK, Apart, Idle, GoesOn, Done, rowVars, providerVars
<1>1. CASE \E r \in Requests, s \in Subs : Checkout(r, s) \/ Verifies(r, s)
  BY <1>1 DEF Checkout, Verifies
<1>2. CASE \E r \in Requests, e \in Events : Receives(r, e)
  BY <1>2 DEF Receives
<1>3. CASE \E r \in Requests : SavesCheckout(r) \/ FindsRecorded(r)
  BY <1>3 DEF SavesCheckout, FindsRecorded
<1>4. CASE \E r \in Requests : RecordFails(r) \/ RequestDies(r)
  BY <1>4 DEF RecordFails, RequestDies
<1>5. CASE \E r \in Requests : AsksForMonitor(r) \/ Counts(r) \/ Inserts(r)
  BY <1>5 DEF AsksForMonitor, Counts, Inserts
<1>6. CASE DeletesMonitor \/ (\E s \in Subs : Pays(s) \/ Cancels(s)) \/ (\E e \in Events : AnswerLost(e))
  BY <1>6 DEF DeletesMonitor, Pays, Cancels, AnswerLost
<1>7. CASE UNCHANGED vars
  BY <1>7 DEF vars
<1> QED
  BY <1>1, <1>2, <1>3, <1>4, <1>5, <1>6, <1>7 DEF Next

LEMMA NextAppliedByOne ==
    ASSUME TypeOK, HandsTyped, AppliedByOne, PaidOnce, [Next]_vars
    PROVE  AppliedByOne' /\ PaidOnce'
<1>1. ASSUME NEW r \in Requests, Records(r) PROVE AppliedByOne' /\ PaidOnce'
  <2>1. req[r].about \in References \ refs /\ applied[req[r].about] = 0
    BY <1>1 DEF Records, IsNew, HandsTyped, AppliedByOne
  <2>2. /\ req' = [req EXCEPT ![r] = [op |-> "apply", about |-> req[r].about]]
        /\ refs' = refs \cup {req[r].about}
        /\ applied' = applied
    BY <1>1 DEF Records, GoesOn
  <2> QED
    BY <2>1, <2>2 DEF AppliedByOne, PaidOnce, TypeOK
<1>2. ASSUME NEW r \in Requests, Applies(r) PROVE AppliedByOne' /\ PaidOnce'
  <2> DEFINE x == req[r].about
  <2>1. x \in refs /\ x \in References /\ applied[x] = 0
    BY <1>2 DEF Applies, HandsTyped, AppliedByOne
  <2>2. /\ applied' = [applied EXCEPT ![x] = @ + 1]
        /\ refs' = refs
        /\ req' = [req EXCEPT ![r] = Idle]
        /\ req[r].op = "apply"
    BY <1>2 DEF Applies, Done
  <2>3. \A s \in Requests : req'[s].op = "apply" => s # r /\ req'[s] = req[s]
    BY <2>2 DEF TypeOK, Idle
  <2>4. \A s \in Requests : req'[s].op = "apply" => req[s].about # x
    BY <2>2, <2>3 DEF AppliedByOne
  <2>5. \A y \in References : applied'[y] = IF y = x THEN 1 ELSE applied[y]
    BY <2>1, <2>2 DEF TypeOK
  <2>6. PaidOnce'
    BY <2>5 DEF PaidOnce
  <2>7. \A s \in Requests : req'[s].op = "apply" => req[s].about \in References
    BY <2>3 DEF HandsTyped
  <2>8. AppliedByOne'
    BY <2>1, <2>2, <2>3, <2>4, <2>5, <2>7 DEF AppliedByOne
  <2> QED
    BY <2>6, <2>8
<1>3. CASE ~ \E r \in Requests : Records(r) \/ Applies(r)
  BY <1>3, MostStepsAreApart, ApartKeepsAppliedByOne
<1> QED
  BY <1>1, <1>2, <1>3

\* What is accounted for stays so: a handler that stops applying a reference has
\* written the effect or given it up.
Keeps ==
    \A x \in References : Accounted(x) => Accounted(x)'

\* Steps that record, acknowledge and give up nothing.
Calm ==
    /\ refs' \subseteq refs
    /\ \A e \in Events : delivery'[e] = "acked" => delivery[e] = "acked"

LEMMA StepsThatApplyNothingKeep ==
    ASSUME TypeOK,
           UNCHANGED applied, lost \subseteq lost',
           \A r \in Requests : req[r].op = "apply" => req'[r] = req[r]
    PROVE  Keeps
BY DEF Keeps, Accounted, Applying

LEMMA NextAccounted ==
    ASSUME TypeOK, HandsTyped, AppliedByOne, PaidOnce, AllAccounted, [Next]_vars
    PROVE  AllAccounted'
<1> USE EventsAreReferences
<1>0. refs \subseteq References
  BY DEF TypeOK
<1>1. ASSUME Keeps, Calm PROVE AllAccounted'
  BY <1>0, <1>1 DEF Keeps, Calm, AllAccounted
<1>2. ASSUME NEW r \in Requests, Records(r) PROVE AllAccounted'
  <2>1. Keeps
    BY <1>2, StepsThatApplyNothingKeep DEF Records, GoesOn, providerVars, TypeOK
  <2>2. PICK x \in References : x = req[r].about
    BY <1>2 DEF Records, HandsTyped
  <2>3. UNCHANGED delivery /\ refs' = refs \cup {x} /\ req'[r] = [op |-> "apply", about |-> x]
    BY <1>2, <2>2 DEF Records, GoesOn, providerVars, TypeOK
  <2>4. Accounted(x)'
    BY <2>3 DEF Accounted, Applying
  <2> QED
    BY <1>0, <2>1, <2>3, <2>4 DEF Keeps, AllAccounted
<1>3. ASSUME NEW r \in Requests, FindsRecorded(r) PROVE AllAccounted'
  <2>1. Keeps
    BY <1>3, StepsThatApplyNothingKeep DEF FindsRecorded, Done, TypeOK
  <2>2. req[r].about \in refs /\ refs' = refs
    BY <1>3 DEF FindsRecorded, IsNew, rowVars
  <2>3. \A e \in Events : delivery'[e] = "acked" => delivery[e] = "acked" \/ e = req[r].about
    BY <1>3 DEF FindsRecorded, AnswerKnown, Acks, TypeOK
  <2> QED
    BY <1>0, <2>1, <2>2, <2>3 DEF Keeps, AllAccounted
<1>4. ASSUME NEW r \in Requests, RecordFails(r) PROVE AllAccounted'
  <2>1. Keeps
    BY <1>4, StepsThatApplyNothingKeep DEF RecordFails, Done, TypeOK
  <2>2. req[r].about \in lost' /\ refs' = refs
    BY <1>4 DEF RecordFails, rowVars
  <2>3. \A e \in Events : delivery'[e] = "acked" => delivery[e] = "acked" \/ e = req[r].about
    BY <1>4 DEF RecordFails, Acks, TypeOK
  <2> QED
    BY <1>0, <2>1, <2>2, <2>3 DEF Keeps, AllAccounted, Accounted
<1>5. ASSUME NEW r \in Requests, Applies(r) PROVE AllAccounted'
  <2>1. PICK x \in References : x = req[r].about /\ applied[x] = 0
    BY <1>5 DEF Applies, HandsTyped, AppliedByOne
  <2>2. /\ applied' = [applied EXCEPT ![x] = @ + 1]
        /\ UNCHANGED <<refs, lost>>
        /\ req' = [req EXCEPT ![r] = Idle]
    BY <1>5, <2>1 DEF Applies, Done
  <2>3. applied'[x] = 1 /\ \A y \in References \ {x} : applied'[y] = applied[y]
    BY <2>1, <2>2 DEF TypeOK
  <2>4. \A y \in References \ {x}, s \in Requests : Applying(y, s) => Applying(y, s)'
    BY <2>1, <2>2 DEF Applying, TypeOK
  <2>5. Keeps
    BY <2>2, <2>3, <2>4 DEF Keeps, Accounted
  <2>6. Accounted(x)'
    BY <2>3 DEF Accounted
  <2>7. \A e \in Events : delivery'[e] = "acked" => delivery[e] = "acked" \/ e = x
    BY <1>5, <2>1 DEF Applies, Acks, TypeOK
  <2> QED
    BY <1>0, <2>2, <2>5, <2>6, <2>7 DEF Keeps, AllAccounted
<1>6. ASSUME NEW r \in Requests, RequestDies(r) PROVE AllAccounted'
  <2>1. Calm
    BY <1>6 DEF RequestDies, rowVars, providerVars, Calm
  <2>2. UNCHANGED applied /\ lost \subseteq lost' /\ req' = [req EXCEPT ![r] = Idle]
    BY <1>6 DEF RequestDies, Done
  <2>3. req[r].op = "apply" => req[r].about \in lost'
    BY <1>6 DEF RequestDies
  <2>4. \A y \in References, s \in Requests : Applying(y, s) => Applying(y, s)' \/ y \in lost'
    BY <2>2, <2>3 DEF Applying, TypeOK
  <2>5. Keeps
    BY <2>2, <2>4 DEF Keeps, Accounted
  <2> QED
    BY <1>1, <2>1, <2>5
<1>7. ASSUME NEW r \in Requests, NEW s \in Subs, Checkout(r, s) \/ Verifies(r, s)
      PROVE  AllAccounted'
  <2>1. Calm
    BY <1>7 DEF Checkout, Verifies, rowVars, providerVars, Calm
  <2>2. Keeps
    BY <1>7, StepsThatApplyNothingKeep DEF Checkout, Verifies, GoesOn, Idle, TypeOK
  <2> QED
    BY <1>1, <2>1, <2>2
<1>8. ASSUME NEW r \in Requests, NEW e \in Events, Receives(r, e) PROVE AllAccounted'
  <2>1. Calm
    BY <1>8 DEF Receives, rowVars, providerVars, Calm
  <2>2. Keeps
    BY <1>8, StepsThatApplyNothingKeep DEF Receives, GoesOn, Idle, TypeOK
  <2> QED
    BY <1>1, <2>1, <2>2
<1>9. ASSUME NEW r \in Requests, SavesCheckout(r) \/ AsksForMonitor(r) \/ Counts(r) \/ Inserts(r)
      PROVE  AllAccounted'
  <2>1. Calm
    BY <1>9 DEF SavesCheckout, AsksForMonitor, Counts, Inserts, rowVars, providerVars, Calm
  <2>2. Keeps
    BY <1>9, StepsThatApplyNothingKeep
       DEF SavesCheckout, AsksForMonitor, Counts, Inserts, GoesOn, Done, Idle, TypeOK
  <2> QED
    BY <1>1, <2>1, <2>2
<1>10. CASE DeletesMonitor \/ (\E s \in Subs : Pays(s) \/ Cancels(s)) \/ (\E e \in Events : AnswerLost(e))
  <2>1. Calm
    BY <1>10 DEF DeletesMonitor, Pays, Cancels, AnswerLost, rowVars, providerVars, Calm, TypeOK
  <2>2. Keeps
    BY <1>10, StepsThatApplyNothingKeep DEF DeletesMonitor, Pays, Cancels, AnswerLost
  <2> QED
    BY <1>1, <2>1, <2>2
<1>11. CASE UNCHANGED vars
  BY <1>11 DEF vars, rowVars, providerVars, AllAccounted, Accounted, Applying
<1> QED
  BY <1>2, <1>3, <1>4, <1>5, <1>6, <1>7, <1>8, <1>9, <1>10, <1>11 DEF Next

-------------------------------------------------------------------------------
\* The requests that have passed the limit and are about to insert a monitor.
Inserting == {r \in Requests : req[r].op = "insert"}

NeverUpgraded == \A x \in References : PlanAfter(x) = "PRO" => applied[x] = 0

\* Without an upgrade the plan is FREE, so every insertion was counted before: when
\* the last one was, there was room, and at most all requests are inserting.
RoomWasFound ==
    NeverUpgraded =>
        /\ plan = "FREE"
        /\ monitors + Cardinality(Inserting) + 1 <= Limit + Cardinality(Requests)

LEMMA InsertingIsFinite ==
    ASSUME NEW S \in SUBSET Requests, NEW T \in SUBSET S
    PROVE  Cardinality(T) \in Nat /\ Cardinality(S) \in Nat /\ Cardinality(T) <= Cardinality(S)
BY RequestsAssumption, FS_Subset, FS_CardinalityType

LEMMA InitRoomWasFound == Init => RoomWasFound
<1> SUFFICES ASSUME Init PROVE RoomWasFound
  OBVIOUS
<1>1. Inserting = {}
  BY DEF Init, Inserting, Idle
<1>2. Cardinality({}) = 0 /\ Cardinality(Requests) \in Nat
  BY RequestsAssumption, FS_EmptySet, FS_CardinalityType
<1> QED
  BY <1>1, <1>2, BoundsAssumption DEF Init, RoomWasFound

\* A step that inserts nothing, lets nobody insert and upgrades nothing.
Idles ==
    /\ monitors' <= monitors
    /\ Inserting' \subseteq Inserting
    /\ UNCHANGED <<plan, applied>>

LEMMA IdlesKeepsRoom ==
    ASSUME TypeOK, TypeOK', RoomWasFound, Idles PROVE RoomWasFound'
<1>1. Cardinality(Inserting') \in Nat /\ Cardinality(Inserting) \in Nat
      /\ Cardinality(Inserting') <= Cardinality(Inserting) /\ Cardinality(Requests) \in Nat
  <2>1. Inserting \in SUBSET Requests /\ Inserting' \in SUBSET Inserting
    BY DEF Idles, Inserting
  <2> QED
    BY <2>1, InsertingIsFinite, RequestsAssumption, FS_CardinalityType
<1>2. NeverUpgraded' => NeverUpgraded
  BY DEF NeverUpgraded, Idles, PlanAfter
<1>3. monitors \in Nat /\ monitors' \in Nat /\ Limit \in Nat
  BY BoundsAssumption DEF TypeOK
<1>4. monitors' <= monitors /\ plan' = plan
  BY DEF Idles
<1> QED
  BY <1>1, <1>2, <1>3, <1>4 DEF RoomWasFound

LEMMA NextRoomWasFound ==
    ASSUME TypeOK, HandsTyped, TypeOK', RoomWasFound, [Next]_vars
    PROVE  RoomWasFound'
<1> USE DEF Idle, GoesOn, Done
<1>0. Limit \in Nat \ {0} /\ monitors \in Nat /\ monitors' \in Nat /\ Cardinality(Requests) \in Nat
  BY BoundsAssumption, RequestsAssumption, FS_CardinalityType DEF TypeOK
<1>1. ASSUME NEW r \in Requests, Counts(r) PROVE RoomWasFound'
  <2>1. CASE Room
    <3>1. Cardinality(Inserting') \in Nat /\ Cardinality(Inserting') <= Cardinality(Requests)
      <4>1. Inserting' \in SUBSET Requests
        BY DEF Inserting
      <4> QED
        BY <4>1, InsertingIsFinite
    <3>2. monitors' = monitors /\ monitors < Limit /\ UNCHANGED <<plan, applied>>
      BY <1>1, <2>1 DEF Counts, Room, rowVars
    <3>3. NeverUpgraded' => NeverUpgraded
      BY <3>2 DEF NeverUpgraded, PlanAfter
    <3> QED
      BY <1>0, <3>1, <3>2, <3>3 DEF RoomWasFound
  <2>2. CASE ~Room
    <3>1. Idles
      BY <1>0, <1>1, <2>2 DEF Counts, Idles, Inserting, TypeOK, rowVars
    <3> QED
      BY <3>1, IdlesKeepsRoom
  <2> QED
    BY <2>1, <2>2
<1>2. ASSUME NEW r \in Requests, Inserts(r) PROVE RoomWasFound'
  <2>1. Inserting' = Inserting \ {r} /\ r \in Inserting
    BY <1>2 DEF Inserts, Inserting, TypeOK
  <2>2. IsFiniteSet(Inserting)
    BY RequestsAssumption, FS_Subset DEF Inserting
  <2>3. Cardinality(Inserting) \in Nat /\ Cardinality(Inserting') = Cardinality(Inserting) - 1
    BY <2>1, <2>2, FS_RemoveElement, FS_CardinalityType
  <2>4. monitors' = monitors + 1 /\ UNCHANGED <<plan, applied>>
    BY <1>2 DEF Inserts
  <2>5. NeverUpgraded' => NeverUpgraded
    BY <2>4 DEF NeverUpgraded, PlanAfter
  <2> QED
    BY <1>0, <2>3, <2>4, <2>5 DEF RoomWasFound
<1>3. ASSUME NEW r \in Requests, Applies(r) PROVE RoomWasFound'
  <2>1. PICK x \in References : x = req[r].about
    BY <1>3 DEF Applies, HandsTyped
  <2>2. /\ applied' = [applied EXCEPT ![x] = @ + 1]
        /\ plan' = PlanAfter(x)
        /\ monitors' = monitors
        /\ req' = [req EXCEPT ![r] = Idle]
    BY <1>3, <2>1 DEF Applies
  <2>3. CASE PlanAfter(x) = "PRO"
    <3>1. applied'[x] # 0
      BY <2>2 DEF TypeOK
    <3>2. ~NeverUpgraded'
      BY <2>3, <3>1 DEF NeverUpgraded, PlanAfter
    <3> QED
      BY <3>2 DEF RoomWasFound
  <2>4. CASE PlanAfter(x) # "PRO"
    <3>1. NeverUpgraded' => NeverUpgraded
      BY <2>2, <2>4 DEF NeverUpgraded, PlanAfter, TypeOK
    <3>2. plan' = "FREE"
      BY <2>2, <2>4 DEF PlanAfter
    <3>3. Inserting' \in SUBSET Inserting /\ Inserting \in SUBSET Requests
      BY <2>2 DEF Inserting, TypeOK
    <3>4. Cardinality(Inserting') \in Nat /\ Cardinality(Inserting) \in Nat
          /\ Cardinality(Inserting') <= Cardinality(Inserting)
      BY <3>3, InsertingIsFinite
    <3> QED
      BY <1>0, <2>2, <3>1, <3>2, <3>4 DEF RoomWasFound
  <2> QED
    BY <2>3, <2>4
<1>4. ASSUME NEW r \in Requests, AsksForMonitor(r) PROVE RoomWasFound'
  <2>1. CASE plan = "FREE"
    <3>1. Idles
      BY <1>0, <1>4, <2>1 DEF AsksForMonitor, Idles, Inserting, TypeOK, rowVars
    <3> QED
      BY <3>1, IdlesKeepsRoom
  <2>2. CASE plan # "FREE"
    <3>1. UNCHANGED applied
      BY <1>4 DEF AsksForMonitor
    <3>2. ~NeverUpgraded /\ (NeverUpgraded' => NeverUpgraded)
      BY <2>2, <3>1 DEF RoomWasFound, NeverUpgraded, PlanAfter
    <3> QED
      BY <3>2 DEF RoomWasFound
  <2> QED
    BY <2>1, <2>2
<1>5. ASSUME NEW r \in Requests, NEW s \in Subs, Checkout(r, s) \/ Verifies(r, s)
      PROVE  Idles
  BY <1>0, <1>5 DEF Checkout, Verifies, Idles, Inserting, TypeOK, rowVars
<1>6. ASSUME NEW r \in Requests, NEW e \in Events, Receives(r, e) PROVE Idles
  BY <1>0, <1>6 DEF Receives, Idles, Inserting, TypeOK, rowVars
<1>7. ASSUME NEW r \in Requests, SavesCheckout(r) \/ Records(r) PROVE Idles
  BY <1>0, <1>7 DEF SavesCheckout, Records, Idles, Inserting, TypeOK
<1>8. ASSUME NEW r \in Requests, FindsRecorded(r) \/ RecordFails(r) \/ RequestDies(r) PROVE Idles
  BY <1>0, <1>8 DEF FindsRecorded, RecordFails, RequestDies, Idles, Inserting, TypeOK, rowVars
<1>9. CASE DeletesMonitor \/ (\E s \in Subs : Pays(s) \/ Cancels(s)) \/ (\E e \in Events : AnswerLost(e))
  <2>1. UNCHANGED <<plan, applied, req>> /\ monitors' <= monitors
    <3>1. CASE DeletesMonitor
      BY <1>0, <3>1 DEF DeletesMonitor
    <3>2. ASSUME NEW s \in Subs, Pays(s) \/ Cancels(s)
          PROVE  UNCHANGED <<plan, applied, req, monitors>>
      BY <3>2 DEF Pays, Cancels, rowVars
    <3>3. ASSUME NEW e \in Events, AnswerLost(e)
          PROVE  UNCHANGED <<plan, applied, req, monitors>>
      BY <3>3 DEF AnswerLost, rowVars
    <3> QED
      BY <1>0, <1>9, <3>1, <3>2, <3>3
  <2>2. Idles
    BY <2>1 DEF Idles, Inserting
  <2> QED
    BY <2>2, IdlesKeepsRoom
<1>10. CASE UNCHANGED vars
  <2>1. UNCHANGED <<plan, applied, monitors, req>>
    BY <1>10 DEF vars, rowVars, providerVars
  <2>2. Idles
    BY <1>0, <2>1 DEF Idles, Inserting
  <2> QED
    BY <2>2, IdlesKeepsRoom
<1> QED
  BY <1>1, <1>2, <1>3, <1>4, <1>5, <1>6, <1>7, <1>8, <1>9, <1>10, IdlesKeepsRoom DEF Next

-------------------------------------------------------------------------------
LEMMA IInvInductive == IInv /\ [Next]_vars => IInv'
BY NextTypeOK, NextHandsTyped, NextAppliedByOne, NextAccounted DEF IInv

LEMMA RoomInductive == IInv /\ RoomWasFound /\ [Next]_vars => RoomWasFound'
BY NextTypeOK, NextRoomWasFound DEF IInv

\* Every variable keeps its type; above all no handler writes what it did not read.
THEOREM TypeCorrect == Spec => []TypeOK
<1>1. IInv => TypeOK
  BY DEF IInv
<1> QED
  BY InitIInv, IInvInductive, <1>1, PTL DEF Spec

\* An event or a verification takes effect once at most, for any number of
\* deliveries and of requests that handle them at the same time.
THEOREM EffectsAreSingle == Spec => []PaidOnce
<1>1. IInv => PaidOnce
  BY DEF IInv
<1> QED
  BY InitIInv, IInvInductive, <1>1, PTL DEF Spec

\* An event answered with success was applied, is being applied, or fell victim to a
\* failure: however many failures there are, nothing else swallows one.
THEOREM AcksAreAccounted == Spec => []AckedOrLost
<1>1. IInv => AckedOrLost
  BY DEF IInv, AllAccounted, Accounted, Applying, AckedOrLost
<1> QED
  BY InitIInv, IInvInductive, <1>1, PTL DEF Spec

\* The limit of the FREE plan is passed by the concurrent requests at most, whatever
\* the limit and however many requests there are.
THEOREM FreePlanIsLimited == Spec => []FreeIsLimited
<1>1. IInv /\ RoomWasFound => FreeIsLimited
  <2> SUFFICES ASSUME IInv, RoomWasFound, NeverUpgraded
               PROVE  monitors + 1 <= Limit + Cardinality(Requests)
    BY DEF FreeIsLimited, NeverUpgraded
  <2>1. Cardinality(Inserting) \in Nat /\ Cardinality(Requests) \in Nat
    BY RequestsAssumption, FS_Subset, FS_CardinalityType DEF Inserting
  <2> QED
    BY <2>1, BoundsAssumption DEF RoomWasFound, IInv, TypeOK
<1> QED
  BY InitIInv, IInvInductive, InitRoomWasFound, RoomInductive, <1>1, PTL DEF Spec

===============================================================================
