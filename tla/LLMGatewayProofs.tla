-------------------------- MODULE LLMGatewayProofs --------------------------
(***************************************************************************)
(* The safety properties of LLMGateway for any number of calls, requests,  *)
(* prompts, gateways and midnights, and any daily limit.                   *)
(***************************************************************************)
EXTENDS LLMGateway, FiniteSetTheorems, TLAPS

\* A call between its first and its last step.
Working(c) == pc[c] \notin {"idle", "done", "raised", "crashed"}

(* A working call was accepted: what it asks has a provider that may see it. *)
WorkingIsAccepted ==
    \A c \in Calls : Working(c) =>
        /\ req[c] \in Requests /\ ~Refused(req[c])
        /\ keyDay[c] \in Days

(* The answer about to be stored is the one the cloud just gave to the key.  *)
StoredIsFirstAnswer ==
    \A c \in Calls : pc[c] = "store" =>
        /\ output[c] \in OutputType
        /\ output[c].by = "cloud" /\ ~output[c].verifying /\ output[c].kind # "empty"
        /\ output[c].day = keyDay[c] /\ output[c].prompt = req[c].prompt

TypeInv == TypeOK /\ WorkingIsAccepted /\ StoredIsFirstAnswer

(* The types of what a request and an answer are made of.                    *)
LEMMA FieldTypes ==
    /\ \A r \in Requests : r.prompt \in Prompts /\ r.route \in Providers \cup {"undefined"}
                           /\ r # NoRequest
    /\ \A d \in Days : d \in Nat /\ d # NoDay
    /\ \A o \in OutputType : o # NoOutput
BY RequestsType, NoRequestFresh, NoDayFresh, NoOutputFresh DEF RequestType, Days

(* An accepted request goes to one of the two providers, and one that goes   *)
(* to the cloud has passed the gate.                                         *)
LEMMA AcceptedProvider ==
    ASSUME NEW r \in Requests, ~Refused(r)
    PROVE  /\ ProviderOf(r) \in Providers
           /\ ProviderOf(r) = "cloud" => Allowed(r)
BY FieldTypes DEF Refused, ProviderOf, Providers

(* What a working call answers is an output.                                 *)
LEMMA OutputOfType ==
    ASSUME TypeInv, NEW c \in Calls, Working(c), NEW kind \in Kinds,
           NEW by \in Providers, NEW verifying \in BOOLEAN
    PROVE  OutputOf(c, kind, by, verifying) \in OutputType
BY FieldTypes DEF TypeInv, WorkingIsAccepted, OutputOf, OutputType

(* The type invariant holds initially.                                       *)
LEMMA InitTypeInv == Init => TypeInv
BY LastDayType DEF Init, TypeInv, TypeOK, WorkingIsAccepted, StoredIsFirstAnswer, Working,
   Places, Days

(* Every step preserves the type invariant.                                  *)
LEMMA NextTypeInv == TypeInv /\ [Next]_vars => TypeInv'
<1> SUFFICES ASSUME TypeInv, [Next]_vars PROVE TypeInv'
  OBVIOUS
<1> USE DEF TypeInv, TypeOK, WorkingIsAccepted, StoredIsFirstAnswer, Working, Places, Refused,
        ProviderOf, Overridden, Allowed
<1>1. ASSUME NEW c \in Calls, NEW r \in Requests, BeginRefused(c, r) PROVE TypeInv'
  BY <1>1, FieldTypes DEF BeginRefused, Goto
<1>2. ASSUME NEW c \in Calls, NEW r \in Requests, Begin(c, r) PROVE TypeInv'
  <2>1. TypeOK'
    BY <1>2, FieldTypes DEF Begin, Goto, AskAt
  <2>2. WorkingIsAccepted'
    BY <1>2, FieldTypes DEF Begin, Goto
  <2>3. StoredIsFirstAnswer'
    BY <1>2, FieldTypes DEF Begin, Goto, AskAt
  <2>4. QED
    BY <2>1, <2>2, <2>3
<1>3. ASSUME NEW c \in Calls, LookUpHit(c) PROVE TypeInv'
  <2>1. Key(c) \in Days \X Prompts
    BY <1>3, FieldTypes DEF LookUpHit, Key
  <2>2. cache[Key(c)] \in OutputType
    BY <1>3, <2>1 DEF LookUpHit
  <2>3. QED
    BY <1>3, <2>2 DEF LookUpHit, Goto
<1>4. ASSUME NEW c \in Calls, LookUpMiss(c) PROVE TypeInv'
  BY <1>4 DEF LookUpMiss, Goto, AfterMiss, AskAt
<1>5. ASSUME NEW c \in Calls, NEW place \in {"consume", "verify_consume"},
             NEW granted \in {"call", "verify_call"}, NEW refused \in {"raised", "done"},
             Consume(c, place, granted, refused) \/ ConsumeFails(c, place, refused)
      PROVE  TypeInv'
  <2>1. counter' \in [Days -> Nat]
    <3>1. counter[today] \in Nat /\ counter[today] + 1 \in Nat
      OBVIOUS
    <3>2. CASE Consume(c, place, granted, refused)
      BY <3>1, <3>2 DEF Consume
    <3>3. CASE ConsumeFails(c, place, refused)
      BY <3>1, <3>3 DEF ConsumeFails
    <3>4. QED
      BY <1>5, <3>2, <3>3
  <2>2. QED
    BY <1>5, <2>1 DEF Consume, ConsumeFails, Goto
<1>6. ASSUME NEW c \in Calls, NEW by \in Providers, Send(c, by)
      PROVE  /\ sent' \in [Calls -> Nat] /\ spent' \in [Days -> Nat]
             /\ grant' \in [Calls -> Days \cup {NoDay}]
  BY <1>6 DEF Send
<1>7. ASSUME NEW c \in Calls, NEW kind \in Kinds, CallAnswers(c, kind) PROVE TypeInv'
  <2>1. Provider(c) \in Providers
    BY <1>7, AcceptedProvider DEF CallAnswers, Provider
  <2>2. OutputOf(c, kind, Provider(c), FALSE) \in OutputType
    BY <1>7, <2>1, OutputOfType DEF CallAnswers
  <2>3. Send(c, Provider(c))
    BY <1>7 DEF CallAnswers
  <2>4. TypeOK'
    BY <1>6, <1>7, <2>1, <2>2, <2>3 DEF CallAnswers, Goto
  <2>5. WorkingIsAccepted'
    BY <1>7 DEF CallAnswers, Goto
  <2>6. StoredIsFirstAnswer'
    BY <1>7, <2>2 DEF CallAnswers, Goto, Storable, OutputOf
  <2>7. QED
    BY <2>4, <2>5, <2>6
<1>8. ASSUME NEW c \in Calls, CallRaises(c) PROVE TypeInv'
  <2>1. Provider(c) \in Providers /\ Send(c, Provider(c))
    BY <1>8, AcceptedProvider DEF CallRaises, Provider
  <2>2. QED
    BY <1>6, <1>8, <2>1 DEF CallRaises, Goto
<1>9. ASSUME NEW c \in Calls, Store(c) PROVE TypeInv'
  <2>1. Key(c) \in Days \X Prompts
    BY <1>9, FieldTypes DEF Store, Key
  <2>2. cache' \in [Days \X Prompts -> OutputType \cup {NoOutput}]
    BY <1>9, <2>1 DEF Store
  <2>3. QED
    BY <1>9, <2>2 DEF Store, Goto
<1>10. ASSUME NEW c \in Calls, Verify(c) PROVE TypeInv'
  BY <1>10 DEF Verify, VerifyAt, Goto
<1>11. ASSUME NEW c \in Calls, NEW kind \in Kinds, VerifyAnswers(c, kind) PROVE TypeInv'
  <2>1. OutputOf(c, kind, "cloud", TRUE) \in OutputType
    BY <1>11, OutputOfType DEF VerifyAnswers, Providers
  <2>2. QED
    BY <1>6, <1>11, <2>1 DEF VerifyAnswers, Goto, Attempted, Providers
<1>12. ASSUME NEW c \in Calls, VerifyRaises(c) PROVE TypeInv'
  BY <1>6, <1>12 DEF VerifyRaises, Goto, Attempted, Providers
<1>13. ASSUME NEW c \in Calls, Crash(c) PROVE TypeInv'
  BY <1>13 DEF Crash, Goto
<1>14. CASE Midnight
  BY <1>14, LastDayType DEF Midnight, Days
<1>15. ASSUME NEW k \in Days \X Prompts, Expire(k) PROVE TypeInv'
  BY <1>15 DEF Expire
<1>16. CASE UNCHANGED vars
  BY <1>16 DEF vars
<1>17. ASSUME NEW c \in Calls, Step(c) PROVE TypeInv'
  BY <1>3, <1>4, <1>5, <1>7, <1>8, <1>9, <1>10, <1>11, <1>12, <1>17 DEF Step
<1>18. QED
  BY <1>1, <1>2, <1>13, <1>14, <1>15, <1>16, <1>17 DEF Next, Terminated

(* Every reachable state has the types the module declares.                  *)
THEOREM TypeCorrect == Spec => []TypeOK
<1>1. TypeInv => TypeOK
  BY DEF TypeInv
<1>2. QED
  BY InitTypeInv, NextTypeInv, <1>1, PTL DEF Spec

-----------------------------------------------------------------------------
(* Where a call is tells which provider answers it, whether it may go to the *)
(* cloud from there, and that it did not go yet.                             *)
CallIsOnItsWay(c) ==
    /\ pc[c] \in {"lookup", "consume", "store"} => Provider(c) = "cloud"
    /\ pc[c] \in {"verify", "verify_consume", "verify_call"} => Provider(c) = "local"
    /\ pc[c] \in {"verify_consume", "verify_call"} => Allowed(req[c])
    /\ pc[c] \notin {"store", "done", "raised", "crashed"} => sent[c] = 0
    /\ sent[c] <= 1
    /\ sent[c] > 0 => Allowed(req[c])

OnTheWay == \A c \in Calls : CallIsOnItsWay(c)

(* No step, of this call or of another one, takes a call off its way.        *)
LEMMA OnTheWayStep == TypeInv /\ OnTheWay /\ [Next]_vars => OnTheWay'
<1> SUFFICES ASSUME TypeInv, OnTheWay, [Next]_vars, NEW c \in Calls PROVE CallIsOnItsWay(c)'
  BY DEF OnTheWay
<1> USE DEF TypeInv, TypeOK, OnTheWay, CallIsOnItsWay, Provider, Overridden, Goto
<1>1. ASSUME NEW b \in Calls, NEW r \in Requests, BeginRefused(b, r) \/ Begin(b, r)
      PROVE  CallIsOnItsWay(c)'
  <2>1. CASE BeginRefused(b, r)
    BY <2>1 DEF BeginRefused, ProviderOf
  <2>2. CASE Begin(b, r)
    BY <2>2 DEF Begin, ProviderOf, AskAt
  <2>3. QED
    BY <1>1, <2>1, <2>2
<1> DEFINE Advances == /\ pc' \in [Calls -> Places] /\ UNCHANGED <<config, req, sent>>
                       /\ \/ pc'[c] = pc[c]
                          \/ pc'[c] \in {"done", "raised", "crashed"}
                          \/ pc'[c] \in {"call", "consume"} /\ pc[c] \in {"lookup", "consume"}
                          \/ pc'[c] = "verify_call" /\ pc[c] = "verify_consume"
<1>a. Advances => CallIsOnItsWay(c)'
  BY DEF ProviderOf, Allowed
<1> HIDE DEF CallIsOnItsWay
<1>2. ASSUME NEW b \in Calls, LookUpHit(b) \/ LookUpMiss(b) PROVE CallIsOnItsWay(c)'
  <2>1. Advances
    BY <1>2 DEF LookUpHit, LookUpMiss, AfterMiss, AskAt, Places
  <2>2. QED
    BY <2>1, <1>a
<1>3. ASSUME NEW b \in Calls,
             \/ Consume(b, "consume", "call", "raised") \/ ConsumeFails(b, "consume", "raised")
             \/ Consume(b, "verify_consume", "verify_call", "done")
             \/ ConsumeFails(b, "verify_consume", "done")
      PROVE  CallIsOnItsWay(c)'
  <2>1. CASE Consume(b, "consume", "call", "raised")
    BY <2>1, <1>a DEF Consume, Places
  <2>2. CASE ConsumeFails(b, "consume", "raised")
    BY <2>2, <1>a DEF ConsumeFails, Places
  <2>3. CASE Consume(b, "verify_consume", "verify_call", "done")
    BY <2>3, <1>a DEF Consume, Places
  <2>4. CASE ConsumeFails(b, "verify_consume", "done")
    BY <2>4, <1>a DEF ConsumeFails, Places
  <2>5. QED
    BY <1>3, <2>1, <2>2, <2>3, <2>4
<1>4. ASSUME NEW b \in Calls,
             CallRaises(b) \/ \E kind \in Kinds : CallAnswers(b, kind)
      PROVE  CallIsOnItsWay(c)'
  <2>1. /\ ProviderOf(req[b]) \in Providers
        /\ ProviderOf(req[b]) = "cloud" => Allowed(req[b])
    BY <1>4, AcceptedProvider DEF CallRaises, CallAnswers, WorkingIsAccepted, Working
  <2>2. CASE CallRaises(b)
    BY <2>1, <2>2 DEF CallRaises, Send, ProviderOf, Allowed, Providers, CallIsOnItsWay
  <2>3. ASSUME NEW kind \in Kinds, CallAnswers(b, kind) PROVE CallIsOnItsWay(c)'
    BY <2>1, <2>3
    DEF CallAnswers, Send, Storable, Verifiable, ProviderOf, Allowed, Providers, CallIsOnItsWay
  <2>4. QED
    BY <1>4, <2>2, <2>3
<1>5. ASSUME NEW b \in Calls, Store(b) PROVE CallIsOnItsWay(c)'
  <2>1. Advances
    BY <1>5 DEF Store, Verifiable, Places, CallIsOnItsWay
  <2>2. QED
    BY <2>1, <1>a
<1>6. ASSUME NEW b \in Calls, Verify(b) PROVE CallIsOnItsWay(c)'
  BY <1>6 DEF Verify, VerifyAt, ProviderOf, Allowed, CallIsOnItsWay
<1>7. ASSUME NEW b \in Calls, VerifyRaises(b) \/ \E kind \in Kinds : VerifyAnswers(b, kind)
      PROVE  CallIsOnItsWay(c)'
  <2>1. /\ pc[b] = "verify_call" /\ pc' = [pc EXCEPT ![b] = "done"]
        /\ sent' = [sent EXCEPT ![b] = @ + 1] /\ UNCHANGED <<config, req>>
    BY <1>7 DEF VerifyRaises, VerifyAnswers, Send
  <2>2. CASE c = b
    BY <2>1, <2>2 DEF CallIsOnItsWay, Allowed
  <2>3. CASE c # b
    BY <2>1, <2>3 DEF CallIsOnItsWay, Allowed, ProviderOf
  <2>4. QED
    BY <2>2, <2>3
<1>8. ASSUME NEW b \in Calls, Crash(b) PROVE CallIsOnItsWay(c)'
  BY <1>8, <1>a DEF Crash, Places
<1>9. CASE Midnight \/ (\E k \in Days \X Prompts : Expire(k)) \/ UNCHANGED vars
  <2>1. UNCHANGED <<config, pc, req, sent>>
    BY <1>9 DEF Midnight, Expire, vars
  <2>2. QED
    BY <2>1, <1>a
<1>10. ASSUME NEW b \in Calls, Step(b) PROVE CallIsOnItsWay(c)'
  BY <1>2, <1>3, <1>4, <1>5, <1>6, <1>7, <1>10 DEF Step
<1>11. QED
  BY <1>1, <1>8, <1>9, <1>10 DEF Next, Terminated

(* Every state is typed, and every call is on its way.                       *)
LEMMA SpecOnTheWay == Spec => [](TypeInv /\ OnTheWay)
<1>1. Init => TypeInv /\ OnTheWay
  BY InitTypeInv DEF Init, OnTheWay, CallIsOnItsWay
<1>2. TypeInv /\ OnTheWay /\ [Next]_vars => (TypeInv /\ OnTheWay)'
  BY NextTypeInv, OnTheWayStep
<1>3. QED
  BY <1>1, <1>2, PTL DEF Spec

(* Nothing but an aggregated or a public payload ever leaves for the cloud.  *)
THEOREM NothingPrivateLeaves == Spec => []PrivacyBoundary
<1>1. OnTheWay => PrivacyBoundary
  BY DEF OnTheWay, CallIsOnItsWay, PrivacyBoundary
<1>2. QED
  BY SpecOnTheWay, <1>1, PTL

(* One completion makes one cloud call at most.                              *)
THEOREM AtMostOneCloudCall == Spec => []OneCloudCallEach
<1>1. OnTheWay => OneCloudCallEach
  BY DEF OnTheWay, CallIsOnItsWay, OneCloudCallEach
<1>2. QED
  BY SpecOnTheWay, <1>1, PTL

-----------------------------------------------------------------------------
(* The budget.  What a day has spent and what it has granted but not spent   *)
(* yet is within its counter and within the limit: a grant is a call the     *)
(* counter was raised for, and the counter decides before the call is made.  *)
Granted(d) == {c \in Calls : grant[c] = d}

Charged(d) == spent[d] + Cardinality(Granted(d))

ChargesAreCovered == \A d \in Days : Charged(d) <= counter[d] /\ Charged(d) <= Limit

(* The calls a day has granted are a finite set.                             *)
LEMMA GrantedFinite ==
    \A d \in Days : IsFiniteSet(Granted(d)) /\ Cardinality(Granted(d)) \in Nat
BY CallsFinite, FS_Subset, FS_CardinalityType DEF Granted

(* What is charged to a day is a number, and only grants and calls change it. *)
LEMMA ChargedTypes ==
    ASSUME TypeInv
    PROVE  /\ \A d \in Days : Charged(d) \in Nat
           /\ spent' = spent /\ grant' = grant => \A d \in Days : Charged(d)' = Charged(d)
<1>1. \A d \in Days : Charged(d) \in Nat
  BY GrantedFinite DEF Charged, TypeInv, TypeOK
<1>2. ASSUME spent' = spent, grant' = grant PROVE \A d \in Days : Charged(d)' = Charged(d)
  <2>1. \A d \in Days : Granted(d)' = Granted(d)
    BY <1>2 DEF Granted
  <2>2. QED
    BY <1>2, <2>1 DEF Charged
<1>3. QED
  BY <1>1, <1>2

(* A cloud call that leaves moves a charge from granted to spent, and there  *)
(* was room for it.                                                          *)
LEMMA SendCharges ==
    ASSUME TypeInv, ChargesAreCovered, NEW c \in Calls, NEW by, Send(c, by)
    PROVE  /\ \A d \in Days : Charged(d)' = Charged(d)
           /\ spent' # spent => \E d \in Days : Budget!Call(d)
<1> USE DEF TypeInv, TypeOK
<1>1. CASE by # "cloud" \/ grant[c] = NoDay
  <2>1. spent' = spent
    BY <1>1 DEF Send
  <2>2. \A d \in Days : Granted(d)' = Granted(d)
    BY <1>1, FieldTypes DEF Send, Granted
  <2>3. QED
    BY <2>1, <2>2 DEF Charged
<1>2. CASE by = "cloud" /\ grant[c] # NoDay
  <2>0. PICK e \in Days : grant[c] = e
    BY <1>2
  <2>1. e \in Days /\ spent[e] \in Nat
    BY <2>0
  <2>2. grant' = [grant EXCEPT ![c] = NoDay] /\ spent' = [spent EXCEPT ![e] = spent[e] + 1]
    BY <1>2, <2>0 DEF Send
  <2>3. c \in Granted(e) /\ Granted(e)' = Granted(e) \ {c}
    BY <2>0, <2>2, FieldTypes DEF Granted
  <2>4. Cardinality(Granted(e)') = Cardinality(Granted(e)) - 1 /\ Cardinality(Granted(e)) \in Nat
    BY <2>1, <2>3, GrantedFinite, FS_RemoveElement
  <2>5. \A d \in Days \ {e} : Granted(d)' = Granted(d) /\ spent'[d] = spent[d]
    BY <2>0, <2>2, FieldTypes DEF Granted
  <2>6. Charged(e)' = Charged(e)
    BY <2>1, <2>2, <2>4 DEF Charged
  <2>7. \A d \in Days \ {e} : Charged(d)' = Charged(d)
    BY <2>5 DEF Charged
  <2>8. Cardinality(Granted(e)) # 0
    BY <2>1, <2>3, GrantedFinite, FS_EmptySet
  <2>9. spent[e] < Limit
    BY <2>1, <2>4, <2>8, LimitType DEF ChargesAreCovered, Charged
  <2>10. Budget!Call(e)
    BY <2>1, <2>2, <2>9 DEF Budget!Call
  <2>11. QED
    BY <2>1, <2>6, <2>7, <2>10
<1>3. QED
  BY <1>1, <1>2

(* Raising the counter grants at most one more call, and only within limits. *)
LEMMA ConsumeCharges ==
    ASSUME TypeInv, ChargesAreCovered, NEW c \in Calls, NEW place, NEW granted, NEW refused,
           Consume(c, place, granted, refused)
    PROVE  ChargesAreCovered'
<1> USE DEF TypeInv, TypeOK
<1>1. PICK t \in Days : today = t
  OBVIOUS
<1>2. spent' = spent /\ counter[t] \in Nat /\ counter' = [counter EXCEPT ![t] = counter[t] + 1]
  BY <1>1 DEF Consume
<1>3. CASE ~WithinLimit
  <2>1. \A d \in Days : Charged(d)' = Charged(d) /\ Charged(d) \in Nat
    BY <1>2, <1>3, ChargedTypes DEF Consume
  <2>2. \A d \in Days : counter'[d] \in {counter[d], counter[d] + 1} /\ counter[d] \in Nat
    BY <1>2
  <2>3. QED
    BY <2>1, <2>2 DEF ChargesAreCovered
<1>4. CASE WithinLimit
  <2>1. grant' = [grant EXCEPT ![c] = t]
    BY <1>1, <1>4 DEF Consume
  <2>2. Granted(t)' = Granted(t) \cup {c}
    BY <2>1 DEF Granted
  <2>3. \A d \in Days \ {t} : Granted(d)' \in SUBSET Granted(d)
    BY <2>1 DEF Granted
  <2>4. Cardinality(Granted(t)') \in {Cardinality(Granted(t)), Cardinality(Granted(t)) + 1}
        /\ Cardinality(Granted(t)) \in Nat
    <3>1. IsFiniteSet(Granted(t)) /\ Cardinality(Granted(t)) \in Nat
      BY GrantedFinite
    <3>2. Cardinality(Granted(t) \cup {c}) \in {Cardinality(Granted(t)), Cardinality(Granted(t)) + 1}
      <4> HIDE DEF Granted
      <4>1. QED
        BY <3>1, FS_AddElement
    <3>3. QED
      BY <2>2, <3>1, <3>2
  <2>5. \A d \in Days \ {t} : /\ Cardinality(Granted(d)') <= Cardinality(Granted(d))
                              /\ Cardinality(Granted(d)') \in Nat
                              /\ Cardinality(Granted(d)) \in Nat
    BY <2>3, GrantedFinite, FS_Subset, FS_CardinalityType
  <2>6. Charged(t)' <= counter'[t] /\ Charged(t)' <= Limit
    BY <1>1, <1>2, <1>4, <2>4, LimitType DEF ChargesAreCovered, Charged, WithinLimit
  <2>7. ASSUME NEW d \in Days \ {t}
        PROVE  Charged(d)' <= counter'[d] /\ Charged(d)' <= Limit
    BY <1>2, <2>5, LimitType DEF ChargesAreCovered, Charged
  <2>8. QED
    BY <2>6, <2>7 DEF ChargesAreCovered
<1>5. QED
  BY <1>3, <1>4

(* A failing Redis may have counted a call nobody makes, but grants none.    *)
LEMMA ConsumeFailsCharges ==
    ASSUME TypeInv, ChargesAreCovered, NEW c \in Calls, NEW place, NEW refused,
           ConsumeFails(c, place, refused)
    PROVE  ChargesAreCovered'
<1>1. \A d \in Days : Charged(d)' = Charged(d) /\ Charged(d) \in Nat
  BY ChargedTypes DEF ConsumeFails
<1>2. \A d \in Days : counter'[d] \in {counter[d], counter[d] + 1} /\ counter[d] \in Nat
  BY DEF ConsumeFails, TypeInv, TypeOK
<1>3. QED
  BY <1>1, <1>2 DEF ChargesAreCovered

(* A step that neither counts nor sends changes no charge.                   *)
Uncharged == UNCHANGED <<counter, grant, spent>>

(* Every step keeps the charges covered and is a step of the daily budget.   *)
LEMMA BudgetStep ==
    ASSUME TypeInv, ChargesAreCovered, [Next]_vars
    PROVE  ChargesAreCovered' /\ [Budget!Next]_spent
<1>1. ASSUME Uncharged PROVE ChargesAreCovered' /\ spent' = spent
  BY <1>1, ChargedTypes DEF Uncharged, ChargesAreCovered
<1>2. ASSUME NEW c \in Calls, NEW by, Send(c, by), counter' = counter
      PROVE  ChargesAreCovered' /\ [Budget!Next]_spent
  <2>1. ChargesAreCovered'
    BY <1>2, SendCharges DEF ChargesAreCovered
  <2>2. QED
    BY <1>2, <2>1, SendCharges DEF Budget!Next
<1>3. ASSUME NEW c \in Calls, Step(c) PROVE ChargesAreCovered' /\ [Budget!Next]_spent
  <2>1. CASE LookUpHit(c) \/ LookUpMiss(c) \/ Store(c) \/ Verify(c)
    <3>1. Uncharged
      BY <2>1 DEF LookUpHit, LookUpMiss, Store, Verify, Uncharged
    <3>2. QED
      BY <3>1, <1>1
  <2>2. CASE \/ Consume(c, "consume", "call", "raised")
             \/ Consume(c, "verify_consume", "verify_call", "done")
    <3>1. spent' = spent
      BY <2>2 DEF Consume
    <3>2. QED
      BY <2>2, <3>1, ConsumeCharges
  <2>3. CASE ConsumeFails(c, "consume", "raised") \/ ConsumeFails(c, "verify_consume", "done")
    <3>1. spent' = spent
      BY <2>3 DEF ConsumeFails
    <3>2. QED
      BY <2>3, <3>1, ConsumeFailsCharges
  <2>4. CASE \/ CallRaises(c) \/ VerifyRaises(c)
             \/ \E kind \in Kinds : CallAnswers(c, kind) \/ VerifyAnswers(c, kind)
    <3>1. counter' = counter /\ \E by \in {Provider(c), "cloud"} : Send(c, by)
      BY <2>4 DEF CallRaises, VerifyRaises, CallAnswers, VerifyAnswers
    <3>2. QED
      BY <3>1, <1>2
  <2>5. QED
    BY <1>3, <2>1, <2>2, <2>3, <2>4 DEF Step
<1>4. CASE \/ \E c \in Calls, r \in Requests : BeginRefused(c, r) \/ Begin(c, r)
           \/ \E c \in Calls : Crash(c)
           \/ Midnight \/ (\E k \in Days \X Prompts : Expire(k)) \/ UNCHANGED vars
  <2>1. Uncharged
    BY <1>4 DEF BeginRefused, Begin, Crash, Midnight, Expire, vars, Uncharged
  <2>2. QED
    BY <2>1, <1>1
<1>5. QED
  BY <1>3, <1>4 DEF Next, Terminated

(* Initially nothing is granted and nothing spent.                           *)
LEMMA InitCharges == Init => ChargesAreCovered /\ Budget!Init
<1> SUFFICES ASSUME Init PROVE ChargesAreCovered /\ Budget!Init
  OBVIOUS
<1>1. \A d \in Days : Granted(d) = {}
  BY FieldTypes DEF Init, Granted
<1>2. \A d \in Days : Cardinality(Granted(d)) = 0
  BY <1>1, FS_EmptySet
<1>3. ChargesAreCovered
  BY <1>2, LimitType DEF Init, ChargesAreCovered, Charged
<1>4. QED
  BY <1>3 DEF Init, Budget!Init

(* The gateway implements the daily budget: Limit cloud calls a day, however *)
(* many callers race for them, across midnights, crashes and Redis failures. *)
THEOREM GatewayRefinesBudget == Spec => BudgetIsRespected
<1>1. TypeInv /\ ChargesAreCovered /\ [Next]_vars
        => (TypeInv /\ ChargesAreCovered)' /\ [Budget!Next]_spent
  BY NextTypeInv, BudgetStep
<1>2. Init => TypeInv /\ ChargesAreCovered /\ Budget!Init
  BY InitTypeInv, InitCharges
<1>3. QED
  BY <1>1, <1>2, PTL DEF Spec, BudgetIsRespected, Budget!Spec

-----------------------------------------------------------------------------
(* The books of one call.  Before it asks anybody it holds no grant; with a  *)
(* budget it holds one when the cloud is next; a hit ends it; an answer of   *)
(* the cloud to a task routed to local is on record as an escalation from    *)
(* the moment it is given.                                                   *)
Answered(c) == pc[c] \in {"store", "verify", "verify_consume", "verify_call", "done"}

CallKeepsBooks(c) ==
    /\ pc[c] \in {"idle", "lookup"} => grant[c] = NoDay
    /\ (config.budget /\ CloudIsNext(c)) => grant[c] # NoDay
    /\ cached[c] => /\ pc[c] = "done" /\ sent[c] = 0 /\ grant[c] = NoDay
                    /\ output[c].prompt = req[c].prompt /\ output[c].day = keyDay[c]
    /\ Answered(c) => output[c] \in OutputType
    /\ (Answered(c) /\ req[c].route = "local" /\ output[c].by = "cloud") => escalated[c]
    /\ (Working(c) /\ req[c].route = "local" /\ Provider(c) = "cloud") => escalated[c]

BooksAreKept == \A c \in Calls : CallKeepsBooks(c)

BooksInv == TypeInv /\ OnTheWay /\ CacheHoldsFirstCloudAnswers /\ BooksAreKept

\* Another call, the clock or Redis took the step.
Untouched(c) ==
    /\ config' = config
    /\ pc'[c] = pc[c] /\ req'[c] = req[c] /\ grant'[c] = grant[c] /\ keyDay'[c] = keyDay[c]
    /\ output'[c] = output[c] /\ cached'[c] = cached[c] /\ escalated'[c] = escalated[c]
    /\ sent'[c] = sent[c]

(* What is not touched keeps its books.                                      *)
LEMMA UntouchedKeepsBooks ==
    ASSUME NEW c \in Calls, CallKeepsBooks(c), Untouched(c)
    PROVE  CallKeepsBooks(c)'
BY DEF Untouched, CallKeepsBooks, CloudIsNext, Answered, Working, Provider, ProviderOf,
       Overridden, Allowed

(* A step of one call touches no other call.                                 *)
LEMMA StepTouchesOne ==
    ASSUME TypeInv, NEW b \in Calls, NEW c \in Calls, b # c,
           Step(b) \/ Crash(b) \/ \E r \in Requests : BeginRefused(b, r) \/ Begin(b, r)
    PROVE  Untouched(c)
<1> USE DEF TypeInv, TypeOK, Untouched, Goto
<1>1. CASE Crash(b) \/ \E r \in Requests : BeginRefused(b, r) \/ Begin(b, r)
  BY <1>1 DEF Crash, BeginRefused, Begin
<1>2. CASE LookUpHit(b) \/ LookUpMiss(b) \/ Store(b) \/ Verify(b)
  BY <1>2 DEF LookUpHit, LookUpMiss, Store, Verify
<1>3. ASSUME NEW place, NEW granted, NEW refused,
             Consume(b, place, granted, refused) \/ ConsumeFails(b, place, refused)
      PROVE  Untouched(c)
  BY <1>3 DEF Consume, ConsumeFails
<1>4. CASE CallRaises(b) \/ \E kind \in Kinds : CallAnswers(b, kind)
  <2>1. Send(b, Provider(b)) /\ UNCHANGED <<config, req, keyDay, cached, escalated>>
    BY <1>4 DEF CallRaises, CallAnswers
  <2>2. sent'[c] = sent[c] /\ grant'[c] = grant[c]
    BY <2>1 DEF Send
  <2>3. pc'[c] = pc[c] /\ output'[c] = output[c]
    BY <1>4 DEF CallRaises, CallAnswers
  <2>4. QED
    BY <2>1, <2>2, <2>3
<1>5. CASE VerifyRaises(b) \/ \E kind \in Kinds : VerifyAnswers(b, kind)
  BY <1>5 DEF VerifyRaises, VerifyAnswers, Send, Attempted
<1>6. QED
  BY <1>1, <1>2, <1>3, <1>4, <1>5 DEF Step

(* A call keeps its books at each of its own steps.                          *)
LEMMA OwnStepKeepsBooks ==
    ASSUME BooksInv, NEW c \in Calls,
           Step(c) \/ Crash(c) \/ \E r \in Requests : BeginRefused(c, r) \/ Begin(c, r)
    PROVE  CallKeepsBooks(c)'
<1> USE DEF BooksInv, TypeInv, TypeOK, BooksAreKept, CallKeepsBooks, CloudIsNext, Answered,
        Working, Provider, Goto
<1>1. ASSUME NEW r \in Requests, BeginRefused(c, r) PROVE CallKeepsBooks(c)'
  <2>1. pc'[c] = "raised" /\ ~cached'[c]
    BY <1>1 DEF BeginRefused
  <2>2. QED
    BY <2>1
<1>2. ASSUME NEW r \in Requests, Begin(c, r) PROVE CallKeepsBooks(c)'
  BY <1>2 DEF Begin, AskAt, ProviderOf, Overridden, Allowed
<1>3. CASE Crash(c)
  BY <1>3 DEF Crash, Ended, ProviderOf, Overridden, Allowed
<1>4. CASE LookUpHit(c)
  <2>1. Key(c) \in Days \X Prompts /\ Key(c)[1] = keyDay[c] /\ Key(c)[2] = req[c].prompt
    BY <1>4, FieldTypes DEF LookUpHit, Key, WorkingIsAccepted
  <2>2. /\ cache[Key(c)] \in OutputType
        /\ cache[Key(c)].day = keyDay[c] /\ cache[Key(c)].prompt = req[c].prompt
    BY <1>4, <2>1 DEF LookUpHit, CacheHoldsFirstCloudAnswers
  <2>3. sent[c] = 0 /\ ProviderOf(req[c]) = "cloud"
    BY <1>4 DEF LookUpHit, OnTheWay, CallIsOnItsWay
  <2>4. QED
    BY <1>4, <2>2, <2>3 DEF LookUpHit
<1>5. CASE LookUpMiss(c)
  BY <1>5 DEF LookUpMiss, AfterMiss, AskAt, ProviderOf, Overridden, Allowed
<1>6. CASE Consume(c, "consume", "call", "raised")
  BY <1>6, FieldTypes DEF Consume, ProviderOf, Overridden, Allowed
<1>7. CASE Consume(c, "verify_consume", "verify_call", "done")
  BY <1>7, FieldTypes DEF Consume, ProviderOf, Overridden, Allowed
<1>8. CASE ConsumeFails(c, "consume", "raised")
  BY <1>8 DEF ConsumeFails, ProviderOf, Overridden, Allowed
<1>9. CASE ConsumeFails(c, "verify_consume", "done")
  BY <1>9 DEF ConsumeFails, ProviderOf, Overridden, Allowed
<1>10. ASSUME NEW kind \in Kinds, CallAnswers(c, kind) PROVE CallKeepsBooks(c)'
  <2>1. Provider(c) \in Providers
    BY <1>10, AcceptedProvider DEF CallAnswers, WorkingIsAccepted
  <2>2. /\ OutputOf(c, kind, Provider(c), FALSE) \in OutputType
        /\ OutputOf(c, kind, Provider(c), FALSE).by = Provider(c)
    BY <1>10, <2>1, OutputOfType DEF CallAnswers, OutputOf
  <2>3. pc'[c] \in {"store", "verify", "done"} /\ output'[c] = OutputOf(c, kind, Provider(c), FALSE)
    BY <1>10 DEF CallAnswers
  <2>4. UNCHANGED <<config, req, cached, escalated>> /\ ~cached[c] /\ pc[c] = "call"
    BY <1>10 DEF CallAnswers
  <2>5. QED
    BY <2>2, <2>3, <2>4 DEF ProviderOf, Overridden, Allowed
<1>11. CASE CallRaises(c)
  BY <1>11 DEF CallRaises
<1>12. CASE Store(c)
  BY <1>12 DEF Store, ProviderOf, Overridden, Allowed
<1>13. CASE Verify(c)
  BY <1>13 DEF Verify, VerifyAt, ProviderOf, Overridden, Allowed
<1>14. ASSUME NEW kind \in Kinds, VerifyAnswers(c, kind) PROVE CallKeepsBooks(c)'
  <2>1. OutputOf(c, kind, "cloud", TRUE) \in OutputType
    BY <1>14, OutputOfType DEF VerifyAnswers, Providers
  <2>2. QED
    BY <1>14, <2>1 DEF VerifyAnswers, Attempted, ProviderOf, Overridden, Allowed
<1>15. CASE VerifyRaises(c)
  BY <1>15 DEF VerifyRaises, Attempted, ProviderOf, Overridden, Allowed
<1>16. QED
  BY <1>1, <1>2, <1>3, <1>4, <1>5, <1>6, <1>7, <1>8, <1>9, <1>10, <1>11, <1>12, <1>13,
     <1>14, <1>15 DEF Step

(* Only a store puts something into the cache, and it puts there the answer  *)
(* the cloud just gave to the key.                                           *)
LEMMA CacheStep ==
    ASSUME BooksInv, [Next]_vars PROVE CacheHoldsFirstCloudAnswers'
<1> USE DEF BooksInv, TypeInv, TypeOK, CacheHoldsFirstCloudAnswers
<1>1. ASSUME cache' = cache PROVE CacheHoldsFirstCloudAnswers'
  BY <1>1
<1>2. ASSUME NEW c \in Calls, Store(c) PROVE CacheHoldsFirstCloudAnswers'
  <2>1. /\ Key(c) \in Days \X Prompts /\ Key(c)[1] = keyDay[c] /\ Key(c)[2] = req[c].prompt
        /\ cache' = [cache EXCEPT ![Key(c)] = output[c]] \/ cache' = cache
    BY <1>2, FieldTypes DEF Store, Key, WorkingIsAccepted, Working
  <2>2. QED
    BY <1>2, <2>1 DEF Store, StoredIsFirstAnswer
<1>3. ASSUME NEW k \in Days \X Prompts, Expire(k) PROVE CacheHoldsFirstCloudAnswers'
  BY <1>3 DEF Expire
<1>4. ASSUME NEW c \in Calls, Step(c) PROVE CacheHoldsFirstCloudAnswers'
  BY <1>1, <1>2, <1>4 DEF Step, LookUpHit, LookUpMiss, Consume, ConsumeFails, CallAnswers,
     CallRaises, Verify, VerifyAnswers, VerifyRaises
<1>5. QED
  BY <1>1, <1>3, <1>4 DEF Next, Terminated, BeginRefused, Begin, Crash, Midnight, vars

(* Types, places, cache and books are kept together.                         *)
LEMMA SpecBooks == Spec => []BooksInv
<1>1. Init => BooksInv
  BY InitTypeInv DEF Init, BooksInv, OnTheWay, CallIsOnItsWay, CacheHoldsFirstCloudAnswers,
     BooksAreKept, CallKeepsBooks, CloudIsNext, Answered, Working
<1>2. ASSUME BooksInv, [Next]_vars PROVE BooksAreKept'
  <2> SUFFICES ASSUME NEW c \in Calls PROVE CallKeepsBooks(c)'
    BY DEF BooksAreKept
  <2>0. CallKeepsBooks(c) /\ TypeInv
    BY <1>2 DEF BooksInv, BooksAreKept
  <2>1. CASE Midnight \/ (\E k \in Days \X Prompts : Expire(k)) \/ UNCHANGED vars
    <3>1. Untouched(c)
      BY <2>1 DEF Midnight, Expire, vars, Untouched
    <3>2. QED
      BY <2>0, <3>1, UntouchedKeepsBooks
  <2>2. ASSUME NEW b \in Calls,
               Step(b) \/ Crash(b) \/ \E r \in Requests : BeginRefused(b, r) \/ Begin(b, r)
        PROVE  CallKeepsBooks(c)'
    <3>1. CASE b = c
      BY <1>2, <2>2, <3>1, OwnStepKeepsBooks
    <3>2. CASE b # c
      BY <2>0, <2>2, <3>2, StepTouchesOne, UntouchedKeepsBooks
    <3>3. QED
      BY <3>1, <3>2
  <2>3. QED
    BY <1>2, <2>1, <2>2 DEF Next, Terminated
<1>3. BooksInv /\ [Next]_vars => BooksInv'
  BY <1>2, NextTypeInv, OnTheWayStep, CacheStep DEF BooksInv
<1>4. QED
  BY <1>1, <1>3, PTL DEF Spec

(* With a budget every cloud call is charged to a day before it is made, and *)
(* no day is charged more often than it was counted up.                      *)
THEOREM CloudCallsArePaid == Spec => []CallsArePaid
<1>1. TypeInv /\ ChargesAreCovered /\ [Next]_vars => (TypeInv /\ ChargesAreCovered)'
  BY NextTypeInv, BudgetStep
<1>2. Init => TypeInv /\ ChargesAreCovered
  BY InitTypeInv, InitCharges
<1>3. TypeInv /\ ChargesAreCovered /\ BooksInv => CallsArePaid
  <2> SUFFICES ASSUME TypeInv, ChargesAreCovered, BooksInv PROVE CallsArePaid
    OBVIOUS
  <2>1. \A d \in Days : spent[d] <= counter[d]
    BY GrantedFinite DEF ChargesAreCovered, Charged, TypeInv, TypeOK
  <2>2. QED
    BY <2>1 DEF BooksInv, BooksAreKept, CallKeepsBooks, CallsArePaid
<1>4. QED
  BY <1>1, <1>2, <1>3, SpecBooks, PTL DEF Spec

(* A hit costs nothing and answers its own prompt as asked on its own date.  *)
THEOREM HitsCostNothing == Spec => []HitsAreFreeAndFresh
<1>1. BooksInv => HitsAreFreeAndFresh
  BY DEF BooksInv, BooksAreKept, CallKeepsBooks, HitsAreFreeAndFresh
<1>2. QED
  BY SpecBooks, <1>1, PTL

(* Whoever stores, and however late: the cache holds first answers of the    *)
(* cloud, each under the key it answers.                                     *)
THEOREM CacheIsSound == Spec => []CacheHoldsFirstCloudAnswers
<1>1. BooksInv => CacheHoldsFirstCloudAnswers
  BY DEF BooksInv
<1>2. QED
  BY SpecBooks, <1>1, PTL

(* No answer of the cloud to a task routed to local goes unreported.         *)
THEOREM EscalationsAreReported == Spec => []EscalationIsVisible
<1>1. BooksInv => EscalationIsVisible
  BY DEF BooksInv, BooksAreKept, CallKeepsBooks, Answered, EscalationIsVisible
<1>2. QED
  BY SpecBooks, <1>1, PTL

-----------------------------------------------------------------------------
(* The answers.  Wherever it came from, the answer a call holds answers the  *)
(* prompt of the call, under the date of its key, and what may not leave was *)
(* not answered by the cloud.                                                *)
AnswerFits(c) ==
    /\ output[c] \in OutputType
    /\ output[c].prompt = req[c].prompt /\ output[c].day = keyDay[c]
    /\ output[c].by = "cloud" => Allowed(req[c])

AnswersFit == \A c \in Calls : Answered(c) => AnswerFits(c)

(* A completion is given the answer to its own prompt, as asked on the date  *)
(* the call began, also when it ended after midnight; a payload that may not *)
(* leave is answered locally or not at all.                                  *)
CompletionsAnswerTheirs == \A c \in Calls : pc[c] = "done" => AnswerFits(c)

(* A call that answers itself answers its prompt.                            *)
LEMMA OwnAnswerFits ==
    ASSUME BooksInv, AnswersFit, NEW c \in Calls, Step(c), Answered(c)'
    PROVE  AnswerFits(c)'
<1> USE DEF BooksInv, TypeInv, TypeOK, AnswersFit, AnswerFits, Answered, Working, Goto, Allowed
<1>1. Working(c) => /\ ~Refused(req[c]) /\ req[c] \in Requests /\ keyDay[c] \in Days
  BY DEF WorkingIsAccepted
<1>2. CASE LookUpHit(c)
  <2>1. Key(c) \in Days \X Prompts /\ Key(c)[1] = keyDay[c] /\ Key(c)[2] = req[c].prompt
    BY <1>1, <1>2, FieldTypes DEF LookUpHit, Key
  <2>2. /\ cache[Key(c)] \in OutputType
        /\ cache[Key(c)].day = keyDay[c] /\ cache[Key(c)].prompt = req[c].prompt
    BY <1>2, <2>1 DEF LookUpHit, CacheHoldsFirstCloudAnswers
  <2>3. Allowed(req[c])
    BY <1>1, <1>2, AcceptedProvider DEF LookUpHit, OnTheWay, CallIsOnItsWay, Provider
  <2>4. QED
    BY <1>2, <2>2, <2>3 DEF LookUpHit
<1>3. ASSUME NEW kind \in Kinds, CallAnswers(c, kind) PROVE AnswerFits(c)'
  <2>1. Provider(c) \in Providers /\ (Provider(c) = "cloud" => Allowed(req[c]))
    BY <1>1, <1>3, AcceptedProvider DEF CallAnswers, Provider
  <2>2. OutputOf(c, kind, Provider(c), FALSE) \in OutputType
    BY <1>3, <2>1, OutputOfType DEF CallAnswers
  <2>3. /\ output'[c] = OutputOf(c, kind, Provider(c), FALSE)
        /\ req' = req /\ keyDay' = keyDay
    BY <1>3 DEF CallAnswers
  <2>4. QED
    BY <2>1, <2>2, <2>3 DEF OutputOf
<1>4. ASSUME NEW kind \in Kinds, VerifyAnswers(c, kind) PROVE AnswerFits(c)'
  <2>1. OutputOf(c, kind, "cloud", TRUE) \in OutputType /\ Allowed(req[c])
    BY <1>4, OutputOfType DEF VerifyAnswers, Providers, OnTheWay, CallIsOnItsWay
  <2>2. /\ output'[c] \in {output[c], OutputOf(c, kind, "cloud", TRUE)}
        /\ req' = req /\ keyDay' = keyDay
    BY <1>4 DEF VerifyAnswers
  <2>3. QED
    BY <1>4, <2>1, <2>2 DEF OutputOf, VerifyAnswers
<1>5. ASSUME ~LookUpHit(c), ~ \E kind \in Kinds : CallAnswers(c, kind) \/ VerifyAnswers(c, kind)
      PROVE  AnswerFits(c)'
  <2>1. Answered(c) /\ output' = output /\ req' = req /\ keyDay' = keyDay
    BY <1>5 DEF Step, LookUpMiss, AfterMiss, AskAt, Consume, ConsumeFails, CallRaises, Store,
                Verify, VerifyRaises
  <2>2. QED
    BY <2>1
<1>6. QED
  BY <1>2, <1>3, <1>4, <1>5

(* No step makes a call hold the answer to another prompt or date.           *)
LEMMA AnswersFitStep == BooksInv /\ AnswersFit /\ [Next]_vars => AnswersFit'
<1> SUFFICES ASSUME BooksInv, AnswersFit, [Next]_vars, NEW c \in Calls, Answered(c)'
             PROVE  AnswerFits(c)'
  BY DEF AnswersFit
<1>1. ASSUME Untouched(c) PROVE AnswerFits(c)'
  BY <1>1 DEF Untouched, Answered, AnswersFit, AnswerFits, Allowed
<1>2. CASE Midnight \/ (\E k \in Days \X Prompts : Expire(k)) \/ UNCHANGED vars
  BY <1>1, <1>2 DEF Midnight, Expire, vars, Untouched
<1>3. ASSUME NEW b \in Calls, b # c,
             Step(b) \/ Crash(b) \/ \E r \in Requests : BeginRefused(b, r) \/ Begin(b, r)
      PROVE  AnswerFits(c)'
  BY <1>1, <1>3, StepTouchesOne DEF BooksInv
<1>4. CASE Crash(c) \/ \E r \in Requests : BeginRefused(c, r) \/ Begin(c, r)
  BY <1>4 DEF Crash, BeginRefused, Begin, AskAt, Goto, Answered, BooksInv, TypeInv, TypeOK
<1>5. QED
  BY <1>2, <1>3, <1>4, OwnAnswerFits DEF Next, Terminated

(* Every completion is answered on its own prompt and date.                  *)
THEOREM CompletionsAreTheirs == Spec => []CompletionsAnswerTheirs
<1>1. Init => AnswersFit
  BY DEF Init, AnswersFit, Answered
<1>2. AnswersFit => CompletionsAnswerTheirs
  BY DEF AnswersFit, CompletionsAnswerTheirs, Answered
<1>3. QED
  BY <1>1, <1>2, AnswersFitStep, SpecBooks, PTL DEF Spec

-----------------------------------------------------------------------------
(* Hits were paid for.  A call that paid for an answer never changes again   *)
(* in what it asked, when, and how often it called.                          *)
Payer(b, day, prompt) == sent[b] = 1 /\ keyDay[b] = day /\ req[b].prompt = prompt

Paid(day, prompt) == \E b \in Calls : Payer(b, day, prompt)

AnswersArePaid ==
    /\ \A c \in Calls : pc[c] = "store" => sent[c] = 1
    /\ \A k \in Days \X Prompts : cache[k] # NoOutput => Paid(k[1], k[2])
    /\ \A c \in Calls : cached[c] => Paid(keyDay[c], req[c].prompt)

(* What a hit gives away another call paid for, on the same date and for the *)
(* same prompt: an answer is never found before somebody called for it.      *)
HitsWerePaidOnce ==
    \A c \in Calls : cached[c] =>
        \E b \in Calls \ {c} : Payer(b, keyDay[c], req[c].prompt)

(* Who paid stays on record.                                                 *)
LEMMA PayersStay ==
    ASSUME TypeInv, OnTheWay, [Next]_vars, NEW day, NEW prompt, Paid(day, prompt)
    PROVE  Paid(day, prompt)'
<1> USE DEF TypeInv, TypeOK
<1>1. PICK b \in Calls : Payer(b, day, prompt)
  BY DEF Paid
<1>2. pc[b] \in {"store", "done", "raised", "crashed"} /\ sent[b] = 1
  BY <1>1 DEF Payer, OnTheWay, CallIsOnItsWay
<1>3. ASSUME Untouched(b) PROVE Payer(b, day, prompt)'
  BY <1>1, <1>3 DEF Untouched, Payer
<1>4. ASSUME Midnight \/ (\E k \in Days \X Prompts : Expire(k)) \/ UNCHANGED vars
      PROVE  Payer(b, day, prompt)'
  BY <1>3, <1>4 DEF Midnight, Expire, vars, Untouched
<1>5. ASSUME NEW c \in Calls, b # c,
             Step(c) \/ Crash(c) \/ \E r \in Requests : BeginRefused(c, r) \/ Begin(c, r)
      PROVE  Payer(b, day, prompt)'
  BY <1>3, <1>5, StepTouchesOne
<1>6. ASSUME Step(b) \/ Crash(b) \/ \E r \in Requests : BeginRefused(b, r) \/ Begin(b, r)
      PROVE  Payer(b, day, prompt)'
  <2>1. Store(b) \/ Crash(b)
    BY <1>2, <1>6 DEF Step, LookUpHit, LookUpMiss, Consume, ConsumeFails, CallAnswers,
       CallRaises, Verify, VerifyAnswers, VerifyRaises, BeginRefused, Begin
  <2>2. QED
    BY <1>1, <2>1 DEF Store, Crash, Payer
<1>7. Payer(b, day, prompt)'
  BY <1>4, <1>5, <1>6 DEF Next, Terminated
<1>8. QED
  BY <1>7 DEF Paid

(* Only a call that went to the cloud puts an answer under its key, and only *)
(* what is there is hit.                                                     *)
LEMMA AnswersArePaidStep == BooksInv /\ AnswersArePaid /\ [Next]_vars => AnswersArePaid'
<1> SUFFICES ASSUME BooksInv, AnswersArePaid, [Next]_vars PROVE AnswersArePaid'
  OBVIOUS
<1> USE DEF BooksInv, TypeInv, TypeOK
<1>1. ASSUME NEW c \in Calls, pc'[c] = "store" PROVE sent'[c] = 1
  <2>1. CASE pc[c] = "store"
    <3>1. sent[c] = 1
      BY <2>1 DEF AnswersArePaid
    <3>2. ASSUME Untouched(c) PROVE sent'[c] = 1
      BY <3>1, <3>2 DEF Untouched
    <3>3. CASE Midnight \/ (\E k \in Days \X Prompts : Expire(k)) \/ UNCHANGED vars
      BY <3>2, <3>3 DEF Midnight, Expire, vars, Untouched
    <3>4. ASSUME NEW b \in Calls, b # c,
                 Step(b) \/ Crash(b) \/ \E r \in Requests : BeginRefused(b, r) \/ Begin(b, r)
          PROVE  sent'[c] = 1
      BY <3>2, <3>4, StepTouchesOne
    <3>5. CASE Step(c) \/ Crash(c) \/ \E r \in Requests : BeginRefused(c, r) \/ Begin(c, r)
      <4>1. Store(c) \/ Crash(c)
        BY <2>1, <3>5 DEF Step, LookUpHit, LookUpMiss, Consume, ConsumeFails, CallAnswers,
           CallRaises, Verify, VerifyAnswers, VerifyRaises, BeginRefused, Begin
      <4>2. QED
        BY <3>1, <4>1 DEF Store, Crash
    <3>6. QED
      BY <3>3, <3>4, <3>5 DEF Next, Terminated
  <2>2. CASE pc[c] # "store"
    <3>1. PICK kind \in Kinds : CallAnswers(c, kind)
      <4>1. PICK b \in Calls :
               \/ Step(b) \/ Crash(b)
               \/ \E r \in Requests : BeginRefused(b, r) \/ Begin(b, r)
        BY <1>1, <2>2 DEF Next, Terminated, Midnight, Expire, vars
      <4>2. b = c
        BY <1>1, <2>2, <4>1, StepTouchesOne DEF Untouched
      <4>3. QED
        BY <1>1, <2>2, <4>1, <4>2 DEF Step, Crash, BeginRefused, Begin, AskAt, LookUpHit,
           LookUpMiss, AfterMiss, Consume, ConsumeFails, CallRaises, Store, Verify, VerifyAt,
           VerifyAnswers, VerifyRaises, Goto
    <3>2. Provider(c) = "cloud" /\ sent[c] = 0 /\ Send(c, Provider(c))
      BY <1>1, <3>1 DEF CallAnswers, Goto, Storable, OnTheWay, CallIsOnItsWay
    <3>3. QED
      BY <3>2 DEF Send
  <2>3. QED
    BY <2>1, <2>2
<1>2. ASSUME NEW k \in Days \X Prompts, cache'[k] # NoOutput PROVE Paid(k[1], k[2])'
  <2>1. CASE cache[k] # NoOutput
    BY <2>1, PayersStay DEF AnswersArePaid
  <2>2. CASE cache[k] = NoOutput
    <3>1. PICK c \in Calls : Store(c) /\ Key(c) = k
      <4>1. PICK c \in Calls : Store(c)
        BY <1>2, <2>2 DEF Next, Terminated, Step, LookUpHit, LookUpMiss, Consume, ConsumeFails,
           CallAnswers, CallRaises, Verify, VerifyAnswers, VerifyRaises, BeginRefused, Begin,
           Crash, Midnight, Expire, vars
      <4>2. QED
        BY <1>2, <2>2, <4>1 DEF Store
    <3>2. k[1] = keyDay[c] /\ k[2] = req[c].prompt /\ sent[c] = 1
      BY <3>1 DEF Key, Store, AnswersArePaid
    <3>3. Paid(k[1], k[2])
      BY <3>2 DEF Paid, Payer
    <3>4. QED
      BY <3>3, PayersStay
  <2>3. QED
    BY <2>1, <2>2
<1>3. ASSUME NEW c \in Calls, cached'[c] PROVE Paid(keyDay[c], req[c].prompt)'
  <2>1. CASE cached[c]
    <3>1. Paid(keyDay[c], req[c].prompt) /\ pc[c] = "done"
      BY <2>1 DEF AnswersArePaid, BooksAreKept, CallKeepsBooks
    <3>2. keyDay'[c] = keyDay[c] /\ req'[c] = req[c]
      <4>1. CASE Midnight \/ (\E k \in Days \X Prompts : Expire(k)) \/ UNCHANGED vars
        BY <4>1 DEF Midnight, Expire, vars
      <4>2. ASSUME NEW b \in Calls,
                   Step(b) \/ Crash(b) \/ \E r \in Requests : BeginRefused(b, r) \/ Begin(b, r)
            PROVE  keyDay'[c] = keyDay[c] /\ req'[c] = req[c]
        <5>1. b # c
          BY <3>1, <4>2 DEF Step, Crash, Ended, LookUpHit, LookUpMiss, Consume, ConsumeFails,
             CallAnswers, CallRaises, Store, Verify, VerifyAnswers, VerifyRaises,
             BeginRefused, Begin
        <5>2. QED
          BY <4>2, <5>1, StepTouchesOne DEF Untouched
      <4>3. QED
        BY <4>1, <4>2 DEF Next, Terminated
    <3>3. ASSUME NEW day, NEW prompt, day = keyDay[c], prompt = req[c].prompt
          PROVE  Paid(keyDay[c], req[c].prompt)'
      <4>1. Paid(day, prompt)'
        BY <3>1, <3>3, PayersStay
      <4>2. QED
        BY <3>2, <3>3, <4>1 DEF Paid, Payer
    <3>4. QED
      BY <3>3
  <2>2. CASE ~cached[c]
    <3>1. LookUpHit(c)
      BY <1>3, <2>2 DEF Next, Terminated, Step, LookUpHit, LookUpMiss, Consume, ConsumeFails,
         CallAnswers, CallRaises, Store, Verify, VerifyAnswers, VerifyRaises, BeginRefused,
         Begin, Crash, Midnight, Expire, vars
    <3>2. Key(c) \in Days \X Prompts /\ Key(c)[1] = keyDay[c] /\ Key(c)[2] = req[c].prompt
      BY <3>1, FieldTypes DEF LookUpHit, Key, WorkingIsAccepted, Working
    <3>3. PICK b \in Calls : Payer(b, keyDay[c], req[c].prompt)
      BY <3>1, <3>2 DEF LookUpHit, AnswersArePaid, Paid
    <3>4. UNCHANGED <<sent, keyDay, req>>
      BY <3>1 DEF LookUpHit
    <3>5. QED
      BY <3>3, <3>4 DEF Paid, Payer
  <2>3. QED
    BY <2>1, <2>2
<1>4. QED
  BY <1>1, <1>2, <1>3 DEF AnswersArePaid

(* Every hit was paid for by another call of the same prompt and date.       *)
THEOREM HitsWerePaidFor == Spec => []HitsWerePaidOnce
<1>1. Init => AnswersArePaid
  BY DEF Init, AnswersArePaid
<1>2. BooksInv /\ AnswersArePaid => HitsWerePaidOnce
  BY DEF BooksInv, BooksAreKept, CallKeepsBooks, AnswersArePaid, Paid, Payer, HitsWerePaidOnce
<1>3. QED
  BY <1>1, <1>2, AnswersArePaidStep, SpecBooks, PTL DEF Spec

-----------------------------------------------------------------------------
(* What a step may do to what the processes share: the counter of today goes *)
(* up by one and every other day is settled; a call is charged to a day only *)
(* with the grant of that day, which it uses up; an entry of the cache only  *)
(* expires or becomes the answer of a call that is storing it.               *)
SharedStep ==
    /\ \A d \in Days : counter'[d] # counter[d] => d = today /\ counter'[d] = counter[d] + 1
    /\ \A d \in Days : spent'[d] # spent[d] =>
           /\ spent'[d] = spent[d] + 1
           /\ \E c \in Calls : grant[c] = d /\ grant'[c] = NoDay /\ sent'[c] = sent[c] + 1
    /\ \A k \in Days \X Prompts : cache'[k] # cache[k] =>
           \/ cache'[k] = NoOutput
           \/ \E c \in Calls : pc[c] = "store" /\ Key(c) = k /\ cache'[k] = output[c]

SharedStateIsKept == [][SharedStep]_vars

(* Whoever takes it, a step changes the counter, the charges and the cache   *)
(* in these ways only.                                                       *)
THEOREM SharedStateOnlyGrows == Spec => SharedStateIsKept
<1>1. ASSUME TypeInv, [Next]_vars PROVE SharedStep
  <2> USE <1>1 DEF TypeInv, TypeOK
  <2>1. ASSUME Uncharged, cache' = cache PROVE SharedStep
    BY <2>1 DEF Uncharged, SharedStep
  <2>2. ASSUME NEW c \in Calls, NEW by, Send(c, by), counter' = counter, cache' = cache
        PROVE  SharedStep
    <3>1. ASSUME NEW d \in Days, spent'[d] # spent[d]
          PROVE  /\ spent'[d] = spent[d] + 1
                 /\ grant[c] = d /\ grant'[c] = NoDay /\ sent'[c] = sent[c] + 1
      BY <2>2, <3>1 DEF Send
    <3>2. QED
      BY <2>2, <3>1 DEF SharedStep
  <2>3. ASSUME NEW c \in Calls, NEW place, NEW granted, NEW refused,
               Consume(c, place, granted, refused) \/ ConsumeFails(c, place, refused)
        PROVE  SharedStep
    <3>1. /\ \E n \in {counter[today], counter[today] + 1} :
                 counter' = [counter EXCEPT ![today] = n]
          /\ UNCHANGED <<cache, spent>>
      BY <2>3 DEF Consume, ConsumeFails
    <3>2. QED
      BY <3>1 DEF SharedStep
  <2>4. ASSUME NEW c \in Calls, Store(c) PROVE SharedStep
    BY <2>4 DEF Store, SharedStep
  <2>5. ASSUME NEW k \in Days \X Prompts, Expire(k) PROVE SharedStep
    BY <2>5 DEF Expire, SharedStep
  <2>6. ASSUME NEW c \in Calls, Step(c) PROVE SharedStep
    <3>1. CASE LookUpHit(c) \/ LookUpMiss(c) \/ Verify(c)
      BY <2>1, <3>1 DEF LookUpHit, LookUpMiss, Verify, Uncharged
    <3>2. CASE \/ CallRaises(c) \/ VerifyRaises(c)
               \/ \E kind \in Kinds : CallAnswers(c, kind) \/ VerifyAnswers(c, kind)
      <4>1. counter' = counter /\ cache' = cache /\ \E by \in {Provider(c), "cloud"} : Send(c, by)
        BY <3>2 DEF CallRaises, VerifyRaises, CallAnswers, VerifyAnswers
      <4>2. QED
        BY <2>2, <4>1
    <3>3. QED
      BY <2>3, <2>4, <2>6, <3>1, <3>2 DEF Step
  <2>7. CASE \/ \E c \in Calls, r \in Requests : BeginRefused(c, r) \/ Begin(c, r)
             \/ \E c \in Calls : Crash(c)
             \/ Midnight \/ UNCHANGED vars
    BY <2>1, <2>7 DEF BeginRefused, Begin, Crash, Midnight, vars, Uncharged
  <2>8. QED
    BY <2>5, <2>6, <2>7 DEF Next, Terminated
<1>2. QED
  BY <1>1, InitTypeInv, NextTypeInv, PTL DEF Spec, SharedStateIsKept
=============================================================================
