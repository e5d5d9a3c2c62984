---------------------------- MODULE Cards_proofs ----------------------------
(***************************************************************************)
(* Proofs about Cards, for any questions, requests, attempts and faults.   *)
(*                                                                         *)
(* A row is shown once, and once more for each fault that cut its delivery *)
(* short.  Each showing can be decided once: the click that decides it     *)
(* takes its pending row away, or leaves its card without buttons.         *)
(***************************************************************************)
EXTENDS Cards, FiniteSetTheorems, TLAPS

\* A row that is being sent is open and has a card of its own; to show a row
\* again costs a fault.
SendInv ==
    /\ sending \in Items => record[sending] = "open" /\ shown[sending] >= 1
    /\ stage = "posting" => cards[Card(sending)] = "none"
    /\ \A i \in Items :
        /\ shown[i] <= 1 + faults
        /\ record[i] = "open" /\ sending # i => shown[i] <= faults
        /\ record[i] = "none" => shown[i] = 0

\* Cards, pending rows and clicks belong to showings; a request's card that is
\* clicked and pending still has its buttons.
CardInv ==
    /\ \A c \in CardIds : cards[c] # "none" => c[2] <= shown[c[1]]
    /\ \A p \in pending : /\ shown[p[1]] >= 1
                          /\ p[1] \in Requests => p[2] \in 1..shown[p[1]]
                          /\ p[1] \in Questions => p[2] = 0
    /\ \A k \in clicks : /\ cards[k.card] # "none"
                         /\ k.card[1] \in Requests /\ k.card \in pending
                               => cards[k.card] = "open"

\* The showings of a request that can still be decided.
LiveCards(r) == {n \in 1..shown[r] : <<r, n>> \in pending /\ cards[<<r, n>>] # "edited"}

\* Each decision uses up a showing, and each listing is a decision.
CountInv ==
    \A r \in Requests :
        config[r] <= acted[r] /\ acted[r] + Cardinality(LiveCards(r)) <= shown[r]

\* Without a fault a row is shown once and decided once.
OnceInv ==
    /\ \A i \in Items \ hit :
        /\ shown[i] <= 1 /\ acted[i] <= 1
        /\ record[i] = "open" /\ sending # i => shown[i] = 0
        /\ shown[i] = 0 => acted[i] = 0
    /\ \A p \in pending : p[1] \notin hit => acted[p[1]] = 0

\* An admin can still decide the card.
Decidable(c) ==
    c \in pending /\ cards[c] # "none" /\ (cards[c] = "open" \/ \E k \in clicks : k.card = c)

\* A request that is on its way or delivered is not forgotten.
AskInv ==
    \A r \in Requests :
        /\ r \notin hit /\ (record[r] = "delivered" \/ (sending = r /\ stage = "posted"))
              => told[r] # {} \/ \E n \in 1..shown[r] : Decidable(<<r, n>>)
        /\ sending = r /\ stage = "posting" => Card(r) \in pending

\* What is installed is listed, so that every later build has it.
InstallInv ==
    \A r \in Requests :
        /\ kind[r] = "install" /\ "applied" \in told[r] => r \in image /\ config[r] > 0
        /\ record[r] = "none" => told[r] = {}

IInv ==
    /\ TypeOK /\ IsFiniteSet(answers)
    /\ SendInv /\ CardInv /\ CountInv /\ OnceInv /\ AskInv /\ InstallInv

-----------------------------------------------------------------------------
(* Cards and their keys.                                                   *)

\* A card is an item's; a request's pending row has the card's own key.
LEMMA Keys ==
    ASSUME NEW c \in CardIds
    PROVE  /\ c[1] \in Items /\ c[2] \in 1..1 + MaxFaults /\ c = <<c[1], c[2]>>
           /\ Key(c)[1] = c[1]
           /\ c[1] \in Requests => Key(c) = c
           /\ c[1] \in Questions => Key(c) = <<c[1], 0>>
  BY ItemsAssumption DEF CardIds, Items, Key

\* The card that is being sent is one of the model's.
LEMMA SentCard ==
    ASSUME TypeOK, SendInv, sending # Nothing
    PROVE  /\ sending \in Items /\ shown[sending] \in 1..1 + MaxFaults
           /\ Card(sending) \in CardIds /\ Card(sending)[1] = sending
           /\ Card(sending)[2] = shown[sending]
  BY BoundsAssumption DEF TypeOK, SendInv, Card, CardIds

\* The clicks are on cards.
LEMMA ClickedCard ==
    ASSUME TypeOK, NEW k \in clicks
    PROVE  k.card \in CardIds /\ k.value \in Values
  BY DEF TypeOK, Clicks

\* A request has finitely many showings, so its live cards can be counted.
LEMMA LiveCount ==
    ASSUME TypeOK, NEW r \in Requests
    PROVE  IsFiniteSet(LiveCards(r)) /\ Cardinality(LiveCards(r)) \in Nat
  <1>1. shown[r] \in Nat
    BY BoundsAssumption DEF TypeOK, Items
  <1>2. IsFiniteSet(1..shown[r])
    BY <1>1, FS_Interval
  <1> QED BY <1>2, FS_Subset, FS_CardinalityType DEF LiveCards

\* The same in the next state.
LEMMA LiveCountNext ==
    ASSUME TypeOK', NEW r \in Requests
    PROVE  IsFiniteSet(LiveCards(r)') /\ Cardinality(LiveCards(r)') \in Nat
  <1>1. shown'[r] \in Nat
    BY BoundsAssumption DEF TypeOK, Items
  <1>2. IsFiniteSet(1..shown'[r])
    BY <1>1, FS_Interval
  <1> QED BY <1>2, FS_Subset, FS_CardinalityType DEF LiveCards

\* A step that decides nothing, and revives no card, keeps the count.
LEMMA CountStep ==
    ASSUME IInv, TypeOK', UNCHANGED <<config, acted>>,
           \A r \in Requests : LiveCards(r)' \subseteq LiveCards(r) /\ shown'[r] = shown[r]
    PROVE  CountInv'
  <1> SUFFICES ASSUME NEW r \in Requests
               PROVE  /\ config[r] <= acted[r]
                      /\ acted[r] + Cardinality(LiveCards(r)') <= shown[r]
    BY DEF CountInv
  <1>1. Cardinality(LiveCards(r)') <= Cardinality(LiveCards(r))
    BY LiveCount, FS_Subset DEF IInv
  <1>2. Cardinality(LiveCards(r)) \in Nat /\ Cardinality(LiveCards(r)') \in Nat
    BY LiveCount, LiveCountNext DEF IInv
  <1>3. acted[r] \in Nat /\ shown[r] \in Nat
    BY BoundsAssumption DEF IInv, TypeOK, Items
  <1>4. config[r] <= acted[r] /\ acted[r] + Cardinality(LiveCards(r)) <= shown[r]
    BY DEF IInv, CountInv
  <1> QED BY <1>1, <1>2, <1>3, <1>4

\* A fault is within its bound, and what it has met stays met.
LEMMA FaultStep ==
    ASSUME TypeOK, NEW is \in SUBSET Items, FaultOn(is)
    PROVE  /\ faults' \in 0..MaxFaults /\ faults' = faults + 1 /\ faults \in Nat
           /\ hit' \in SUBSET Items /\ hit' = hit \cup is
  BY BoundsAssumption DEF TypeOK, FaultOn

\* Nothing about the cards changes, and nothing is delivered.
LEMMA AskSame ==
    ASSUME AskInv, UNCHANGED <<cards, clicks, pending, told, sending, stage, shown, hit>>,
           \A r \in Requests : record'[r] = "delivered" => record[r] = "delivered"
    PROVE  AskInv'
  <1>1. \A c : Decidable(c)' <=> Decidable(c)
    BY DEF Decidable
  <1> SUFFICES ASSUME NEW r \in Requests
               PROVE  /\ r \notin hit /\ (record'[r] = "delivered" \/ (sending = r /\ stage = "posted"))
                            => told[r] # {} \/ \E n \in 1..shown[r] : Decidable(<<r, n>>)'
                      /\ sending = r /\ stage = "posting" => Card(r)' \in pending
    BY DEF AskInv
  <1>2. Card(r)' = Card(r)
    BY DEF Card
  <1> QED BY <1>1, <1>2 DEF AskInv

-----------------------------------------------------------------------------
(* Steps of the container.                                                 *)

\* A step of the container writes a row or ends a call; it touches no card.
LEMMA ContainerKeeps ==
    ASSUME IInv,
           \/ \E q \in Questions : Ask(q) \/ TakeAnswer(q) \/ TimesOut(q)
           \/ \E r \in Requests : Request(r)
           \/ ContainerDies
    PROVE  IInv'
  <1> USE DEF IInv
  <1>1. ASSUME NEW q \in Questions, Ask(q) PROVE IInv'
    <2>1. TypeOK'
      BY <1>1 DEF Ask, TypeOK, cardVars, cfgVars, Items
    <2>2. UNCHANGED <<kind, attempts, sending, stage, shown, cards, clicks, pending, answers,
                      told, config, image, acted, hit, faults>>
          /\ q \in Items /\ record[q] = "none" /\ sending # q
          /\ record' = [record EXCEPT ![q] = "open"]
      BY <1>1 DEF Ask, cardVars, cfgVars, Items, SendInv
    <2>3. SendInv'
      BY <2>2, BoundsAssumption DEF SendInv, TypeOK, Card
    <2>4. CardInv'
      BY <2>2 DEF CardInv
    <2>5. CountInv'
      BY <2>1, <2>2, CountStep DEF LiveCards
    <2>6. OnceInv'
      BY <2>2 DEF OnceInv, TypeOK, SendInv
    <2>7. AskInv'
      <3>1. \A r \in Requests : record'[r] = "delivered" => record[r] = "delivered"
        BY <2>2 DEF TypeOK, Items
      <3> QED BY <2>2, <3>1, AskSame
    <2>8. InstallInv'
      BY <2>2, ItemsAssumption DEF InstallInv, TypeOK
    <2> QED BY <2>1, <2>2, <2>3, <2>4, <2>5, <2>6, <2>7, <2>8
  <1>2. ASSUME NEW r \in Requests, Request(r) PROVE IInv'
    <2>1. TypeOK'
      BY <1>2 DEF Request, TypeOK, cardVars, callVars, cfgVars, Items
    <2>2. UNCHANGED <<attempts, sending, stage, shown, cards, clicks, pending, answers,
                      told, config, image, acted, hit, faults>>
          /\ r \in Items /\ record[r] = "none" /\ sending # r
          /\ record' = [record EXCEPT ![r] = "open"]
          /\ \A x \in Requests \ {r} : kind'[x] = kind[x]
      BY <1>2 DEF Request, cardVars, callVars, cfgVars, Items, SendInv, TypeOK
    <2>3. SendInv'
      BY <2>2, BoundsAssumption DEF SendInv, TypeOK, Card
    <2>4. CardInv'
      BY <2>2 DEF CardInv
    <2>5. CountInv'
      BY <2>1, <2>2, CountStep DEF LiveCards
    <2>6. OnceInv'
      BY <2>2 DEF OnceInv, TypeOK, SendInv
    <2>7. AskInv'
      <3>1. \A x \in Requests : record'[x] = "delivered" => record[x] = "delivered"
        BY <2>2 DEF TypeOK, Items
      <3> QED BY <2>2, <3>1, AskSame
    <2>8. InstallInv'
      BY <2>2 DEF InstallInv, TypeOK
    <2> QED BY <2>1, <2>2, <2>3, <2>4, <2>5, <2>6, <2>7, <2>8
  <1>3. ASSUME UNCHANGED <<rowVars, cardVars, answers, cfgVars, acted, hit>>,
               faults' \in 0..MaxFaults, faults' >= faults,
               taken' \in SUBSET answers,
               call' \in [Questions -> {"none", "waiting", "answered", "timedout", "dead"}]
        PROVE  IInv'
    <2>1. TypeOK'
      BY <1>3 DEF TypeOK, rowVars, cardVars, cfgVars
    <2>2. UNCHANGED <<kind, record, attempts, sending, stage, shown, cards, clicks, pending, answers,
                      told, config, image, acted, hit>>
      BY <1>3 DEF rowVars, cardVars, cfgVars
    <2>3. SendInv'
      BY <1>3, <2>2, BoundsAssumption DEF SendInv, TypeOK, Card
    <2>4. CardInv' /\ OnceInv' /\ InstallInv'
      BY <2>2 DEF CardInv, OnceInv, InstallInv
    <2>5. CountInv'
      BY <2>1, <2>2, CountStep DEF LiveCards
    <2>6. AskInv'
      BY <2>2, AskSame
    <2> QED BY <2>1, <2>2, <2>3, <2>4, <2>5, <2>6
  <1>4. ASSUME NEW q \in Questions, TakeAnswer(q) PROVE IInv'
    <2>1. faults' \in 0..MaxFaults /\ faults' >= faults
      BY <1>4, BoundsAssumption DEF TakeAnswer, TypeOK
    <2>2. taken' \in SUBSET answers
          /\ call' \in [Questions -> {"none", "waiting", "answered", "timedout", "dead"}]
      BY <1>4 DEF TakeAnswer, TypeOK
    <2> QED BY <1>3, <1>4, <2>1, <2>2 DEF TakeAnswer
  <1>5. ASSUME NEW q \in Questions, TimesOut(q) PROVE IInv'
    <2>1. faults' \in 0..MaxFaults /\ faults' >= faults
      BY <1>5, BoundsAssumption DEF TimesOut, TypeOK
    <2>2. taken' \in SUBSET answers
          /\ call' \in [Questions -> {"none", "waiting", "answered", "timedout", "dead"}]
      BY <1>5 DEF TimesOut, TypeOK
    <2> QED BY <1>3, <1>5, <2>1, <2>2 DEF TimesOut
  <1>6. CASE ContainerDies
    <2>1. faults' \in 0..MaxFaults /\ faults' >= faults /\ hit' = hit
      BY <1>6, FaultStep DEF ContainerDies
    <2>2. taken' \in SUBSET answers
          /\ call' \in [Questions -> {"none", "waiting", "answered", "timedout", "dead"}]
      BY <1>6 DEF ContainerDies, Dead, TypeOK
    <2> QED BY <1>3, <1>6, <2>1, <2>2 DEF ContainerDies
  <1> QED BY <1>1, <1>2, <1>4, <1>5, <1>6

-----------------------------------------------------------------------------
(* Steps of the delivery.                                                  *)

\* A row that is taken up has been shown for the first time, or after a fault.
LEMMA TakeUpKeeps ==
    ASSUME IInv, NEW i \in Items, TakeUp(i)
    PROVE  IInv'
  <1> USE DEF IInv
  <1> DEFINE p == Key(<<i, shown[i] + 1>>)
  <1>1. /\ sending = Nothing /\ record[i] = "open"
        /\ sending' = i /\ stage' = "posting"
        /\ shown' = [shown EXCEPT ![i] = @ + 1]
        /\ pending' = pending \cup {p}
        /\ UNCHANGED <<kind, record, attempts, cards, clicks, call, answers, taken,
                       told, config, image, acted, hit, faults>>
    BY DEF TakeUp, callVars, cfgVars
  <1>2. /\ shown[i] \in Nat /\ shown[i] <= faults /\ faults \in Nat /\ faults <= MaxFaults
        /\ shown'[i] = shown[i] + 1 /\ \A x \in Items \ {i} : shown'[x] = shown[x]
    BY <1>1, ItemsAssumption, BoundsAssumption DEF SendInv, TypeOK
  <1>3. <<i, shown[i] + 1>> \in CardIds
    BY <1>2, BoundsAssumption DEF CardIds
  <1>4. /\ p[1] = i /\ p \in Items \X (0..1 + MaxFaults)
        /\ i \in Requests => p = <<i, shown[i] + 1>>
        /\ i \in Questions => p = <<i, 0>>
    BY <1>3, Keys, BoundsAssumption DEF Items
  <1>5. cards[<<i, shown[i] + 1>>] = "none"
    BY <1>2, <1>3, BoundsAssumption DEF CardInv, TypeOK
  <1>6. TypeOK'
    <2>1. shown' \in [Items -> 0..1 + MaxFaults]
      BY <1>1, <1>2, BoundsAssumption DEF TypeOK
    <2>2. pending' \in SUBSET (Items \X (0..1 + MaxFaults))
      BY <1>1, <1>4 DEF TypeOK
    <2> QED BY <1>1, <2>1, <2>2, ItemsAssumption DEF TypeOK
  <1>7. SendInv'
    <2>1. Card(sending)' = <<i, shown[i] + 1>>
      BY <1>1, <1>2 DEF Card
    <2>2. \A x \in Items :
            /\ shown'[x] <= 1 + faults
            /\ record[x] = "open" /\ i # x => shown'[x] <= faults
            /\ record[x] = "none" => shown'[x] = 0
      BY <1>1, <1>2, ItemsAssumption, BoundsAssumption DEF SendInv, TypeOK
    <2> QED BY <1>1, <1>2, <1>5, <2>1, <2>2 DEF SendInv
  <1>8. CardInv'
    <2>1. \A c \in CardIds : cards[c] # "none" => c[2] <= shown'[c[1]]
      <3> SUFFICES ASSUME NEW c \in CardIds, cards[c] # "none" PROVE c[2] <= shown'[c[1]]
        OBVIOUS
      <3>1. c[1] \in Items /\ c[2] \in Nat /\ c[2] <= shown[c[1]]
        BY Keys, BoundsAssumption DEF CardInv
      <3> QED BY <1>2, <3>1
    <2>2. \A x \in pending' : /\ shown'[x[1]] >= 1
                              /\ x[1] \in Requests => x[2] \in 1..shown'[x[1]]
                              /\ x[1] \in Questions => x[2] = 0
      <3> SUFFICES ASSUME NEW x \in pending'
                   PROVE  /\ shown'[x[1]] >= 1
                          /\ x[1] \in Requests => x[2] \in 1..shown'[x[1]]
                          /\ x[1] \in Questions => x[2] = 0
        OBVIOUS
      <3>1. CASE x \in pending
        <4>1. x[1] \in Items /\ shown[x[1]] >= 1 /\ shown[x[1]] \in Nat
          BY <3>1, BoundsAssumption DEF CardInv, TypeOK
        <4>2. (x[1] \in Requests => x[2] \in 1..shown[x[1]]) /\ (x[1] \in Questions => x[2] = 0)
          BY <3>1 DEF CardInv
        <4> QED BY <1>2, <4>1, <4>2
      <3>2. CASE x = p
        BY <1>2, <1>4, <3>2, ItemsAssumption
      <3> QED BY <1>1, <3>1, <3>2
    <2>3. \A k \in clicks : /\ cards[k.card] # "none"
                            /\ k.card[1] \in Requests /\ k.card \in pending'
                                  => cards[k.card] = "open"
      <3> SUFFICES ASSUME NEW k \in clicks
                   PROVE  /\ cards[k.card] # "none"
                          /\ k.card[1] \in Requests /\ k.card \in pending'
                                => cards[k.card] = "open"
        OBVIOUS
      <3>1. cards[k.card] # "none" /\ k.card # <<i, shown[i] + 1>>
        BY <1>5 DEF CardInv
      <3>2. k.card[1] \in Requests => k.card # p
        BY <1>4, <3>1, ItemsAssumption DEF Items
      <3> QED BY <1>1, <3>1, <3>2 DEF CardInv
    <2> QED BY <1>1, <2>1, <2>2, <2>3 DEF CardInv
  <1>9. CountInv'
    <2> SUFFICES ASSUME NEW r \in Requests
                 PROVE  /\ config[r] <= acted[r]
                        /\ acted[r] + Cardinality(LiveCards(r)') <= shown'[r]
      BY <1>1 DEF CountInv
    <2>1. /\ config[r] <= acted[r] /\ acted[r] + Cardinality(LiveCards(r)) <= shown[r]
          /\ acted[r] \in Nat /\ shown[r] \in Nat /\ r \in Items
      BY BoundsAssumption DEF CountInv, TypeOK, Items
    <2>2. IsFiniteSet(LiveCards(r)) /\ Cardinality(LiveCards(r)) \in Nat
      BY LiveCount
    <2>3. CASE r = i
      <3>1. LiveCards(r)' \subseteq LiveCards(r) \cup {shown[r] + 1}
        <4> SUFFICES ASSUME NEW n \in LiveCards(r)', n # shown[r] + 1 PROVE n \in LiveCards(r)
          OBVIOUS
        <4>1. n \in 1..shown'[r] /\ <<r, n>> \in pending' /\ cards[<<r, n>>] # "edited"
          BY <1>1 DEF LiveCards
        <4>2. n \in 1..shown[r] /\ <<r, n>> \in pending
          BY <1>1, <1>2, <1>4, <2>1, <2>3, <4>1
        <4> QED BY <4>1, <4>2 DEF LiveCards
      <3>2. /\ IsFiniteSet(LiveCards(r) \cup {shown[r] + 1})
            /\ Cardinality(LiveCards(r) \cup {shown[r] + 1}) <= Cardinality(LiveCards(r)) + 1
            /\ Cardinality(LiveCards(r) \cup {shown[r] + 1}) \in Nat
        <4>1. /\ IsFiniteSet(LiveCards(r) \cup {shown[r] + 1})
              /\ \/ Cardinality(LiveCards(r) \cup {shown[r] + 1}) = Cardinality(LiveCards(r))
                 \/ Cardinality(LiveCards(r) \cup {shown[r] + 1}) = Cardinality(LiveCards(r)) + 1
          BY <2>2, FS_AddElement
        <4> QED BY <2>2, <4>1
      <3>3. /\ Cardinality(LiveCards(r)') <= Cardinality(LiveCards(r) \cup {shown[r] + 1})
            /\ Cardinality(LiveCards(r)') \in Nat
        BY <1>6, <3>1, <3>2, FS_Subset, LiveCountNext
      <3> QED BY <1>2, <2>1, <2>2, <2>3, <3>2, <3>3
    <2>4. CASE r # i
      <3>1. LiveCards(r)' = LiveCards(r)
        BY <1>1, <1>2, <1>4, <2>1, <2>4 DEF LiveCards
      <3> QED BY <1>2, <2>1, <2>4, <3>1
    <2> QED BY <2>3, <2>4
  <1>10. OnceInv'
    <2>1. \A x \in Items \ hit :
            /\ shown'[x] <= 1 /\ acted[x] <= 1
            /\ record[x] = "open" /\ i # x => shown'[x] = 0
            /\ shown'[x] = 0 => acted[x] = 0
      BY <1>1, <1>2, ItemsAssumption DEF OnceInv
    <2>2. \A x \in pending' : x[1] \notin hit => acted[x[1]] = 0
      BY <1>1, <1>4, ItemsAssumption DEF OnceInv
    <2> QED BY <1>1, <2>1, <2>2 DEF OnceInv
  <1>11. AskInv'
    <2> SUFFICES ASSUME NEW r \in Requests
                 PROVE  /\ r \notin hit /\ record[r] = "delivered"
                              => told[r] # {} \/ \E n \in 1..shown'[r] : Decidable(<<r, n>>)'
                        /\ i = r => Card(r)' \in pending'
      BY <1>1 DEF AskInv
    <2>1. i = r => Card(r)' \in pending'
      BY <1>1, <1>2, <1>4 DEF Card
    <2>2. ASSUME NEW n \in 1..shown[r], Decidable(<<r, n>>)
          PROVE  n \in 1..shown'[r] /\ Decidable(<<r, n>>)'
      <3>1. n \in 1..shown'[r]
        BY <1>1, <1>2, BoundsAssumption DEF TypeOK, Items
      <3> QED BY <1>1, <2>2, <3>1 DEF Decidable
    <2> QED BY <2>1, <2>2 DEF AskInv
  <1>12. InstallInv'
    BY <1>1 DEF InstallInv
  <1> QED BY <1>1, <1>6, <1>7, <1>8, <1>9, <1>10, <1>11, <1>12

\* The delivery of a row ends: a row that stays open has cost a fault, and a
\* request that is over has been posted, was answered, or has met a fault.
LEMMA SettleStep ==
    ASSUME IInv, TypeOK', NEW i \in Items, record[i] = "open", sending \in {i, Nothing},
           UNCHANGED <<kind, shown, cards, clicks, pending, answers, config, image, acted>>,
           sending' = Nothing, stage' = "idle",
           \A x \in Items \ {i} : record'[x] = record[x],
           record'[i] \in {"open", "delivered", "failed"},
           faults' >= faults, hit \subseteq hit',
           record'[i] = "open" => faults' = faults + 1 /\ i \in hit',
           i \in Requests /\ record'[i] = "delivered" /\ i \notin hit'
                => told'[i] # {} \/ (sending = i /\ stage = "posted"),
           \A r \in Requests : \/ told'[r] = told[r]
                               \/ r = i /\ told'[r] = told[r] \cup {"unasked"}
    PROVE  IInv'
  <1> USE DEF IInv
  <1>1. SendInv'
    <2>1. \A x \in Items : /\ shown[x] <= 1 + faults'
                           /\ record'[x] = "open" => shown[x] <= faults'
                           /\ record'[x] = "none" => shown[x] = 0
      <3> SUFFICES ASSUME NEW x \in Items
                   PROVE  /\ shown[x] <= 1 + faults'
                          /\ record'[x] = "open" => shown[x] <= faults'
                          /\ record'[x] = "none" => shown[x] = 0
        OBVIOUS
      <3>1. /\ shown[x] <= 1 + faults
            /\ record[x] = "open" /\ sending # x => shown[x] <= faults
            /\ record[x] = "none" => shown[x] = 0
        BY DEF SendInv
      <3>2. shown[x] \in Nat /\ faults \in Nat /\ faults' \in Nat
        BY BoundsAssumption DEF TypeOK
      <3>3. CASE x = i
        BY <3>1, <3>2, <3>3
      <3>4. CASE x # i
        BY <3>1, <3>2, <3>4, ItemsAssumption
      <3> QED BY <3>3, <3>4
    <2> QED BY <2>1, ItemsAssumption DEF SendInv
  <1>2. CardInv'
    BY DEF CardInv
  <1>3. CountInv'
    BY CountStep DEF LiveCards
  <1>4. OnceInv'
    <2>1. \A x \in Items \ hit' :
            /\ shown[x] <= 1 /\ acted[x] <= 1
            /\ record'[x] = "open" => shown[x] = 0
            /\ shown[x] = 0 => acted[x] = 0
      BY ItemsAssumption DEF OnceInv
    <2> QED BY <2>1 DEF OnceInv
  <1>5. AskInv'
    <2> SUFFICES ASSUME NEW r \in Requests, r \notin hit', record'[r] = "delivered"
                 PROVE  told'[r] # {} \/ \E n \in 1..shown[r] : Decidable(<<r, n>>)
      BY ItemsAssumption DEF AskInv, Items, Decidable
    <2>1. told'[r] # {} \/ record[r] = "delivered" \/ (sending = r /\ stage = "posted")
      BY DEF Items
    <2>2. told[r] # {} => told'[r] # {}
      OBVIOUS
    <2> QED BY <2>1, <2>2 DEF AskInv
  <1>6. InstallInv'
    <2> SUFFICES ASSUME NEW r \in Requests
                 PROVE  /\ kind[r] = "install" /\ "applied" \in told'[r] => r \in image /\ config[r] > 0
                        /\ record'[r] = "none" => told'[r] = {}
      BY DEF InstallInv
    <2>1. "applied" \in told'[r] => "applied" \in told[r]
      OBVIOUS
    <2>2. record'[r] = "none" => r # i /\ record[r] = "none"
      BY DEF Items
    <2> QED BY <2>1, <2>2 DEF InstallInv
  <1> QED BY <1>1, <1>2, <1>3, <1>4, <1>5, <1>6

\* A request without an approver is answered at once.
LEMMA NoApproverKeeps ==
    ASSUME IInv, NEW r \in Requests, NoApprover(r)
    PROVE  IInv'
  <1> USE DEF IInv
  <1>1. /\ sending = Nothing /\ record[r] = "open" /\ r \in Items
        /\ told' = [told EXCEPT ![r] = @ \cup {"unasked"}]
        /\ record' = [record EXCEPT ![r] = "delivered"]
        /\ attempts' = [attempts EXCEPT ![r] = 0]
        /\ sending' = Nothing /\ stage' = "idle"
        /\ UNCHANGED <<kind, shown, cards, clicks, pending, call, answers, taken, config, image,
                       acted, hit, faults>>
    BY DEF NoApprover, Tell, Settle, cardVars, callVars, Items
  <1>2. TypeOK'
    <2>1. attempts' \in [Items -> 0..MaxAttempts - 1]
      BY <1>1, BoundsAssumption DEF TypeOK
    <2>2. told' \in [Requests -> SUBSET {"unasked", "rejected", "applied", "broken"}]
      BY <1>1 DEF TypeOK
    <2>3. record' \in [Items -> {"none", "open", "delivered", "failed"}]
      BY <1>1 DEF TypeOK
    <2> QED BY <1>1, <2>1, <2>2, <2>3 DEF TypeOK
  <1>3. /\ told'[r] # {} /\ record'[r] = "delivered"
        /\ \A x \in Items \ {r} : record'[x] = record[x]
        /\ \A x \in Requests : \/ told'[x] = told[x]
                               \/ x = r /\ told'[x] = told[x] \cup {"unasked"}
    BY <1>1 DEF TypeOK
  <1>4. faults' >= faults
    BY <1>1, BoundsAssumption DEF TypeOK
  <1> QED BY <1>1, <1>2, <1>3, <1>4, SettleStep

\* A card that is posted can be decided.
LEMMA PostedKeeps ==
    ASSUME IInv, Posted
    PROVE  IInv'
  <1> USE DEF IInv
  <1> DEFINE c == Card(sending)
  <1>1. /\ stage = "posting" /\ stage' = "posted"
        /\ cards' = [cards EXCEPT ![c] = "open"]
        /\ UNCHANGED <<kind, record, attempts, sending, shown, clicks, pending, call, answers, taken,
                       told, config, image, acted, hit, faults>>
    BY DEF Posted, callVars, cfgVars
  <1>2. /\ sending \in Items /\ sending # Nothing /\ shown[sending] \in 1..1 + MaxFaults
        /\ c \in CardIds /\ c[1] = sending /\ c[2] = shown[sending] /\ c = <<sending, shown[sending]>>
        /\ cards[c] = "none"
    BY <1>1, SentCard DEF TypeOK, SendInv, Card
  <1>3. cards'[c] = "open" /\ \A x : x # c => cards'[x] = cards[x]
    BY <1>1, <1>2 DEF TypeOK
  <1>4. TypeOK'
    BY <1>1, <1>2 DEF TypeOK
  <1>5. SendInv'
    BY <1>1 DEF SendInv
  <1>6. CardInv'
    <2>1. \A x \in CardIds : cards'[x] # "none" => x[2] <= shown[x[1]]
      BY <1>2, <1>3, BoundsAssumption DEF CardInv
    <2>2. \A k \in clicks : k.card # c
      BY <1>2 DEF CardInv
    <2> QED BY <1>1, <1>3, <2>1, <2>2 DEF CardInv
  <1>7. CountInv'
    <2>1. \A r \in Requests : LiveCards(r)' \subseteq LiveCards(r)
      BY <1>1, <1>2, <1>3 DEF LiveCards
    <2> QED BY <1>1, <1>4, <2>1, CountStep
  <1>8. OnceInv' /\ InstallInv'
    BY <1>1 DEF OnceInv, InstallInv
  <1>9. AskInv'
    <2> SUFFICES ASSUME NEW r \in Requests, r \notin hit, told[r] = {},
                        record[r] = "delivered" \/ sending = r
                 PROVE  \E n \in 1..shown[r] : Decidable(<<r, n>>)'
      BY <1>1 DEF AskInv
    <2>1. CASE sending = r
      <3>1. c \in pending
        BY <1>1, <2>1 DEF AskInv
      <3>2. Decidable(<<r, shown[r]>>)'
        BY <1>1, <1>2, <1>3, <2>1, <3>1 DEF Decidable
      <3> QED BY <1>1, <1>2, <2>1, <3>2
    <2>2. CASE sending # r
      <3>1. PICK n \in 1..shown[r] : Decidable(<<r, n>>)
        BY <2>2 DEF AskInv
      <3>2. <<r, n>> # c
        BY <1>2, <2>2
      <3>3. Decidable(<<r, n>>)'
        BY <1>1, <1>3, <3>1, <3>2 DEF Decidable
      <3> QED BY <3>3
    <2> QED BY <2>1, <2>2
  <1> QED BY <1>1, <1>4, <1>5, <1>6, <1>7, <1>8, <1>9

\* A delivery that returns without a posted card is a fault.
LEMMA DeliveredKeeps ==
    ASSUME IInv, Delivered
    PROVE  IInv'
  <1> USE DEF IInv
  <1>1. /\ stage \in {"posting", "posted"} /\ sending # Nothing
        /\ record' = [record EXCEPT ![sending] = "delivered"]
        /\ attempts' = [attempts EXCEPT ![sending] = 0]
        /\ sending' = Nothing /\ stage' = "idle"
        /\ UNCHANGED <<kind, shown, cards, clicks, pending, call, answers, taken,
                       told, config, image, acted>>
    BY DEF Delivered, Settle, cardVars, callVars, cfgVars, TypeOK
  <1>2. sending \in Items /\ record[sending] = "open"
    BY <1>1 DEF TypeOK, SendInv
  <1>3. /\ faults' \in 0..MaxFaults /\ faults' >= faults
        /\ hit' \in SUBSET Items /\ hit \subseteq hit'
        /\ stage = "posted" \/ sending \in hit'
    <2>1. CASE stage = "posted" /\ UNCHANGED <<hit, faults>>
      BY <2>1, BoundsAssumption DEF TypeOK
    <2>2. CASE FaultOn({sending})
      BY <1>2, <2>2, FaultStep
    <2> QED BY <2>1, <2>2 DEF Delivered
  <1>4. TypeOK'
    <2>1. attempts' \in [Items -> 0..MaxAttempts - 1]
      BY <1>1, BoundsAssumption DEF TypeOK
    <2> QED BY <1>1, <1>3, <2>1 DEF TypeOK
  <1>5. record'[sending] = "delivered" /\ \A x \in Items \ {sending} : record'[x] = record[x]
    BY <1>1, <1>2 DEF TypeOK
  <1> QED BY <1>1, <1>2, <1>3, <1>4, <1>5, SettleStep

\* A failed delivery is a fault, whether the row is tried again or not.
LEMMA PostFailsKeeps ==
    ASSUME IInv, PostFails
    PROVE  IInv'
  <1> USE DEF IInv
  <1>1. /\ stage \in {"posting", "posted"} /\ sending # Nothing /\ FaultOn({sending})
        /\ sending' = Nothing /\ stage' = "idle"
        /\ UNCHANGED <<kind, shown, cards, clicks, pending, call, answers, taken,
                       config, image, acted>>
    BY DEF PostFails, Settle, cardVars, callVars, TypeOK
  <1>2. sending \in Items /\ record[sending] = "open"
    BY <1>1 DEF TypeOK, SendInv
  <1>3. /\ faults' \in 0..MaxFaults /\ faults' = faults + 1 /\ faults' >= faults
        /\ hit' \in SUBSET Items /\ hit \subseteq hit' /\ sending \in hit'
    BY <1>1, <1>2, FaultStep
  <1>4. /\ record' \in [Items -> {"none", "open", "delivered", "failed"}]
        /\ record'[sending] \in {"open", "delivered", "failed"}
        /\ \A x \in Items \ {sending} : record'[x] = record[x]
    BY <1>2 DEF PostFails, Settle, TypeOK
  <1>5. /\ told' \in [Requests -> SUBSET {"unasked", "rejected", "applied", "broken"}]
        /\ \A r \in Requests : \/ told'[r] = told[r]
                               \/ r = sending /\ told'[r] = told[r] \cup {"unasked"}
    BY DEF PostFails, Tell, TypeOK
  <1>6. attempts' \in [Items -> 0..MaxAttempts - 1]
    <2>1. attempts \in [Items -> 0..MaxAttempts - 1] /\ MaxAttempts \in Nat \ {0}
      BY BoundsAssumption DEF TypeOK
    <2>2. \/ attempts' = [attempts EXCEPT ![sending] = 0]
          \/ /\ attempts' = [attempts EXCEPT ![sending] = @ + 1]
             /\ ~(attempts[sending] + 1 >= MaxAttempts)
      BY DEF PostFails, Settle
    <2> QED BY <1>2, <2>1, <2>2
  <1>7. TypeOK'
    BY <1>1, <1>3, <1>4, <1>5, <1>6 DEF TypeOK
  <1> QED BY <1>1, <1>2, <1>3, <1>4, <1>5, <1>7, SettleStep

-----------------------------------------------------------------------------
(* Clicks.                                                                 *)

\* A click is noted while its card has buttons.
LEMMA ClickKeeps ==
    ASSUME IInv, NEW c \in CardIds, NEW v \in Values, Click(c, v)
    PROVE  IInv'
  <1> USE DEF IInv
  <1>1. PICK k \in Clicks : clicks' = clicks \cup {k} /\ k.card = c
    <2>1. [card |-> c, value |-> IF Key(c) \in pending THEN v ELSE "raw"] \in Clicks
      BY DEF Clicks, Values
    <2> QED BY <2>1 DEF Click
  <1>2. /\ cards[c] = "open"
        /\ UNCHANGED <<kind, record, attempts, sending, stage, shown, cards, pending, call, answers,
                       taken, told, config, image, acted, hit, faults>>
    BY DEF Click, rowVars, callVars, cfgVars
  <1>3. TypeOK'
    BY <1>1, <1>2 DEF TypeOK
  <1>4. SendInv' /\ OnceInv' /\ InstallInv'
    BY <1>2 DEF SendInv, OnceInv, InstallInv, Card
  <1>5. CardInv'
    BY <1>1, <1>2 DEF CardInv
  <1>6. CountInv'
    BY <1>2, <1>3, CountStep DEF LiveCards
  <1>7. AskInv'
    <2>1. \A x : Decidable(x) => Decidable(x)'
      BY <1>1, <1>2 DEF Decidable
    <2> SUFFICES ASSUME NEW r \in Requests
                 PROVE  /\ r \notin hit /\ (record[r] = "delivered" \/ (sending = r /\ stage = "posted"))
                              => told[r] # {} \/ \E n \in 1..shown[r] : Decidable(<<r, n>>)'
                        /\ sending = r /\ stage = "posting" => Card(r)' \in pending
      BY <1>2 DEF AskInv
    <2>2. Card(r)' = Card(r)
      BY <1>2 DEF Card
    <2> QED BY <2>1, <2>2 DEF AskInv
  <1> QED BY <1>2, <1>3, <1>4, <1>5, <1>6, <1>7

\* What an edit does: the card loses its buttons, or it costs a fault.
LEMMA EditedStep ==
    ASSUME TypeOK, NEW k \in clicks, Edited(k)
    PROVE  /\ cards' \in {cards, [cards EXCEPT ![k.card] = "edited"]}
           /\ faults' \in 0..MaxFaults /\ faults' >= faults /\ hit' = hit
  <1>1. CASE UNCHANGED <<hit, faults>> /\ cards' = [cards EXCEPT ![k.card] = "edited"]
    BY <1>1, BoundsAssumption DEF TypeOK
  <1>2. CASE FaultOn({}) /\ UNCHANGED cards
    <2>1. faults' \in 0..MaxFaults /\ faults' = faults + 1 /\ faults \in Nat /\ hit' = hit \cup {}
      BY <1>2, FaultStep
    <2> QED BY <1>2, <2>1
  <1> QED BY <1>1, <1>2 DEF Edited

\* A click without a pending row changes nothing that matters.
LEMMA UnclaimedKeeps ==
    ASSUME IInv, NEW k \in clicks, Unclaimed(k)
    PROVE  IInv'
  <1> USE DEF IInv
  <1> DEFINE c == k.card
  <1>1. /\ Key(c) \notin pending /\ clicks' = clicks \ {k}
        /\ cards' \in {cards, [cards EXCEPT ![c] = "edited"]}
        /\ faults' \in 0..MaxFaults /\ faults' >= faults
        /\ UNCHANGED <<kind, record, attempts, sending, stage, shown, pending, call, answers,
                       taken, told, config, image, acted, hit>>
    BY EditedStep DEF Unclaimed, rowVars, callVars, cfgVars
  <1>2. c \in CardIds /\ c[1] \in Items /\ (c[1] \in Requests => c \notin pending) /\ cards[c] # "none"
    BY <1>1, ClickedCard, Keys DEF CardInv
  <1>3. \A x \in CardIds : cards'[x] = cards[x] \/ (x = c /\ cards'[x] = "edited")
    <2>1. cards \in [CardIds -> {"none", "open", "edited"}]
      BY DEF TypeOK
    <2> QED BY <1>1, <2>1
  <1>4. TypeOK'
    BY <1>1, <1>2 DEF TypeOK
  <1>5. SendInv'
    <2>1. stage = "posting" => Card(sending) # c /\ Card(sending) \in CardIds
      BY <1>2, SentCard DEF SendInv, TypeOK
    <2>2. stage = "posting" => cards'[Card(sending)] = "none"
      BY <1>3, <2>1 DEF SendInv
    <2>3. Card(sending)' = Card(sending)
      BY <1>1 DEF Card
    <2>4. \A i \in Items : /\ shown[i] <= 1 + faults'
                           /\ record[i] = "open" /\ sending # i => shown[i] <= faults'
                           /\ record[i] = "none" => shown[i] = 0
      BY <1>1, BoundsAssumption DEF SendInv, TypeOK
    <2> QED BY <1>1, <2>2, <2>3, <2>4 DEF SendInv
  <1>6. CardInv'
    <2>1. \A x \in clicks' : x \in clicks /\ x.card \in CardIds
      BY <1>1, ClickedCard
    <2>2. \A x \in CardIds : cards'[x] # "none" => cards[x] # "none"
      BY <1>2, <1>3
    <2>3. \A x \in CardIds : cards[x] # "none" => cards'[x] # "none"
      BY <1>3
    <2>4. \A x \in CardIds : x[1] \in Requests /\ x \in pending => cards'[x] = cards[x]
      BY <1>2, <1>3
    <2> QED BY <1>1, <2>1, <2>2, <2>3, <2>4 DEF CardInv
  <1>7. CountInv'
    <2>1. \A r \in Requests : LiveCards(r)' \subseteq LiveCards(r)
      <3> SUFFICES ASSUME NEW r \in Requests, NEW n \in LiveCards(r)' PROVE n \in LiveCards(r)
        OBVIOUS
      <3>1. n \in 1..shown[r] /\ <<r, n>> \in pending /\ cards'[<<r, n>>] # "edited"
        BY <1>1 DEF LiveCards
      <3>2. <<r, n>> \in CardIds
        BY <3>1, BoundsAssumption DEF CardIds, TypeOK, Items
      <3> QED BY <1>3, <3>1, <3>2 DEF LiveCards
    <2> QED BY <1>1, <1>4, <2>1, CountStep
  <1>8. OnceInv' /\ InstallInv'
    BY <1>1 DEF OnceInv, InstallInv
  <1>9. AskInv'
    <2>1. ASSUME NEW r \in Requests, NEW n \in 1..shown[r], Decidable(<<r, n>>)
          PROVE  Decidable(<<r, n>>)'
      <3>1. <<r, n>> \in CardIds /\ <<r, n>> # c
        BY <1>2, <2>1, BoundsAssumption DEF CardIds, TypeOK, Items, Decidable
      <3>2. cards'[<<r, n>>] = cards[<<r, n>>]
        BY <1>3, <3>1
      <3>3. \A x \in clicks : x.card = <<r, n>> => x \in clicks'
        BY <1>1, <3>1
      <3> QED BY <1>1, <2>1, <3>2, <3>3 DEF Decidable
    <2>2. \A r : Card(r)' = Card(r)
      BY <1>1 DEF Card
    <2> QED BY <1>1, <2>1, <2>2 DEF AskInv
  <1> QED BY <1>1, <1>4, <1>5, <1>6, <1>7, <1>8, <1>9

\* A click that finds a pending row is about a row that was shown; a request's
\* card is live then, so that one of its showings is not used up.
LEMMA FoundRow ==
    ASSUME IInv, NEW k \in clicks, Key(k.card) \in pending
    PROVE  LET i == k.card[1] IN
           /\ i \in Items /\ k.card \in CardIds /\ k.card = <<i, k.card[2]>>
           /\ Key(k.card)[1] = i /\ cards[k.card] # "none"
           /\ shown[i] >= 1 /\ record[i] # "none"
           /\ i \in Requests =>
                 /\ Key(k.card) = k.card /\ k.card[2] \in LiveCards(i)
                 /\ config[i] <= acted[i] /\ acted[i] + 1 <= shown[i]
  <1> USE DEF IInv
  <1> DEFINE i == k.card[1]
  <1>1. /\ i \in Items /\ k.card \in CardIds /\ k.card = <<i, k.card[2]>>
        /\ Key(k.card)[1] = i /\ (i \in Requests => Key(k.card) = k.card)
    BY ClickedCard, Keys
  <1>2. shown[i] >= 1 /\ shown[i] \in Nat
    BY <1>1, BoundsAssumption DEF CardInv, TypeOK
  <1>3. record[i] # "none" /\ cards[k.card] # "none"
    BY <1>1, <1>2 DEF SendInv, CardInv
  <1>4. ASSUME i \in Requests
        PROVE  /\ k.card[2] \in LiveCards(i)
               /\ config[i] <= acted[i] /\ acted[i] + 1 <= shown[i]
    <2>1. k.card \in pending /\ cards[k.card] = "open" /\ k.card[2] \in 1..shown[i]
      BY <1>1, <1>4 DEF CardInv
    <2>2. k.card[2] \in LiveCards(i)
      BY <1>1, <2>1 DEF LiveCards
    <2>3. IsFiniteSet(LiveCards(i)) /\ Cardinality(LiveCards(i)) \in Nat
      BY <1>4, LiveCount
    <2>4. Cardinality(LiveCards(i)) # 0
      BY <2>2, <2>3, FS_EmptySet
    <2>5. config[i] <= acted[i] /\ acted[i] + Cardinality(LiveCards(i)) <= shown[i]
          /\ acted[i] \in Nat
      BY <1>4 DEF CountInv, TypeOK, Items
    <2> QED BY <1>2, <2>2, <2>3, <2>4, <2>5
  <1> QED BY <1>1, <1>2, <1>3, <1>4

\* A question has one pending row, and a request that met no fault as well.
LEMMA OneRow ==
    ASSUME IInv, NEW x \in pending, NEW y \in pending, x[1] = y[1],
           x[1] \in Questions \/ x[1] \notin hit
    PROVE  x = y
  <1> USE DEF IInv
  <1>1. x \in Items \X (0..1 + MaxFaults) /\ y \in Items \X (0..1 + MaxFaults)
    BY DEF TypeOK
  <1>2. x = <<x[1], x[2]>> /\ y = <<y[1], y[2]>> /\ x[1] \in Items
    BY <1>1
  <1>3. CASE x[1] \in Questions
    BY <1>2, <1>3 DEF CardInv
  <1>4. CASE x[1] \in Requests /\ x[1] \notin hit
    <2>1. shown[x[1]] \in Nat /\ shown[x[1]] <= 1
      BY <1>2, <1>4, BoundsAssumption DEF OnceInv, TypeOK
    <2>2. x[2] \in 1..shown[x[1]] /\ y[2] \in 1..shown[x[1]]
      BY <1>4 DEF CardInv
    <2>3. x[2] = y[2]
      BY <2>1, <2>2
    <2> QED BY <1>2, <2>3
  <1> QED BY <1>2, <1>3, <1>4 DEF Items

\* A decision uses up the showing it is about.
LEMMA CountDecided ==
    ASSUME IInv, TypeOK', NEW k \in clicks, Key(k.card) \in pending, UNCHANGED shown,
           acted' = [acted EXCEPT ![k.card[1]] = @ + 1],
           \A r \in Requests : LiveCards(r)' \subseteq LiveCards(r),
           k.card[1] \in Requests =>
              /\ k.card[2] \notin LiveCards(k.card[1])'
              /\ config'[k.card[1]] <= acted[k.card[1]] + 1,
           \A r \in Requests \ {k.card[1]} : config'[r] = config[r]
    PROVE  CountInv'
  <1> USE DEF IInv
  <1> DEFINE c == k.card
             i == c[1]
  <1> SUFFICES ASSUME NEW r \in Requests
               PROVE  /\ config'[r] <= acted'[r]
                      /\ acted'[r] + Cardinality(LiveCards(r)') <= shown[r]
    BY DEF CountInv
  <1>1. /\ config[r] <= acted[r] /\ acted[r] + Cardinality(LiveCards(r)) <= shown[r]
        /\ acted[r] \in Nat /\ shown[r] \in Nat /\ config[r] \in Nat /\ config'[r] \in Nat
        /\ acted \in [Items -> Nat] /\ r \in Items
    BY BoundsAssumption DEF CountInv, TypeOK, Items
  <1>2. IsFiniteSet(LiveCards(r)) /\ Cardinality(LiveCards(r)) \in Nat
    BY LiveCount
  <1>3. CASE r = i
    <2>1. c[2] \in LiveCards(r) /\ c[2] \notin LiveCards(r)'
      BY <1>3, FoundRow
    <2>2. /\ IsFiniteSet(LiveCards(r) \ {c[2]})
          /\ Cardinality(LiveCards(r) \ {c[2]}) = Cardinality(LiveCards(r)) - 1
      BY <1>2, <2>1, FS_RemoveElement
    <2>3. /\ Cardinality(LiveCards(r)') <= Cardinality(LiveCards(r) \ {c[2]})
          /\ Cardinality(LiveCards(r)') \in Nat
      BY <2>1, <2>2, FS_Subset, LiveCountNext
    <2>4. acted'[r] = acted[r] + 1 /\ config'[r] <= acted[r] + 1
      BY <1>1, <1>3
    <2> QED BY <1>1, <1>2, <2>2, <2>3, <2>4
  <1>4. CASE r # i
    <2>1. Cardinality(LiveCards(r)') <= Cardinality(LiveCards(r))
          /\ Cardinality(LiveCards(r)') \in Nat
      BY <1>2, FS_Subset, LiveCountNext
    <2>2. acted'[r] = acted[r] /\ config'[r] = config[r]
      BY <1>1, <1>4
    <2> QED BY <1>1, <1>2, <2>1, <2>2
  <1> QED BY <1>3, <1>4

\* A click is decided: its pending row is gone, and a request is answered.
LEMMA DecideStep ==
    ASSUME IInv, TypeOK', NEW k \in clicks, Key(k.card) \in pending, Consume(k),
           cards' \in {cards, [cards EXCEPT ![k.card] = "edited"]},
           faults' >= faults, hit' = hit,
           UNCHANGED <<record, sending, stage, shown>>,
           \A r \in Requests \ {k.card[1]} : told'[r] = told[r] /\ config'[r] = config[r],
           k.card[1] \in Requests =>
              told'[k.card[1]] # {} /\ config'[k.card[1]] <= acted[k.card[1]] + 1
    PROVE  SendInv' /\ CardInv' /\ CountInv' /\ OnceInv' /\ AskInv'
  <1> USE DEF IInv
  <1> DEFINE c == k.card
             i == c[1]
             p == Key(c)
  <1>1. /\ i \in Items /\ c \in CardIds /\ c = <<i, c[2]>> /\ p[1] = i /\ cards[c] # "none"
        /\ i \in Requests => p = c /\ c[2] \in LiveCards(i)
    BY FoundRow
  <1>2. pending' = pending \ {p} /\ clicks' = clicks \ {k}
        /\ acted' = [acted EXCEPT ![i] = @ + 1]
    BY DEF Consume
  <1>3. \A x \in CardIds : cards'[x] = cards[x] \/ (x = c /\ cards'[x] = "edited")
    <2>1. cards \in [CardIds -> {"none", "open", "edited"}]
      BY DEF TypeOK
    <2> QED BY <2>1
  <1>4. SendInv'
    <2>1. stage = "posting" => Card(sending) # c /\ Card(sending) \in CardIds
      BY <1>1, SentCard DEF SendInv, TypeOK
    <2>2. stage = "posting" => cards'[Card(sending)] = "none"
      BY <1>3, <2>1 DEF SendInv
    <2>3. Card(sending)' = Card(sending)
      BY DEF Card
    <2>4. \A x \in Items : /\ shown[x] <= 1 + faults'
                           /\ record[x] = "open" /\ sending # x => shown[x] <= faults'
                           /\ record[x] = "none" => shown[x] = 0
      BY BoundsAssumption DEF SendInv, TypeOK
    <2> QED BY <2>2, <2>3, <2>4 DEF SendInv
  <1>5. CardInv'
    <2>1. \A x \in clicks' : x \in clicks /\ x.card \in CardIds
      BY <1>2, ClickedCard
    <2>2. \A x \in CardIds : cards'[x] # "none" <=> cards[x] # "none"
      BY <1>1, <1>3
    <2>3. \A x \in CardIds : x[1] \in Requests /\ x \in pending' => cards'[x] = cards[x]
      BY <1>1, <1>2, <1>3
    <2> QED BY <1>2, <2>1, <2>2, <2>3 DEF CardInv
  <1>6. CountInv'
    <2>1. ASSUME NEW r \in Requests, NEW n \in LiveCards(r)' PROVE n \in LiveCards(r)
      <3>1. n \in 1..shown[r] /\ <<r, n>> \in pending /\ cards'[<<r, n>>] # "edited"
        BY <1>2, <2>1 DEF LiveCards
      <3>2. <<r, n>> \in CardIds
        BY <3>1, BoundsAssumption DEF CardIds, TypeOK, Items
      <3> QED BY <1>3, <3>1, <3>2 DEF LiveCards
    <2>2. i \in Requests => c[2] \notin LiveCards(i)'
      BY <1>1, <1>2 DEF LiveCards
    <2> QED BY <1>2, <2>1, <2>2, CountDecided
  <1>7. OnceInv'
    <2>1. \A x \in Items \ {i} : acted'[x] = acted[x]
      BY <1>2 DEF TypeOK
    <2>2. acted'[i] = acted[i] + 1
      BY <1>1, <1>2 DEF TypeOK
    <2>3. i \notin hit => acted[i] = 0 /\ shown[i] # 0
      BY <1>1, FoundRow DEF OnceInv
    <2>4. \A x \in Items \ hit :
            /\ shown[x] <= 1 /\ acted'[x] <= 1
            /\ record[x] = "open" /\ sending # x => shown[x] = 0
            /\ shown[x] = 0 => acted'[x] = 0
      BY <1>1, <2>1, <2>2, <2>3 DEF OnceInv
    <2>5. ASSUME NEW x \in pending', x[1] \notin hit PROVE acted'[x[1]] = 0
      <3>1. x \in pending /\ x # p /\ x[1] \in Items
        BY <1>2 DEF TypeOK
      <3>2. CASE x[1] # i
        BY <2>1, <2>5, <3>1, <3>2 DEF OnceInv
      <3>3. CASE x[1] = i
        <4>1. x = p
          BY <1>1, <2>5, <3>1, <3>3, OneRow
        <4> QED BY <3>1, <4>1
      <3> QED BY <3>2, <3>3
    <2> QED BY <2>4, <2>5 DEF OnceInv
  <1>8. AskInv'
    <2>1. ASSUME NEW r \in Requests, r # i, NEW n \in 1..shown[r], Decidable(<<r, n>>)
          PROVE  Decidable(<<r, n>>)'
      <3>1. <<r, n>> \in CardIds /\ <<r, n>> # c /\ <<r, n>> # p
        BY <1>1, <2>1, BoundsAssumption DEF CardIds, TypeOK, Items
      <3>2. cards'[<<r, n>>] = cards[<<r, n>>] /\ <<r, n>> \in pending'
        BY <1>2, <1>3, <2>1, <3>1 DEF Decidable
      <3>3. \A x \in clicks : x.card = <<r, n>> => x \in clicks'
        BY <1>2, <3>1
      <3> QED BY <2>1, <3>2, <3>3 DEF Decidable
    <2> SUFFICES ASSUME NEW r \in Requests
                 PROVE  /\ r \notin hit /\ (record[r] = "delivered" \/ (sending = r /\ stage = "posted"))
                              => told'[r] # {} \/ \E n \in 1..shown[r] : Decidable(<<r, n>>)'
                        /\ sending = r /\ stage = "posting" => Card(r)' \in pending'
      BY DEF AskInv
    <2>2. CASE r = i
      <3>1. sending = r /\ stage = "posting" => Card(r) \in pending /\ Card(r) # c
        BY <1>1 DEF AskInv, SendInv
      <3>2. Card(r)' = Card(r)
        BY DEF Card
      <3> QED BY <1>1, <1>2, <2>2, <3>1, <3>2
    <2>3. CASE r # i
      <3>1. Card(r)' = Card(r) /\ Card(r)[1] = r
        BY DEF Card
      <3> QED BY <1>1, <1>2, <2>1, <2>3, <3>1 DEF AskInv
    <2> QED BY <2>2, <2>3
  <1> QED BY <1>4, <1>5, <1>6, <1>7, <1>8

\* The host is back without what it was sending and editing; that has met a fault.
LEMMA RestartStep ==
    ASSUME IInv, UNCHANGED <<record, shown, pending>>, Restarted, faults' = faults + 1,
           hit \cup {k.card[1] : k \in clicks} \cup ({sending} \ {Nothing}) \subseteq hit',
           \A c \in CardIds : \/ cards'[c] = cards[c]
                             \/ (cards[c] # "none" /\ cards'[c] # "none" /\ c[1] \in hit'),
           \A i \in Items \ hit' : acted'[i] = acted[i],
           \A r \in Requests : told[r] \subseteq told'[r]
    PROVE  SendInv' /\ CardInv' /\ OnceInv' /\ AskInv'
  <1> USE DEF IInv
  <1>1. sending' = Nothing /\ stage' = "idle" /\ clicks' = {}
    BY DEF Restarted
  <1>2. SendInv'
    <2>1. \A i \in Items : /\ shown[i] <= 1 + faults'
                           /\ record[i] = "open" => shown[i] <= faults'
                           /\ record[i] = "none" => shown[i] = 0
      BY BoundsAssumption DEF SendInv, TypeOK
    <2> QED BY <1>1, <2>1, ItemsAssumption DEF SendInv
  <1>3. CardInv'
    BY <1>1 DEF CardInv
  <1>4. OnceInv'
    <2>1. \A i \in Items \ hit' :
            /\ shown[i] <= 1 /\ acted'[i] <= 1
            /\ record[i] = "open" => shown[i] = 0
            /\ shown[i] = 0 => acted'[i] = 0
      BY ItemsAssumption DEF OnceInv
    <2>2. \A p \in pending : p[1] \notin hit' => acted'[p[1]] = 0
      BY DEF OnceInv, TypeOK
    <2> QED BY <2>1, <2>2 DEF OnceInv
  <1>5. AskInv'
    <2> SUFFICES ASSUME NEW r \in Requests, r \notin hit', record[r] = "delivered", told[r] = {}
                 PROVE  \E n \in 1..shown[r] : Decidable(<<r, n>>)'
      BY <1>1, ItemsAssumption DEF AskInv, Items
    <2>1. PICK n \in 1..shown[r] : Decidable(<<r, n>>)
      BY DEF AskInv
    <2>2. <<r, n>> \in CardIds
      BY BoundsAssumption DEF CardIds, TypeOK, Items
    <2>3. \A k \in clicks : k.card # <<r, n>>
      OBVIOUS
    <2>4. cards'[<<r, n>>] = "open" /\ <<r, n>> \in pending
      BY <2>1, <2>2, <2>3 DEF Decidable
    <2> QED BY <2>4 DEF Decidable
  <1> QED BY <1>2, <1>3, <1>4, <1>5

\* The host restarts at any moment.
LEMMA HostRestartKeeps ==
    ASSUME IInv, HostRestart
    PROVE  IInv'
  <1> USE DEF IInv
  <1> DEFINE is == {k.card[1] : k \in clicks} \cup ({sending} \ {Nothing})
  <1>1. is \in SUBSET Items
    BY ClickedCard, Keys DEF TypeOK
  <1>2. faults' \in 0..MaxFaults /\ faults' = faults + 1
        /\ hit' \in SUBSET Items /\ hit' = hit \cup is
    BY <1>1, FaultStep DEF HostRestart
  <1>3. Restarted /\ UNCHANGED <<kind, record, shown, cards, pending, answers, taken, told, config,
                                image, acted>>
    BY DEF HostRestart, cfgVars
  <1>4. TypeOK'
    <2>1. attempts' \in [Items -> 0..MaxAttempts - 1]
      BY <1>3, BoundsAssumption DEF Restarted
    <2>2. call' \in [Questions -> {"none", "waiting", "answered", "timedout", "dead"}]
      BY DEF HostRestart, Dead, TypeOK
    <2> QED BY <1>2, <1>3, <2>1, <2>2 DEF Restarted, TypeOK
  <1>5. SendInv' /\ CardInv' /\ OnceInv' /\ AskInv'
    <2>1. \A c \in CardIds : cards'[c] = cards[c]
      BY <1>3
    <2>2. \A i \in Items : acted'[i] = acted[i]
      BY <1>3
    <2>3. \A r \in Requests : told[r] \subseteq told'[r]
      BY <1>3
    <2>4. hit \cup {k.card[1] : k \in clicks} \cup ({sending} \ {Nothing}) \subseteq hit'
      BY <1>2
    <2> QED BY <1>2, <1>3, <2>1, <2>2, <2>3, <2>4, RestartStep
  <1>6. CountInv'
    BY <1>3, <1>4, CountStep DEF LiveCards
  <1>7. InstallInv'
    BY <1>3 DEF InstallInv
  <1> QED BY <1>3, <1>4, <1>5, <1>6, <1>7

-----------------------------------------------------------------------------
(* The response handlers.                                                  *)

\* What a handler that ends leaves of the click, the card and the decision.
LEMMA HandledTypes ==
    ASSUME IInv, NEW k \in clicks, Consume(k), hit' = hit, faults' \in 0..MaxFaults,
           cards' \in {cards, [cards EXCEPT ![k.card] = "edited"]}
    PROVE  /\ cards' \in [CardIds -> {"none", "open", "edited"}] /\ clicks' \in SUBSET Clicks
           /\ pending' \in SUBSET (Items \X (0..1 + MaxFaults))
           /\ acted' \in [Items -> Nat] /\ hit' \in SUBSET Items
  <1>1. k.card \in CardIds /\ k.card[1] \in Items
    BY ClickedCard, Keys DEF IInv
  <1>2. cards' \in [CardIds -> {"none", "open", "edited"}]
    BY <1>1 DEF IInv, TypeOK
  <1>3. acted' \in [Items -> Nat]
    BY <1>1 DEF IInv, TypeOK, Consume
  <1>4. clicks' \in SUBSET Clicks /\ pending' \in SUBSET (Items \X (0..1 + MaxFaults))
    BY DEF IInv, TypeOK, Consume
  <1> QED BY <1>2, <1>3, <1>4 DEF IInv, TypeOK

\* A new answer is numbered after the ones before it.
LEMMA AnswerStep ==
    ASSUME TypeOK, IsFiniteSet(answers), NEW k \in clicks, k.card[1] \in Questions,
           answers' = answers \cup {Response(k)}
    PROVE  answers' \in SUBSET (Questions \X Values \X Nat) /\ IsFiniteSet(answers')
  <1>1. Cardinality(answers) \in Nat
    BY FS_CardinalityType
  <1>2. Response(k) \in Questions \X Values \X Nat
    BY <1>1, ClickedCard DEF Response
  <1>3. IsFiniteSet(answers')
    BY FS_AddElement
  <1> QED BY <1>2, <1>3 DEF TypeOK

\* An approved request is listed, within its decisions.
LEMMA ListedStep ==
    ASSUME IInv, NEW k \in clicks, Key(k.card) \in pending, NEW r \in Requests, r = k.card[1], Listed(r)
    PROVE  /\ config' \in [Requests -> 0..1 + MaxFaults]
           /\ config'[r] <= acted[r] + 1 /\ config'[r] > 0
           /\ \A x \in Requests \ {r} : config'[x] = config[x]
  <1>1. /\ config \in [Requests -> 0..1 + MaxFaults] /\ r \in Items
        /\ config[r] \in Nat /\ acted[r] \in Nat /\ shown[r] \in 0..1 + MaxFaults
    BY BoundsAssumption DEF IInv, TypeOK, Items
  <1>2. config[r] <= acted[r] /\ acted[r] + 1 <= shown[r]
    BY FoundRow
  <1>3. config' = [config EXCEPT ![r] = IF kind[r] = "server" THEN 1 ELSE config[r] + 1]
    BY DEF Listed
  <1> QED BY <1>1, <1>2, <1>3, BoundsAssumption

\* The answer to a question.
LEMMA AnswerKeeps ==
    ASSUME IInv, NEW k \in clicks, Answer(k)
    PROVE  IInv'
  <1> USE DEF IInv
  <1>1. /\ Key(k.card) \in pending /\ Consume(k) /\ k.card[1] \in Questions
        /\ UNCHANGED <<kind, record, attempts, sending, stage, shown, call, taken, told, config, image>>
        /\ answers' = answers \cup {Response(k)}
    BY DEF Answer, rowVars, cfgVars
  <1>2. /\ cards' \in {cards, [cards EXCEPT ![k.card] = "edited"]}
        /\ faults' \in 0..MaxFaults /\ faults' >= faults /\ hit' = hit
    BY EditedStep DEF Answer
  <1>3. answers' \in SUBSET (Questions \X Values \X Nat) /\ IsFiniteSet(answers')
    BY <1>1, AnswerStep
  <1>4. TypeOK'
    BY <1>1, <1>2, <1>3, HandledTypes DEF TypeOK
  <1>5. SendInv' /\ CardInv' /\ CountInv' /\ OnceInv' /\ AskInv'
    BY <1>1, <1>2, <1>4, ItemsAssumption, DecideStep
  <1>6. InstallInv'
    BY <1>1 DEF InstallInv
  <1> QED BY <1>3, <1>4, <1>5, <1>6

\* A request is rejected.
LEMMA RejectKeeps ==
    ASSUME IInv, NEW k \in clicks, Reject(k)
    PROVE  IInv'
  <1> USE DEF IInv
  <1> DEFINE r == k.card[1]
  <1>1. /\ Key(k.card) \in pending /\ Consume(k) /\ r \in Requests
        /\ UNCHANGED <<kind, record, attempts, sending, stage, shown, call, answers, taken, config, image>>
        /\ told' = [told EXCEPT ![r] = @ \cup {"rejected"}]
    BY DEF Reject, Tell, rowVars, callVars
  <1>2. /\ cards' \in {cards, [cards EXCEPT ![k.card] = "edited"]}
        /\ faults' \in 0..MaxFaults /\ faults' >= faults /\ hit' = hit
    BY EditedStep DEF Reject
  <1>3. /\ told' \in [Requests -> SUBSET {"unasked", "rejected", "applied", "broken"}]
        /\ told'[r] = told[r] \cup {"rejected"}
        /\ \A x \in Requests \ {r} : told'[x] = told[x]
    BY <1>1 DEF TypeOK
  <1>4. TypeOK'
    BY <1>1, <1>2, <1>3, HandledTypes DEF TypeOK
  <1>5. config[r] <= acted[r] /\ acted[r] \in Nat /\ config[r] \in Nat /\ record[r] # "none"
    BY <1>1, FoundRow, BoundsAssumption DEF TypeOK, Items
  <1>6. SendInv' /\ CardInv' /\ CountInv' /\ OnceInv' /\ AskInv'
    BY <1>1, <1>2, <1>3, <1>4, <1>5, DecideStep
  <1>7. InstallInv'
    BY <1>1, <1>3, <1>5 DEF InstallInv
  <1> QED BY <1>1, <1>4, <1>6, <1>7

\* Packages are listed, and the image is built from all that are, or not at all.
LEMMA ApproveInstallKeeps ==
    ASSUME IInv, NEW k \in clicks, ApproveInstall(k)
    PROVE  IInv'
  <1> USE DEF IInv
  <1> DEFINE r == k.card[1]
  <1>1. /\ Key(k.card) \in pending /\ Consume(k) /\ r \in Requests /\ Listed(r) /\ kind[r] = "install"
        /\ UNCHANGED <<kind, record, attempts, sending, stage, shown, answers, taken>>
    BY DEF ApproveInstall, rowVars
  <1>2. /\ cards' \in {cards, [cards EXCEPT ![k.card] = "edited"]}
        /\ faults' \in 0..MaxFaults /\ faults' >= faults /\ hit' = hit
    <2>1. CASE Edited(k)
      BY <2>1, EditedStep
    <2>2. CASE FaultOn({}) /\ cards' = [cards EXCEPT ![k.card] = "edited"]
      <3>1. faults' \in 0..MaxFaults /\ faults' = faults + 1 /\ faults \in Nat /\ hit' = hit \cup {}
        BY <2>2, FaultStep
      <3> QED BY <2>2, <3>1
    <2> QED BY <2>1, <2>2 DEF ApproveInstall
  <1>3. PICK what \in {"applied", "broken"} :
           /\ told' = [told EXCEPT ![r] = @ \cup {what}]
           /\ \/ what = "applied" /\ image' = Built(r) /\ call' = Dead
              \/ what = "broken" /\ image' = image /\ call' = call
    BY DEF ApproveInstall, Tell
  <1>4. /\ told' \in [Requests -> SUBSET {"unasked", "rejected", "applied", "broken"}]
        /\ told'[r] = told[r] \cup {what}
        /\ \A x \in Requests \ {r} : told'[x] = told[x]
    BY <1>1, <1>3 DEF TypeOK
  <1>5. /\ config' \in [Requests -> 0..1 + MaxFaults] /\ config'[r] <= acted[r] + 1 /\ config'[r] > 0
        /\ \A x \in Requests \ {r} : config'[x] = config[x]
    BY <1>1, ListedStep
  <1>6. TypeOK'
    <2>1. /\ call' \in [Questions -> {"none", "waiting", "answered", "timedout", "dead"}]
          /\ image' \in SUBSET Requests
      BY <1>3 DEF TypeOK, Dead, Built
    <2> QED BY <1>1, <1>2, <1>4, <1>5, <2>1, HandledTypes DEF TypeOK
  <1>7. SendInv' /\ CardInv' /\ CountInv' /\ OnceInv' /\ AskInv'
    BY <1>1, <1>2, <1>4, <1>5, <1>6, DecideStep
  <1>8. InstallInv'
    <2> SUFFICES ASSUME NEW x \in Requests
                 PROVE  /\ kind[x] = "install" /\ "applied" \in told'[x] => x \in image' /\ config'[x] > 0
                        /\ record[x] = "none" => told'[x] = {}
      BY <1>1 DEF InstallInv
    <2>1. record[r] # "none"
      BY <1>1, FoundRow
    <2>2. kind[x] = "install" /\ "applied" \in told'[x] => config'[x] > 0
      BY <1>4, <1>5 DEF InstallInv
    <2>3. kind[x] = "install" /\ "applied" \in told'[x] => x \in image'
      <3>1. CASE what = "applied"
        BY <1>3, <2>2, <3>1 DEF Built
      <3>2. CASE what = "broken"
        BY <1>3, <1>4, <3>2 DEF InstallInv
      <3> QED BY <3>1, <3>2
    <2> QED BY <1>4, <2>1, <2>2, <2>3 DEF InstallInv
  <1> QED BY <1>1, <1>6, <1>7, <1>8

\* A server is listed.
LEMMA ApproveServerKeeps ==
    ASSUME IInv, NEW k \in clicks, ApproveServer(k)
    PROVE  IInv'
  <1> USE DEF IInv
  <1> DEFINE r == k.card[1]
  <1>1. /\ Key(k.card) \in pending /\ Consume(k) /\ r \in Requests /\ Listed(r) /\ kind[r] = "server"
        /\ told' = [told EXCEPT ![r] = @ \cup {"applied"}] /\ call' = Dead
        /\ UNCHANGED <<kind, record, attempts, sending, stage, shown, answers, taken, image>>
    BY DEF ApproveServer, Tell, rowVars
  <1>2. /\ cards' \in {cards, [cards EXCEPT ![k.card] = "edited"]}
        /\ faults' \in 0..MaxFaults /\ faults' >= faults /\ hit' = hit
    BY EditedStep DEF ApproveServer
  <1>3. /\ told' \in [Requests -> SUBSET {"unasked", "rejected", "applied", "broken"}]
        /\ told'[r] = told[r] \cup {"applied"}
        /\ \A x \in Requests \ {r} : told'[x] = told[x]
    BY <1>1 DEF TypeOK
  <1>4. /\ config' \in [Requests -> 0..1 + MaxFaults] /\ config'[r] <= acted[r] + 1
        /\ \A x \in Requests \ {r} : config'[x] = config[x]
    BY <1>1, ListedStep
  <1>5. TypeOK'
    <2>1. call' \in [Questions -> {"none", "waiting", "answered", "timedout", "dead"}]
      BY <1>1 DEF TypeOK, Dead
    <2> QED BY <1>1, <1>2, <1>3, <1>4, <2>1, HandledTypes DEF TypeOK
  <1>6. SendInv' /\ CardInv' /\ CountInv' /\ OnceInv' /\ AskInv'
    BY <1>1, <1>2, <1>3, <1>4, <1>5, DecideStep
  <1>7. record[r] # "none"
    BY <1>1, FoundRow
  <1>8. InstallInv'
    BY <1>1, <1>3, <1>4, <1>7 DEF InstallInv
  <1> QED BY <1>1, <1>5, <1>6, <1>8

\* The host dies inside a handler: the card has lost its buttons and the first
\* change is made, but the pending row is still there.
LEMMA DiesInHandlerKeeps ==
    ASSUME IInv, NEW k \in clicks, DiesInHandler(k)
    PROVE  IInv'
  <1> USE DEF IInv
  <1> DEFINE c == k.card
             i == c[1]
             is == {i} \cup {x.card[1] : x \in clicks} \cup ({sending} \ {Nothing})
  <1>1. /\ Key(c) \in pending /\ Restarted /\ call' = Dead
        /\ cards' = [cards EXCEPT ![c] = "edited"]
        /\ acted' = [acted EXCEPT ![i] = @ + 1]
        /\ UNCHANGED <<kind, record, shown, pending, taken>>
    BY DEF DiesInHandler
  <1>2. /\ i \in Items /\ c \in CardIds /\ c = <<i, c[2]>> /\ cards[c] # "none" /\ record[i] # "none"
        /\ i \in Requests => config[i] <= acted[i] /\ acted[i] + 1 <= shown[i]
    BY <1>1, FoundRow
  <1>3. is \in SUBSET Items
    BY <1>2, ClickedCard, Keys DEF TypeOK
  <1>4. faults' \in 0..MaxFaults /\ faults' = faults + 1
        /\ hit' \in SUBSET Items /\ hit' = hit \cup is
    BY <1>3, FaultStep DEF DiesInHandler
  <1>5. answers' \in SUBSET (Questions \X Values \X Nat) /\ IsFiniteSet(answers')
        /\ answers \subseteq answers'
    BY AnswerStep DEF DiesInHandler, TypeOK
  <1>6. /\ told' \in [Requests -> SUBSET {"unasked", "rejected", "applied", "broken"}]
        /\ \A r \in Requests : \/ told'[r] = told[r]
                               \/ r = i /\ told'[r] = told[r] \cup {"rejected"}
    BY DEF DiesInHandler, Tell, TypeOK
  <1>7. /\ config' \in [Requests -> 0..1 + MaxFaults]
        /\ i \in Requests => config'[i] <= acted[i] + 1
        /\ \A r \in Requests \ {i} : config'[r] = config[r]
        /\ \A r \in Requests : config[r] > 0 => config'[r] > 0
    <2>1. CASE i \in Requests /\ Listed(i)
      <3>1. /\ config' \in [Requests -> 0..1 + MaxFaults] /\ config'[i] <= acted[i] + 1 /\ config'[i] > 0
            /\ \A r \in Requests \ {i} : config'[r] = config[r]
        BY <1>1, <2>1, ListedStep
      <3> QED BY <3>1
    <2>2. CASE config' = config
      BY <1>2, <2>2, BoundsAssumption DEF TypeOK
    <2> QED BY <2>1, <2>2 DEF DiesInHandler
  <1>8. image' \in SUBSET Requests /\ (image' = image \/ image' = Built(i))
    BY DEF DiesInHandler, Built, TypeOK
  <1>9. TypeOK'
    <2>1. attempts' \in [Items -> 0..MaxAttempts - 1]
      BY <1>1, BoundsAssumption DEF Restarted
    <2>2. call' \in [Questions -> {"none", "waiting", "answered", "timedout", "dead"}]
      BY <1>1 DEF Dead, TypeOK
    <2>3. /\ cards' \in [CardIds -> {"none", "open", "edited"}] /\ acted' \in [Items -> Nat]
          /\ taken' \in SUBSET answers'
      BY <1>1, <1>2, <1>5 DEF TypeOK
    <2> QED BY <1>1, <1>4, <1>5, <1>6, <1>7, <1>8, <2>1, <2>2, <2>3 DEF Restarted, TypeOK
  <1>10. \A x \in CardIds : cards'[x] = IF x = c THEN "edited" ELSE cards[x]
    BY <1>1, <1>2 DEF TypeOK
  <1>11. SendInv' /\ CardInv' /\ OnceInv' /\ AskInv'
    <2>1. \A x \in CardIds : \/ cards'[x] = cards[x]
                            \/ (cards[x] # "none" /\ cards'[x] # "none" /\ x[1] \in hit')
      BY <1>2, <1>4, <1>10
    <2>2. \A x \in Items \ hit' : acted'[x] = acted[x]
      BY <1>1, <1>4 DEF TypeOK
    <2>3. \A r \in Requests : told[r] \subseteq told'[r]
      BY <1>6
    <2>4. hit \cup {x.card[1] : x \in clicks} \cup ({sending} \ {Nothing}) \subseteq hit'
      BY <1>4
    <2> QED BY <1>1, <1>4, <2>1, <2>2, <2>3, <2>4, RestartStep
  <1>12. CountInv'
    <2>1. ASSUME NEW r \in Requests, NEW n \in LiveCards(r)' PROVE n \in LiveCards(r)
      <3>1. n \in 1..shown[r] /\ <<r, n>> \in pending /\ cards'[<<r, n>>] # "edited"
        BY <1>1, <2>1 DEF LiveCards
      <3>2. <<r, n>> \in CardIds
        BY <3>1, BoundsAssumption DEF CardIds, TypeOK, Items
      <3> QED BY <1>10, <3>1, <3>2 DEF LiveCards
    <2>2. i \in Requests => c[2] \notin LiveCards(i)'
      BY <1>2, <1>10 DEF LiveCards
    <2> QED BY <1>1, <1>7, <1>9, <2>1, <2>2, CountDecided
  <1>13. InstallInv'
    <2> SUFFICES ASSUME NEW r \in Requests
                 PROVE  /\ kind[r] = "install" /\ "applied" \in told'[r] => r \in image' /\ config'[r] > 0
                        /\ record[r] = "none" => told'[r] = {}
      BY <1>1 DEF InstallInv
    <2>1. "applied" \in told'[r] => "applied" \in told[r]
      BY <1>6
    <2>2. kind[r] = "install" /\ "applied" \in told[r] => r \in image /\ config'[r] > 0
      BY <1>7 DEF InstallInv
    <2>3. record[r] = "none" => told'[r] = {}
      BY <1>2, <1>6 DEF InstallInv
    <2> QED BY <1>8, <2>1, <2>2, <2>3 DEF Built
  <1> QED BY <1>5, <1>9, <1>11, <1>12, <1>13

-----------------------------------------------------------------------------
(* The theorems.                                                           *)

\* Nothing is asked at first.
LEMMA IInvInit == Init => IInv
  <1> SUFFICES ASSUME Init PROVE IInv
    OBVIOUS
  <1>1. TypeOK /\ IsFiniteSet(answers)
    BY BoundsAssumption, ItemsAssumption, FS_EmptySet DEF Init, TypeOK
  <1>2. SendInv
    BY BoundsAssumption, ItemsAssumption DEF Init, SendInv
  <1>3. CardInv /\ OnceInv /\ AskInv /\ InstallInv
    BY ItemsAssumption DEF Init, CardInv, OnceInv, AskInv, InstallInv, Items
  <1>4. CountInv
    <2>1. \A r \in Requests : LiveCards(r) = {}
      BY DEF Init, LiveCards
    <2>2. Cardinality({}) = 0
      BY FS_EmptySet
    <2> QED BY <2>1, <2>2 DEF Init, CountInv, Items
  <1> QED BY <1>1, <1>2, <1>3, <1>4 DEF IInv

\* No step of the container, the delivery or a click breaks the invariant.
LEMMA IInvStep == IInv /\ [Next]_vars => IInv'
  <1> SUFFICES ASSUME IInv, [Next]_vars PROVE IInv'
    OBVIOUS
  <1>1. CASE UNCHANGED vars
    <2>1. /\ UNCHANGED <<kind, record, attempts, sending, stage, shown, cards, clicks, pending>>
          /\ UNCHANGED <<call, answers, taken, told, config, image, acted, hit, faults>>
      BY <1>1 DEF vars, rowVars, cardVars, callVars, cfgVars
    <2>2. TypeOK' /\ IsFiniteSet(answers')
      BY <2>1 DEF IInv, TypeOK
    <2>3. SendInv' /\ CardInv' /\ OnceInv' /\ InstallInv'
      BY <2>1 DEF IInv, SendInv, CardInv, OnceInv, InstallInv, Card
    <2>4. CountInv'
      BY <2>1, <2>2, CountStep DEF IInv, LiveCards
    <2>5. AskInv'
      BY <2>1, AskSame DEF IInv
    <2> QED BY <2>2, <2>3, <2>4, <2>5 DEF IInv
  <1>2. CASE \E q \in Questions : Ask(q) \/ TakeAnswer(q) \/ TimesOut(q)
    BY <1>2, ContainerKeeps
  <1>3. CASE \E r \in Requests : Request(r) \/ NoApprover(r)
    BY <1>3, ContainerKeeps, NoApproverKeeps
  <1>4. CASE \E i \in Items : DeliverQuestion(i) \/ DeliverRequest(i)
    BY <1>4, TakeUpKeeps DEF DeliverQuestion, DeliverRequest
  <1>5. CASE Posted \/ Delivered \/ PostFails
    BY <1>5, PostedKeeps, DeliveredKeeps, PostFailsKeeps
  <1>6. CASE \E c \in CardIds, v \in Values : Click(c, v)
    BY <1>6, ClickKeeps
  <1>7. CASE \E k \in clicks : \/ Unclaimed(k) \/ Answer(k) \/ Reject(k)
                              \/ ApproveInstall(k) \/ ApproveServer(k)
                              \/ DiesInHandler(k)
    BY <1>7, UnclaimedKeeps, AnswerKeeps, RejectKeeps, ApproveInstallKeeps, ApproveServerKeeps,
       DiesInHandlerKeeps
  <1>8. CASE ContainerDies \/ HostRestart
    BY <1>8, ContainerKeeps, HostRestartKeeps
  <1> QED BY <1>1, <1>2, <1>3, <1>4, <1>5, <1>6, <1>7, <1>8 DEF Next

\* The inductive invariant holds in every reachable state.
LEMMA Invariance == Spec => []IInv
  BY IInvInit, IInvStep, PTL DEF Spec

\* Rows, cards, calls and what is configured are well formed; in particular no
\* request is listed more often than it can have been shown.
THEOREM TypeCorrect == Spec => []TypeOK
  <1>1. IInv => TypeOK
    BY DEF IInv
  <1> QED BY <1>1, Invariance, PTL

\* However often a card is clicked, one click decides it, unless a fault has met
\* its delivery or its handler.
THEOREM CardsAreDecidedOnce == Spec => []DecidedOnce
  <1>1. IInv => DecidedOnce
    BY DEF IInv, OnceInv, DecidedOnce, TypeOK
  <1> QED BY <1>1, Invariance, PTL

\* The agent hears how its request ended, or an admin can still decide it.
THEOREM RequestsAreKept == Spec => []NoRequestIsForgotten
  <1>1. ASSUME IInv PROVE NoRequestIsForgotten
    <2> SUFFICES ASSUME NEW r \in Requests, record[r] = "delivered", r \notin hit, told[r] = {}
                 PROVE  \E c \in pending : /\ c[1] = r /\ cards[c] # "none"
                                           /\ cards[c] = "open" \/ \E k \in clicks : k.card = c
      BY DEF NoRequestIsForgotten
    <2>1. PICK n \in 1..shown[r] : Decidable(<<r, n>>)
      BY <1>1 DEF IInv, AskInv
    <2>2. <<r, n>> \in pending /\ <<r, n>>[1] = r
      BY <2>1 DEF Decidable
    <2> QED BY <2>1, <2>2 DEF Decidable
  <1> QED BY <1>1, Invariance, PTL

\* What was reported as installed is in the image, after every later build.
THEOREM InstalledIsKept == Spec => []InstalledStays
  <1>1. IInv => InstalledStays
    BY DEF IInv, InstallInv, InstalledStays
  <1> QED BY <1>1, Invariance, PTL


-----------------------------------------------------------------------------
(* The rows of questions and requests are rows of the outbox.              *)

\* The outcome of a row as OutboxContract names it.
Outcome ==
    [i \in Items |-> CASE record[i] = "none" -> "unwritten"
                       [] record[i] = "open" -> "none"
                       [] OTHER              -> record[i]]

\* A delivery that has begun is a row handed to the platform.
Outbox == INSTANCE OutboxContract WITH Rows <- Items, outcome <- Outcome, sends <- shown

\* What changes one row's record changes its outcome and no other's.
LEMMA OutcomeOf ==
    ASSUME NEW i \in Items, NEW v \in {"none", "open", "delivered", "failed"}, TypeOK,
           record' = [record EXCEPT ![i] = v]
    PROVE  Outcome' = [Outcome EXCEPT ![i] = IF v = "none" THEN "unwritten"
                                             ELSE IF v = "open" THEN "none" ELSE v]
  BY DEF Outcome, TypeOK

\* A row that is settled was open.
LEMMA SettleIsSettle ==
    ASSUME NEW i \in Items, TypeOK, record[i] = "open", shown' = shown,
           NEW v \in {"delivered", "failed"}, Settle(i, v)
    PROVE  Outbox!Settle(i)
  <1>1. Outcome' = [Outcome EXCEPT ![i] = v]
    BY OutcomeOf DEF Settle
  <1>2. Outcome[i] = "none"
    BY DEF Outcome
  <1> QED BY <1>1, <1>2 DEF Outbox!Settle

\* Every step writes, hands over or settles one row, or touches none.
LEMMA OutboxStep == IInv /\ [Next]_vars => [Outbox!Next]_(Outbox!vars)
  <1> SUFFICES ASSUME IInv, [Next]_vars
               PROVE  Outbox!Next \/ UNCHANGED <<record, shown>>
    BY DEF Outbox!vars, Outcome
  <1> USE DEF IInv
  <1>1. CASE UNCHANGED vars
    BY <1>1 DEF vars, rowVars
  <1>2. CASE \E q \in Questions : Ask(q) \/ TakeAnswer(q) \/ TimesOut(q)
    <2> PICK q \in Questions : Ask(q) \/ TakeAnswer(q) \/ TimesOut(q)
      BY <1>2
    <2>1. CASE Ask(q)
      <3>1. q \in Items /\ Outcome' = [Outcome EXCEPT ![q] = "none"]
        BY <2>1, OutcomeOf DEF Ask, Items
      <3>2. Outcome[q] = "unwritten"
        BY <2>1, <3>1 DEF Ask, Outcome
      <3> QED BY <2>1, <3>1, <3>2 DEF Ask, Outbox!Write, Outbox!Next
    <2>2. CASE TakeAnswer(q) \/ TimesOut(q)
      BY <2>2 DEF TakeAnswer, TimesOut, rowVars
    <2> QED BY <2>1, <2>2
  <1>3. CASE \E r \in Requests : Request(r) \/ NoApprover(r)
    <2> PICK r \in Requests : Request(r) \/ NoApprover(r)
      BY <1>3
    <2>1. CASE Request(r)
      <3>1. r \in Items /\ Outcome' = [Outcome EXCEPT ![r] = "none"]
        BY <2>1, OutcomeOf DEF Request, Items
      <3>2. Outcome[r] = "unwritten"
        BY <2>1, <3>1 DEF Request, Outcome
      <3> QED BY <2>1, <3>1, <3>2 DEF Request, Outbox!Write, Outbox!Next
    <2>2. CASE NoApprover(r)
      <3>1. r \in Items /\ Outbox!Settle(r)
        BY <2>2, SettleIsSettle DEF NoApprover, Items
      <3> QED BY <3>1 DEF Outbox!Next
    <2> QED BY <2>1, <2>2
  <1>4. CASE \E i \in Items : DeliverQuestion(i) \/ DeliverRequest(i)
    <2> PICK i \in Items : TakeUp(i)
      BY <1>4 DEF DeliverQuestion, DeliverRequest
    <2>1. Outcome' = Outcome /\ Outcome[i] = "none"
      BY DEF TakeUp, Outcome
    <2> QED BY <2>1 DEF TakeUp, Outbox!Send, Outbox!Next
  <1>5. CASE Posted \/ Delivered \/ PostFails
    <2>1. CASE Posted
      BY <2>1 DEF Posted
    <2>2. CASE ~Posted
      <3>1. Delivered \/ PostFails
        BY <1>5, <2>2
      <3>2. sending \in Items /\ record[sending] = "open" /\ shown' = shown
        BY <3>1 DEF Delivered, PostFails, TypeOK, SendInv
      <3>3. \/ Settle(sending, "delivered") \/ Settle(sending, "failed")
            \/ UNCHANGED <<record, shown>>
        BY <3>1, <3>2 DEF Delivered, PostFails
      <3>4. Outbox!Settle(sending) \/ UNCHANGED <<record, shown>>
        BY <3>2, <3>3, SettleIsSettle
      <3> QED BY <3>2, <3>4 DEF Outbox!Next
    <2> QED BY <2>1, <2>2
  <1>6. CASE \E c \in CardIds, v \in Values : Click(c, v)
    BY <1>6 DEF Click, rowVars
  <1>7. CASE \E k \in clicks : \/ Unclaimed(k) \/ Answer(k) \/ Reject(k)
                              \/ ApproveInstall(k) \/ ApproveServer(k)
                              \/ DiesInHandler(k)
    BY <1>7 DEF Unclaimed, Answer, Reject, ApproveInstall, ApproveServer, DiesInHandler, rowVars
  <1>8. CASE ContainerDies \/ HostRestart
    BY <1>8 DEF ContainerDies, HostRestart, rowVars
  <1> QED BY <1>1, <1>2, <1>3, <1>4, <1>5, <1>6, <1>7, <1>8 DEF Next

\* The rows of questions and requests keep what outbound delivery promises, at the
\* handlers that settle a row themselves as well: one outcome, for good, through
\* retries and crashes.
THEOREM Implementation == Spec => Outbox!Spec
  <1>1. Init => Outbox!Init
    BY DEF Init, Outcome, Outbox!Init
  <1> QED BY <1>1, OutboxStep, Invariance, PTL DEF Spec, Outbox!Spec

=============================================================================
