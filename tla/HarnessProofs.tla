---------------------------- MODULE HarnessProofs ----------------------------
(* Three parts of how a harness runs what a Session hands it, each proved for *)
(* any number of messages, turns or events: the operations of harness mode,  *)
(* which the adapter tracks until their follow-ups are admitted; the turns of *)
(* a native harness, which run one at a time; and the deltas of a Claude     *)
(* stream, which a timer and the next event store together.                  *)
EXTENDS HarnessOperations, NativeTurns, ClaudeDeltas, SequenceTheorems, FiniteSetTheorems, TLAPS

(* A sequence without its i-th element.                                      *)
LEMMA RemoveAtProperties ==
  ASSUME NEW S, NEW s \in Seq(S), NEW i \in 1..Len(s)
  PROVE  /\ RemoveAt(s, i) \in Seq(S)
         /\ Len(RemoveAt(s, i)) = Len(s) - 1
         /\ \A j \in 1..Len(s) - 1 : RemoveAt(s, i)[j] = IF j < i THEN s[j] ELSE s[j + 1]
<1> DEFINE front == SubSeq(s, 1, i - 1)
           back  == SubSeq(s, i + 1, Len(s))
<1>1. Len(s) \in Nat /\ \A j \in 1..Len(s) : s[j] \in S
  BY LenProperties, ElementOfSeq
<1>2. /\ front \in Seq(S)
      /\ Len(front) = i - 1
      /\ \A j \in 1..i - 1 : front[j] = s[j]
  <2>1. \A j \in 1..i - 1 : s[j] \in S
    BY <1>1
  <2> QED BY <1>1, <2>1, SubSeqProperties
<1>3. /\ back \in Seq(S)
      /\ Len(back) = Len(s) - i
      /\ \A j \in 1..Len(s) - i : back[j] = s[i + j]
  <2>1. \A j \in i + 1..Len(s) : s[j] \in S
    BY <1>1
  <2> QED BY <1>1, <2>1, SubSeqProperties
<1>4. RemoveAt(s, i) = front \o back
  BY DEF RemoveAt
<1> HIDE DEF front, back
<1>5. /\ front \o back \in Seq(S)
      /\ Len(front \o back) = Len(front) + Len(back)
      /\ \A j \in 1..Len(front) + Len(back) :
           (front \o back)[j] = IF j <= Len(front) THEN front[j] ELSE back[j - Len(front)]
  BY <1>2, <1>3, ConcatProperties
<1>6. ASSUME NEW j \in 1..Len(s) - 1
      PROVE  (front \o back)[j] = IF j < i THEN s[j] ELSE s[j + 1]
  <2>1. CASE j < i
    <3>1. j \in 1..i - 1 /\ j \in 1..Len(front) + Len(back) /\ j <= Len(front)
      BY <1>1, <1>2, <1>3, <2>1
    <3> QED BY <1>2, <1>5, <2>1, <3>1
  <2>2. CASE ~(j < i)
    <3>1. /\ j - (i - 1) \in 1..Len(s) - i /\ j \in 1..Len(front) + Len(back)
          /\ ~(j <= Len(front)) /\ i + (j - (i - 1)) = j + 1
      BY <1>1, <1>2, <1>3, <2>2
    <3> QED BY <1>2, <1>3, <1>5, <2>2, <3>1
  <2> QED BY <2>1, <2>2
<1> QED BY <1>1, <1>2, <1>3, <1>4, <1>5, <1>6

-----------------------------------------------------------------------------
(* The operations of harness mode.                                          *)

HandedOver(m) == receipt[m] = "settled" \/ operation[m] # "none"
Inbox == {intake[k] : k \in 1..Len(intake)}

(* Where a message is, and what its operation and its work say of it.       *)
PlaceInv ==
  /\ \A m \in Inbox : receipt[m] = "open" /\ operation[m] = "none" /\ m # receiving
  /\ receiving # Nothing => receipt[receiving] = "open" /\ operation[receiving] = "none"
  /\ step = "idle" <=> receiving = Nothing
  /\ \A m \in Message :
       /\ receipt[m] = "new" => operation[m] = "none"
       /\ work[m] = "runs" <=> operation[m] = "open"
       /\ followups[m] # 0 => operation[m] \in {"open", "flushing"}
       /\ m \in Reply /\ work[m] = "runs" => receipt[m] = "open"

(* The mailbox keeps the order of admission.                                *)
OrderInv ==
  /\ \A i \in 1..Len(admitted) : receipt[admitted[i]] # "new"
  /\ \A i \in 1..Len(admitted) : admitted[i] \in Inbox \union {receiving} \/ HandedOver(admitted[i])
  /\ \A i, j \in 1..Len(admitted) : admitted[i] = admitted[j] => i = j
  /\ \A k, l \in 1..Len(intake) : intake[k] = intake[l] => k = l
  /\ \A i, j \in 1..Len(admitted) : i < j /\ admitted[j] = receiving => admitted[i] \notin Inbox
  /\ \A i, j \in 1..Len(admitted) : i < j =>
       \A k, l \in 1..Len(intake) : admitted[i] = intake[k] /\ admitted[j] = intake[l] => k < l

HarnessInv == HarnessTypeOK /\ PlaceInv /\ OrderInv

(* A harness adapter without submissions satisfies the invariant. *)
LEMMA HarnessStarts == HarnessInit => HarnessInv
<1> SUFFICES ASSUME HarnessInit PROVE HarnessInv
  OBVIOUS
<1> USE DEF HarnessInit
<1>1. HarnessTypeOK
  <2>1. intake \in Seq(Message) /\ admitted \in Seq(Message)
    OBVIOUS
  <2>2. followups \in [Message -> 0..MaxSent]
    BY HarnessAssumption
  <2> QED BY <2>1, <2>2 DEF HarnessTypeOK
<1>2. PlaceInv
  BY DEF PlaceInv, Inbox
<1>3. OrderInv
  BY DEF OrderInv, Inbox
<1> QED BY <1>1, <1>2, <1>3 DEF HarnessInv

(* Nothing moves in the line, and whoever was given to the harness stays so.*)
LEMMA OrderStays ==
  ASSUME HarnessTypeOK, OrderInv, UNCHANGED <<admitted, intake, receiving>>,
         \A m \in Message : (receipt[m] # "new" => receipt'[m] # "new") /\ (HandedOver(m) => HandedOver(m)')
  PROVE  OrderInv'
<1>1. Inbox' = Inbox /\ \A i \in 1..Len(admitted) : admitted[i] \in Message
  BY DEF Inbox, HarnessTypeOK
<1> QED BY <1>1 DEF OrderInv

(* A message is admitted at the end of the line.                            *)
LEMMA Admits ==
  ASSUME HarnessInv, NEW m \in Message, Admit(m), UNCHANGED <<receiving, step, harness, withdrawn>>,
         UNCHANGED <<operation, stopped, work, disposed>>,
         \A n \in Message : followups'[n] # 0 => operation[n] \in {"open", "flushing"}
  PROVE  PlaceInv' /\ OrderInv' /\ intake' \in Seq(Message) /\ admitted' \in Seq(Message)
         /\ receipt' \in [Message -> {"new", "open", "settled"}]
<1>1. /\ intake \in Seq(Message) /\ admitted \in Seq(Message)
      /\ intake' = Append(intake, m) /\ admitted' = Append(admitted, m)
      /\ Len(intake') = Len(intake) + 1 /\ Len(admitted') = Len(admitted) + 1
      /\ Len(intake) \in Nat /\ Len(admitted) \in Nat
      /\ \A k \in 1..Len(intake) : intake'[k] = intake[k] /\ intake[k] \in Message
      /\ \A i \in 1..Len(admitted) : admitted'[i] = admitted[i] /\ admitted[i] \in Message
      /\ intake'[Len(intake) + 1] = m /\ admitted'[Len(admitted) + 1] = m
      /\ receiving \in Message \union {Nothing} /\ Nothing \notin Message
  BY HarnessAssumption DEF HarnessInv, HarnessTypeOK, Admit
<1>2. /\ receipt' \in [Message -> {"new", "open", "settled"}] /\ receipt[m] = "new" /\ receipt'[m] = "open"
      /\ \A n \in Message : n # m => receipt'[n] = receipt[n]
  BY DEF HarnessInv, HarnessTypeOK, Admit
<1>3. Inbox' = Inbox \union {m} /\ m \notin Inbox /\ m # receiving /\ Inbox \subseteq Message
  <2>1. \A n \in Inbox : n \in Inbox' /\ n \in Message
    BY <1>1 DEF Inbox
  <2>2. m \in Inbox'
    BY <1>1 DEF Inbox
  <2>3. ASSUME NEW k \in 1..Len(intake') PROVE intake'[k] \in Inbox \union {m}
    <3>1. CASE k = Len(intake) + 1
      BY <1>1, <3>1
    <3>2. CASE k \in 1..Len(intake)
      BY <1>1, <3>2 DEF Inbox
    <3> QED BY <1>1, <2>3, <3>1, <3>2
  <2>4. \A n \in Inbox' : n \in Inbox \union {m}
    BY <2>3 DEF Inbox
  <2>5. m \notin Inbox /\ m # receiving
    BY <1>1, <1>2 DEF HarnessInv, PlaceInv
  <2> QED BY <2>1, <2>2, <2>4, <2>5
<1>4. PlaceInv'
  <2>1. \A n \in Inbox' : receipt'[n] = "open" /\ operation'[n] = "none" /\ n # receiving'
    <3>1. operation[m] = "none"
      BY <1>2 DEF HarnessInv, PlaceInv
    <3>2. \A n \in Inbox : n # m /\ n \in Message /\ receipt[n] = "open" /\ operation[n] = "none" /\ n # receiving
      BY <1>3 DEF HarnessInv, PlaceInv
    <3> QED BY <1>2, <1>3, <3>1, <3>2
  <2>2. /\ receiving' # Nothing => receipt'[receiving'] = "open" /\ operation'[receiving'] = "none"
        /\ step' = "idle" <=> receiving' = Nothing
    BY <1>1, <1>2, <1>3 DEF HarnessInv, PlaceInv
  <2>3. \A n \in Message :
          /\ receipt'[n] = "new" => operation'[n] = "none"
          /\ work'[n] = "runs" <=> operation'[n] = "open"
          /\ followups'[n] # 0 => operation'[n] \in {"open", "flushing"}
          /\ n \in Reply /\ work'[n] = "runs" => receipt'[n] = "open"
    BY <1>2 DEF HarnessInv, PlaceInv
  <2> QED BY <2>1, <2>2, <2>3 DEF PlaceInv
<1>5. \A i \in 1..Len(admitted) : admitted[i] # m
  BY <1>1, <1>2 DEF HarnessInv, OrderInv
<1>6. \A n \in Message : HandedOver(n) => HandedOver(n)'
  BY <1>2 DEF HandedOver
<1>7. OrderInv'
  <2>1. /\ \A i \in 1..Len(admitted') : receipt'[admitted'[i]] # "new"
        /\ \A i \in 1..Len(admitted') : admitted'[i] \in Inbox' \union {receiving'} \/ HandedOver(admitted[i])'
    <3>1. ASSUME NEW i \in 1..Len(admitted')
          PROVE  receipt'[admitted'[i]] # "new" /\ (admitted'[i] \in Inbox' \union {receiving'} \/ HandedOver(admitted[i])')
      <4>1. CASE i = Len(admitted) + 1
        BY <1>1, <1>2, <1>3, <4>1
      <4>2. CASE i \in 1..Len(admitted)
        <5>1. admitted'[i] = admitted[i] /\ admitted[i] \in Message /\ receipt[admitted[i]] # "new"
          BY <1>1, <4>2 DEF HarnessInv, OrderInv
        <5>2. admitted[i] \in Inbox \union {receiving} \/ HandedOver(admitted[i])
          BY <4>2 DEF HarnessInv, OrderInv
        <5>3. receipt'[admitted[i]] # "new"
          BY <1>2, <5>1
        <5>4. HandedOver(admitted[i]) => HandedOver(admitted[i])'
          BY <1>1, <1>6, <5>1 DEF HandedOver
        <5> QED BY <1>1, <1>3, <5>1, <5>2, <5>3, <5>4
      <4> QED BY <1>1, <3>1, <4>1, <4>2
    <3> QED BY <3>1
  <2>2. /\ \A i, j \in 1..Len(admitted') : admitted'[i] = admitted'[j] => i = j
        /\ \A k, l \in 1..Len(intake') : intake'[k] = intake'[l] => k = l
    <3>1. \A k \in 1..Len(intake) : intake[k] # m
      BY <1>3 DEF Inbox
    <3> QED BY <1>1, <1>5, <3>1 DEF HarnessInv, OrderInv
  <2>3. \A i, j \in 1..Len(admitted') : i < j /\ admitted'[j] = receiving' => admitted'[i] \notin Inbox'
    <3>1. ASSUME NEW i \in 1..Len(admitted'), NEW j \in 1..Len(admitted'), i < j, admitted'[j] = receiving'
          PROVE  admitted'[i] \notin Inbox'
      <4>1. j # Len(admitted) + 1
        BY <1>1, <1>3, <3>1
      <4>2. i \in 1..Len(admitted) /\ j \in 1..Len(admitted)
        <5>1. Len(admitted) \in Nat /\ i \in 1..Len(admitted) + 1 /\ j \in 1..Len(admitted) + 1
          BY <1>1
        <5> QED BY <3>1, <4>1, <5>1
      <4>3. admitted[i] \notin Inbox
        BY <1>1, <3>1, <4>2 DEF HarnessInv, OrderInv
      <4> QED BY <1>1, <1>3, <1>5, <4>2, <4>3
    <3> QED BY <3>1
  <2>4. ASSUME NEW i \in 1..Len(admitted'), NEW j \in 1..Len(admitted'), i < j,
               NEW k \in 1..Len(intake'), NEW l \in 1..Len(intake'),
               admitted'[i] = intake'[k], admitted'[j] = intake'[l]
        PROVE  k < l
    <3>1. i \in 1..Len(admitted) /\ k \in 1..Len(intake)
      BY <1>1, <1>5, <2>4
    <3>2. CASE l = Len(intake) + 1
      BY <1>1, <3>1, <3>2
    <3>3. CASE l # Len(intake) + 1
      <4>1. l \in 1..Len(intake)
        BY <1>1, <3>3
      <4>2. j \in 1..Len(admitted)
        <5>1. intake[l] \in Inbox /\ admitted'[j] = intake[l]
          BY <1>1, <2>4, <4>1 DEF Inbox
        <5>2. j # Len(admitted) + 1
          BY <1>1, <1>3, <5>1
        <5> QED BY <1>1, <2>4, <5>2
      <4> QED BY <1>1, <2>4, <3>1, <4>1, <4>2 DEF HarnessInv, OrderInv
    <3> QED BY <3>2, <3>3
  <2>5. \A i, j \in 1..Len(admitted') : i < j =>
           \A k, l \in 1..Len(intake') : admitted'[i] = intake'[k] /\ admitted'[j] = intake'[l] => k < l
    BY <2>4
  <2> QED BY <2>1, <2>2, <2>3, <2>5 DEF OrderInv
<1> QED BY <1>1, <1>2, <1>4, <1>7

(* The receiver of a submission refuses it, or calls the harness with it. *)
LEMMA ReceiveStep ==
  ASSUME HarnessInv, Receive
  PROVE  HarnessInv'
<1>1. /\ intake \in Seq(Message) /\ intake # <<>> /\ receiving = Nothing /\ Nothing \notin Message
      /\ receiving' = intake[1] /\ intake' = Tail(intake) /\ step' = "activate"
      /\ Len(intake) \in Nat \ {0} /\ Len(intake') = Len(intake) - 1 /\ intake' \in Seq(Message)
      /\ \A k \in 1..Len(intake') : intake'[k] = intake[k + 1]
      /\ UNCHANGED <<receipt, admitted, withdrawn, operation, stopped, work, followups, disposed>>
      /\ admitted \in Seq(Message) /\ Len(admitted) \in Nat
      /\ \A i \in 1..Len(admitted) : admitted[i] \in Message
  BY HarnessAssumption DEF HarnessInv, HarnessTypeOK, Receive, operations
<1>2. /\ receiving' \in Inbox /\ receiving' \notin Inbox' /\ Inbox = Inbox' \union {receiving'} /\ Inbox \subseteq Message
  <2>1. \A k \in 1..Len(intake') : k + 1 \in 1..Len(intake) /\ k + 1 # 1
    BY <1>1
  <2>2. 1 \in 1..Len(intake)
    BY <1>1
  <2>3. \A k \in 1..Len(intake) : k # 1 => k - 1 \in 1..Len(intake') /\ intake'[k - 1] = intake[k]
    BY <1>1
  <2>4. Inbox = {intake[k] : k \in 1..Len(intake)} /\ Inbox' = {intake'[k] : k \in 1..Len(intake')}
    BY DEF Inbox
  <2>5. Inbox \subseteq Message
    BY <1>1, <2>4
  <2>6. receiving' \in Inbox
    BY <1>1, <2>2, <2>4
  <2>7. receiving' \notin Inbox'
    <3>1. SUFFICES ASSUME NEW k \in 1..Len(intake'), intake'[k] = receiving' PROVE FALSE
      BY <2>4
    <3>2. k + 1 \in 1..Len(intake) /\ intake[k + 1] = intake[1] /\ k + 1 # 1
      BY <1>1, <2>1, <3>1
    <3> QED BY <2>2, <3>2 DEF HarnessInv, OrderInv
  <2>8. Inbox' \subseteq Inbox
    BY <1>1, <2>1, <2>4
  <2>9. \A m \in Inbox : m \in Inbox' \/ m = receiving'
    <3>1. SUFFICES ASSUME NEW k \in 1..Len(intake), k # 1 PROVE intake[k] \in Inbox'
      BY <1>1, <2>4
    <3> QED BY <2>3, <2>4, <3>1
  <2> QED BY <2>5, <2>6, <2>7, <2>8, <2>9
<1>3. HarnessTypeOK'
  BY <1>1, <1>2 DEF HarnessInv, HarnessTypeOK, Receive
<1>4. PlaceInv'
  BY <1>1, <1>2 DEF HarnessInv, PlaceInv
<1>5. OrderInv'
  <2>1. \A k, l \in 1..Len(intake') : intake'[k] = intake'[l] => k = l
    <3>1. \A k \in 1..Len(intake') : k + 1 \in 1..Len(intake)
      BY <1>1
    <3> QED BY <1>1, <3>1 DEF HarnessInv, OrderInv
  <2>2. ASSUME NEW i \in 1..Len(admitted), NEW j \in 1..Len(admitted), i < j, admitted[j] = receiving'
        PROVE  admitted[i] \notin Inbox'
    <3>1. ASSUME NEW k \in 1..Len(intake'), admitted[i] = intake'[k] PROVE FALSE
      <4>1. k + 1 \in 1..Len(intake) /\ 1 \in 1..Len(intake) /\ admitted[i] = intake[k + 1]
        BY <1>1, <3>1
      <4>2. k + 1 < 1
        BY <1>1, <2>2, <4>1 DEF HarnessInv, OrderInv
      <4> QED BY <4>2
    <3> QED BY <3>1 DEF Inbox
  <2>3. ASSUME NEW i \in 1..Len(admitted), NEW j \in 1..Len(admitted), i < j,
               NEW k \in 1..Len(intake'), NEW l \in 1..Len(intake'),
               admitted[i] = intake'[k], admitted[j] = intake'[l]
        PROVE  k < l
    <3>1. k + 1 \in 1..Len(intake) /\ l + 1 \in 1..Len(intake)
      BY <1>1
    <3>2. \A u, v \in 1..Len(intake) : admitted[i] = intake[u] /\ admitted[j] = intake[v] => u < v
      BY <2>3 DEF HarnessInv, OrderInv
    <3>3. admitted[i] = intake[k + 1] /\ admitted[j] = intake[l + 1]
      BY <1>1, <2>3
    <3>4. k + 1 < l + 1
      BY <3>1, <3>2, <3>3
    <3> QED BY <3>4
  <2>4. \A n \in Message : HandedOver(n) => HandedOver(n)'
    BY <1>1 DEF HandedOver
  <2> QED BY <1>1, <1>2, <2>1, <2>2, <2>3, <2>4 DEF HarnessInv, OrderInv
<1> QED BY <1>3, <1>4, <1>5 DEF HarnessInv

(* The receiver leaves with its message in the harness's hands or settled.  *)
LEMMA LeaveStep ==
  ASSUME HarnessInv, receiving # Nothing, NEW done \in SUBSET {receiving}, Leave(done),
         admitted' = admitted,
         \A m \in Message : m # receiving =>
            operation'[m] = operation[m] /\ work'[m] = work[m] /\ followups'[m] = followups[m],
         followups'[receiving] # followups[receiving] => operation'[receiving] = "flushing",
         operation'[receiving] \in {"none", "open", "flushing"},
         work'[receiving] = "runs" <=> operation'[receiving] = "open",
         receiving \notin done => operation'[receiving] # "none",
         receiving \in Reply /\ operation'[receiving] = "open" => receiving \notin done
  PROVE  PlaceInv' /\ OrderInv' /\ receipt' \in [Message -> {"new", "open", "settled"}]
<1>1. /\ receiving \in Message /\ Nothing \notin Message /\ intake' = intake /\ receiving' = Nothing
      /\ step' = "idle" /\ receipt' \in [Message -> {"new", "open", "settled"}]
      /\ \A m \in Message : m # receiving => receipt'[m] = receipt[m]
      /\ receiving \in done => receipt'[receiving] = "settled"
      /\ receiving \notin done => receipt'[receiving] = receipt[receiving]
  BY HarnessAssumption DEF HarnessInv, HarnessTypeOK, Leave
<1>2. /\ Inbox' = Inbox /\ receiving \notin Inbox /\ Inbox \subseteq Message
      /\ receipt[receiving] = "open" /\ operation[receiving] = "none"
      /\ \A i \in 1..Len(admitted) : admitted[i] \in Message
  BY <1>1 DEF Inbox, HarnessInv, PlaceInv, HarnessTypeOK
<1>3. PlaceInv'
  BY <1>1, <1>2 DEF HarnessInv, PlaceInv
<1>4. \A m \in Message : (m = receiving => HandedOver(m)') /\ (HandedOver(m) => HandedOver(m)')
  <2>1. ASSUME NEW m \in Message, m = receiving PROVE HandedOver(m)'
    BY <1>1, <1>2, <2>1 DEF HandedOver
  <2>2. ASSUME NEW m \in Message, m # receiving, HandedOver(m) PROVE HandedOver(m)'
    BY <1>1, <2>2 DEF HandedOver
  <2>3. ~HandedOver(receiving)
    BY <1>2 DEF HandedOver
  <2> QED BY <2>1, <2>2, <2>3
<1>5. OrderInv'
  <2>1. \A i \in 1..Len(admitted) :
          receipt'[admitted[i]] # "new" /\ (admitted[i] \in Inbox' \union {receiving'} \/ HandedOver(admitted[i])')
    <3>1. ASSUME NEW i \in 1..Len(admitted)
          PROVE  receipt'[admitted[i]] # "new" /\ (admitted[i] \in Inbox' \union {receiving'} \/ HandedOver(admitted[i])')
      <4>1. admitted[i] \in Message /\ receipt[admitted[i]] # "new"
            /\ (admitted[i] \in Inbox \union {receiving} \/ HandedOver(admitted[i]))
        BY <1>2 DEF HarnessInv, OrderInv
      <4>2. receipt'[admitted[i]] # "new"
        BY <1>1, <1>2, <4>1
      <4>3. HandedOver(admitted[i])' \/ admitted[i] \in Inbox'
        <5> DEFINE x == admitted[i]
        <5>1. x \in Message /\ x' = x
          BY <4>1
        <5> QED BY <1>2, <1>4, <4>1, <5>1 DEF HandedOver
      <4> QED BY <4>2, <4>3
    <3> QED BY <3>1
  <2>2. \A j \in 1..Len(admitted) : admitted[j] # receiving'
    BY <1>1, <1>2
  <2>3. admitted' = admitted /\ intake' = intake
    BY <1>1
  <2> QED BY <1>2, <2>1, <2>2, <2>3 DEF HarnessInv, OrderInv, HandedOver
<1> QED BY <1>1, <1>3, <1>5

(* A cancel or a deadline finds the submission where the invariant says *)
(* it is.                                                               *)
LEMMA WithdrawStep ==
  ASSUME HarnessInv, NEW m \in Message, Withdraw(m)
  PROVE  HarnessInv'
<1>1. /\ UNCHANGED <<receiving, step, harness, admitted, operation, work, followups, disposed>>
      /\ withdrawn' \subseteq Message /\ stopped' \subseteq Message
      /\ intake \in Seq(Message) /\ Len(intake) \in Nat /\ Len(admitted) \in Nat
      /\ \A i \in 1..Len(admitted) : admitted[i] \in Message
  BY DEF HarnessInv, HarnessTypeOK, Withdraw
<1>2. CASE UNCHANGED <<intake, receipt>>
  <2>1. PlaceInv'
    BY <1>1, <1>2 DEF HarnessInv, PlaceInv, Inbox
  <2>2. OrderInv'
    BY <1>1, <1>2, OrderStays DEF HarnessInv, HandedOver
  <2> QED BY <1>1, <1>2, <2>1, <2>2 DEF HarnessInv, HarnessTypeOK
<1>3. ASSUME NEW x \in 1..Len(intake), intake[x] = m, intake' = RemoveAt(intake, x),
             receipt' = [receipt EXCEPT ![m] = "settled"]
      PROVE  HarnessInv'
  <2>1. /\ intake' \in Seq(Message) /\ Len(intake') = Len(intake) - 1
        /\ \A j \in 1..Len(intake) - 1 : intake'[j] = IF j < x THEN intake[j] ELSE intake[j + 1]
    BY <1>1, <1>3, RemoveAtProperties
  <2> DEFINE from(k) == IF k < x THEN k ELSE k + 1
  <2>2. \A k \in 1..Len(intake') : from(k) \in 1..Len(intake) /\ intake'[k] = intake[from(k)] /\ from(k) # x
    BY <1>1, <2>1
  <2>3. \A k, l \in 1..Len(intake') : from(k) < from(l) => k < l
    BY <2>1
  <2>4. \A k, l \in 1..Len(intake') : from(k) = from(l) => k = l
    BY <2>1
  <2>5. \A j \in 1..Len(intake) : j # x => \E k \in 1..Len(intake') : from(k) = j
    <3>1. ASSUME NEW j \in 1..Len(intake), j # x PROVE \E k \in 1..Len(intake') : from(k) = j
      <4>1. CASE j < x
        <5>1. j \in 1..Len(intake') /\ from(j) = j
          BY <1>1, <2>1, <4>1
        <5> QED BY <5>1
      <4>2. CASE j > x
        <5>1. j - 1 \in 1..Len(intake') /\ from(j - 1) = j
          BY <1>1, <2>1, <4>2
        <5> QED BY <5>1
      <4> QED BY <3>1, <4>1, <4>2
    <3> QED BY <3>1
  <2> HIDE DEF from
  <2>6. Inbox = Inbox' \union {m} /\ m \notin Inbox' /\ m # receiving /\ Inbox \subseteq Message
    <3>1. m \in Inbox
      BY <1>3 DEF Inbox
    <3>2. \A n \in Inbox : n = m \/ n \in Inbox'
      BY <1>3, <2>2, <2>5 DEF Inbox
    <3>3. \A n \in Inbox' : n \in Inbox /\ n # m
      BY <1>3, <2>2 DEF Inbox, HarnessInv, OrderInv
    <3>4. m # receiving /\ Inbox \subseteq Message
      BY <1>1, <3>1 DEF HarnessInv, PlaceInv, Inbox
    <3> QED BY <3>1, <3>2, <3>3, <3>4
  <2>7. /\ receipt' \in [Message -> {"new", "open", "settled"}] /\ receipt'[m] = "settled"
        /\ receipt[m] = "open" /\ operation[m] = "none"
        /\ \A n \in Message : n # m => receipt'[n] = receipt[n]
    BY <1>3, <2>6 DEF HarnessInv, HarnessTypeOK, PlaceInv
  <2>8. PlaceInv'
    <3>1. receiving \in Message \union {Nothing}
      BY DEF HarnessInv, HarnessTypeOK
    <3> QED BY <1>1, <2>6, <2>7, <3>1 DEF HarnessInv, PlaceInv
  <2>9. HandedOver(m)' /\ \A n \in Message : HandedOver(n) => HandedOver(n)'
    BY <1>1, <2>7 DEF HandedOver
  <2>10. OrderInv'
    <3>1. \A k, l \in 1..Len(intake') : intake'[k] = intake'[l] => k = l
      BY <2>2, <2>4 DEF HarnessInv, OrderInv
    <3>2. ASSUME NEW i \in 1..Len(admitted), NEW j \in 1..Len(admitted), i < j,
                 NEW k \in 1..Len(intake'), NEW l \in 1..Len(intake'),
                 admitted[i] = intake'[k], admitted[j] = intake'[l]
          PROVE  k < l
      <4>1. \A u, v \in 1..Len(intake) : admitted[i] = intake[u] /\ admitted[j] = intake[v] => u < v
        BY <3>2 DEF HarnessInv, OrderInv
      <4>2. from(k) \in 1..Len(intake) /\ from(l) \in 1..Len(intake)
            /\ admitted[i] = intake[from(k)] /\ admitted[j] = intake[from(l)]
        BY <2>2, <3>2
      <4>3. from(k) < from(l)
        BY <4>1, <4>2
      <4> QED BY <2>3, <4>3
    <3>3. /\ admitted' = admitted /\ receiving' = receiving
          /\ \A i \in 1..Len(admitted) : admitted[i] \in Message
      BY <1>1, ElementOfSeq DEF HarnessInv, HarnessTypeOK
    <3>4. \A i \in 1..Len(admitted) : receipt'[admitted[i]] # "new"
      BY <2>7, <3>3 DEF HarnessInv, OrderInv
    <3>5. \A i \in 1..Len(admitted) : admitted[i] \in Inbox' \union {receiving} \/ HandedOver(admitted[i])'
      <4>1. SUFFICES ASSUME NEW i \in 1..Len(admitted)
                     PROVE  admitted[i] \in Inbox' \union {receiving} \/ HandedOver(admitted[i])'
        OBVIOUS
      <4>2. admitted[i] \in Inbox \union {receiving} \/ HandedOver(admitted[i])
        BY DEF HarnessInv, OrderInv
      <4> QED BY <2>6, <2>9, <3>3, <4>2
    <3>6. \A i, j \in 1..Len(admitted) : i < j /\ admitted[j] = receiving => admitted[i] \notin Inbox'
      BY <2>6 DEF HarnessInv, OrderInv
    <3>7. \A i, j \in 1..Len(admitted) : admitted[i] = admitted[j] => i = j
      BY DEF HarnessInv, OrderInv
    <3>8. \A i, j \in 1..Len(admitted) : i < j =>
            \A k, l \in 1..Len(intake') : admitted[i] = intake'[k] /\ admitted[j] = intake'[l] => k < l
      BY <3>2
    <3>9. admitted' = admitted /\ receiving' = receiving
      BY <3>3
    <3> QED BY <3>1, <3>4, <3>5, <3>6, <3>7, <3>8, <3>9 DEF OrderInv
  <2> QED BY <1>1, <2>1, <2>7, <2>8, <2>10 DEF HarnessInv, HarnessTypeOK
<1>4. DOMAIN intake = 1..Len(intake)
  BY <1>1
<1>5. \/ \E i \in DOMAIN intake : intake[i] = m /\ intake' = RemoveAt(intake, i)
          /\ receipt' = [receipt EXCEPT ![m] = "settled"]
      \/ UNCHANGED <<intake, receipt>>
  BY DEF Withdraw
<1> QED BY <1>2, <1>3, <1>4, <1>5

(* The steps of the operations leave the mailbox alone.                     *)
LEMMA OperationStep ==
  ASSUME HarnessInv, NEW m \in Message,
         SendFollowup(m) \/ WorkEnds(m) \/ FlushEnds(m) \/ StopOperation(m)
  PROVE  HarnessInv'
<1>1. UNCHANGED <<intake, receiving, step, admitted>> /\ HarnessTypeOK /\ PlaceInv /\ OrderInv
  BY DEF SendFollowup, WorkEnds, FlushEnds, StopOperation, receiver, HarnessInv
<1>2. Inbox' = Inbox
  BY <1>1 DEF Inbox
<1>3. CASE SendFollowup(m)
  <2>1. /\ followups' = [followups EXCEPT ![m] = @ + 1] /\ followups[m] + 1 \in 0..MaxSent /\ work[m] = "runs"
        /\ UNCHANGED <<harness, receipt, withdrawn, operation, stopped, work, disposed>>
    BY <1>1, <1>3, HarnessAssumption DEF SendFollowup, HarnessTypeOK
  <2>2. HarnessTypeOK'
    BY <1>1, <2>1 DEF HarnessTypeOK
  <2>3. \A n \in Message : followups'[n] = IF n = m THEN followups[m] + 1 ELSE followups[n]
    BY <1>1, <2>1 DEF HarnessTypeOK
  <2>4. PlaceInv'
    BY <1>1, <1>2, <2>1, <2>3 DEF PlaceInv
  <2> QED BY <1>1, <2>1, <2>2, <2>4, OrderStays DEF HarnessInv, HandedOver
<1>4. CASE WorkEnds(m)
  <2>1. /\ UNCHANGED <<harness, withdrawn, stopped, followups, disposed>> /\ work[m] = "runs"
        /\ work' = [work EXCEPT ![m] = "ended"] /\ operation' = [operation EXCEPT ![m] = "flushing"]
        /\ receipt' = [receipt EXCEPT ![m] = "settled"]
    BY <1>4 DEF WorkEnds, CloseWork
  <2>2. HarnessTypeOK'
    BY <1>1, <2>1 DEF HarnessTypeOK
  <2>3. \A n \in Message : IF n = m THEN work'[n] = "ended" /\ operation'[n] = "flushing" /\ receipt'[n] = "settled"
                                    ELSE work'[n] = work[n] /\ operation'[n] = operation[n] /\ receipt'[n] = receipt[n]
    BY <1>1, <2>1 DEF HarnessTypeOK
  <2>4. m \notin Inbox /\ m # receiving /\ Inbox \subseteq Message /\ receiving \in Message \union {Nothing}
    <3>1. operation[m] # "none"
      BY <1>1, <2>1 DEF PlaceInv
    <3>2. m # receiving
      BY <1>1, <3>1, HarnessAssumption DEF PlaceInv
    <3>3. m \notin Inbox
      BY <1>1, <3>1 DEF PlaceInv
    <3>4. Inbox \subseteq Message /\ receiving \in Message \union {Nothing}
      BY <1>1 DEF Inbox, HarnessTypeOK
    <3> QED BY <3>2, <3>3, <3>4
  <2>5. PlaceInv'
    BY <1>1, <1>2, <2>1, <2>3, <2>4 DEF PlaceInv
  <2>6. OrderInv'
    BY <1>1, <2>3, OrderStays DEF HandedOver
  <2> QED BY <2>2, <2>5, <2>6 DEF HarnessInv
<1>5. CASE FlushEnds(m)
  <2>1. /\ UNCHANGED <<harness, receipt, withdrawn, stopped, work, followups, disposed>>
        /\ operation[m] = "flushing" /\ followups[m] = 0 /\ operation' = [operation EXCEPT ![m] = "gone"]
    BY <1>5 DEF FlushEnds
  <2>2. HarnessTypeOK'
    BY <1>1, <2>1 DEF HarnessTypeOK
  <2>3. \A n \in Message : operation'[n] = IF n = m THEN "gone" ELSE operation[n]
    BY <1>1, <2>1 DEF HarnessTypeOK
  <2>4. m \notin Inbox /\ m # receiving /\ Inbox \subseteq Message /\ receiving \in Message \union {Nothing}
    <3>1. operation[m] # "none"
      BY <1>1, <2>1 DEF PlaceInv
    <3>2. m # receiving
      BY <1>1, <3>1, HarnessAssumption DEF PlaceInv
    <3>3. m \notin Inbox
      BY <1>1, <3>1 DEF PlaceInv
    <3>4. Inbox \subseteq Message /\ receiving \in Message \union {Nothing}
      BY <1>1 DEF Inbox, HarnessTypeOK
    <3> QED BY <3>2, <3>3, <3>4
  <2>5. PlaceInv'
    BY <1>1, <1>2, <2>1, <2>3, <2>4 DEF PlaceInv
  <2>6. OrderInv'
    BY <1>1, <2>1, <2>3, OrderStays DEF HandedOver
  <2> QED BY <2>2, <2>5, <2>6 DEF HarnessInv
<1>6. CASE StopOperation(m)
  <2>1. UNCHANGED <<harness, receipt, withdrawn, operation, work, followups, disposed>> /\ stopped' \subseteq Message
    BY <1>1, <1>6 DEF StopOperation, HarnessTypeOK
  <2> QED BY <1>1, <1>2, <2>1, OrderStays DEF HarnessInv, HarnessTypeOK, PlaceInv, HandedOver
<1> QED BY <1>3, <1>4, <1>5, <1>6

(* The handoff leaves an operation behind, or settles its entry. *)
LEMMA HandoffStep ==
  ASSUME HarnessInv, Handoff
  PROVE  HarnessInv'
<1>1. /\ receiving \in Message /\ Nothing \notin Message /\ HarnessTypeOK
      /\ UNCHANGED <<harness, admitted, withdrawn, stopped, disposed>>
      /\ operation[receiving] = "none"
  BY HarnessAssumption DEF Handoff, HarnessInv, PlaceInv, HarnessTypeOK
<1>2. PICK o \in {"open", "flushing"} :
        /\ operation' = [operation EXCEPT ![receiving] = o]
        /\ work' = IF o = "open" THEN [work EXCEPT ![receiving] = "runs"] ELSE work
        /\ \/ o = "open" /\ Leave({receiving} \ Reply) /\ UNCHANGED followups
           \/ /\ o = "flushing" /\ Leave({receiving})
              /\ \E k \in 0..MaxSent : followups' = [followups EXCEPT ![receiving] = k]
  BY DEF Handoff
<1>7. followups' \in [Message -> 0..MaxSent] /\ \A m \in Message : m # receiving => followups'[m] = followups[m]
  BY <1>1, <1>2 DEF HarnessTypeOK
<1>3. /\ \A m \in Message : m # receiving => operation'[m] = operation[m] /\ work'[m] = work[m]
      /\ operation'[receiving] = o /\ (work'[receiving] = "runs" <=> o = "open")
  BY <1>1, <1>2 DEF HarnessTypeOK, HarnessInv, PlaceInv
<1>4. PlaceInv' /\ OrderInv' /\ receipt' \in [Message -> {"new", "open", "settled"}]
  <2>1. CASE o = "open"
    BY <1>1, <1>2, <1>3, <1>7, <2>1, LeaveStep
  <2>2. CASE o = "flushing"
    BY <1>1, <1>2, <1>3, <1>7, <2>2, LeaveStep
  <2> QED BY <2>1, <2>2
<1>5. operation' \in [Message -> {"none", "open", "flushing", "gone"}]
      /\ work' \in [Message -> {"none", "runs", "ended"}]
  BY <1>1, <1>2 DEF HarnessTypeOK
<1>6. intake' = intake /\ receiving' = Nothing /\ step' = "idle"
  BY <1>2 DEF Leave
<1> QED BY <1>1, <1>4, <1>5, <1>6, <1>7 DEF HarnessInv, HarnessTypeOK

(* A follow-up enters the intake as a new submission, or its operation *)
(* ends.                                                               *)
LEMMA FlushStep ==
  ASSUME HarnessInv, NEW m \in Message, FlushFollowup(m)
  PROVE  HarnessInv'
<1>1. /\ followups' = [followups EXCEPT ![m] = @ - 1] /\ followups[m] > 0 /\ followups[m] - 1 \in 0..MaxSent
      /\ UNCHANGED <<receiving, step, harness, withdrawn, operation, stopped, work, disposed>>
      /\ HarnessTypeOK
  BY HarnessAssumption DEF FlushFollowup, HarnessInv, HarnessTypeOK
<1>2. /\ followups' \in [Message -> 0..MaxSent]
      /\ \A n \in Message : followups'[n] # 0 => operation[n] \in {"open", "flushing"}
  BY <1>1, HarnessAssumption DEF HarnessInv, HarnessTypeOK, PlaceInv
<1>3. ASSUME NEW n \in Message \ Control, Admit(n) PROVE HarnessInv'
  <2>1. n \in Message
    OBVIOUS
  <2>2. PlaceInv' /\ OrderInv' /\ intake' \in Seq(Message) /\ admitted' \in Seq(Message)
        /\ receipt' \in [Message -> {"new", "open", "settled"}]
    BY <1>1, <1>2, <1>3, <2>1, Admits
  <2> QED BY <1>1, <1>2, <2>2 DEF HarnessInv, HarnessTypeOK
<1>4. CASE UNCHANGED <<receipt, admitted, intake>>
  <2>1. HarnessTypeOK'
    BY <1>1, <1>2, <1>4 DEF HarnessTypeOK
  <2>2. PlaceInv' /\ OrderInv'
    BY <1>1, <1>2, <1>4 DEF HarnessInv, PlaceInv, OrderInv, Inbox, HandedOver
  <2> QED BY <2>1, <2>2 DEF HarnessInv
<1> QED BY <1>3, <1>4 DEF FlushFollowup

(* Every step of the adapter in harness mode preserves the invariant. *)
LEMMA HarnessKeeps == HarnessInv /\ [HarnessNext]_harnessVars => HarnessInv'
<1> SUFFICES ASSUME HarnessInv, [HarnessNext]_harnessVars PROVE HarnessInv'
  OBVIOUS
<1>1. HarnessTypeOK /\ PlaceInv /\ OrderInv
  BY DEF HarnessInv
<1>2. CASE Created \/ CallCancel \/ Dispose \/ UNCHANGED harnessVars
  <2>1. /\ UNCHANGED <<intake, receiving, receipt, admitted, withdrawn, operation, stopped, work, followups>>
        /\ (step' = "idle" <=> step = "idle")
    BY <1>2 DEF Created, CallCancel, Dispose, harnessVars, receiver, operations
  <2>2. HarnessTypeOK'
    BY <1>1, <1>2, <2>1 DEF HarnessTypeOK, Created, CallCancel, Dispose, harnessVars, receiver
  <2>3. PlaceInv' /\ OrderInv'
    BY <1>1, <2>1 DEF PlaceInv, OrderInv, Inbox, HandedOver
  <2> QED BY <2>2, <2>3 DEF HarnessInv
<1>3. CASE ReceiverThrows \/ CancelReturns
  <2>1. /\ Leave({receiving}) /\ step # "idle"
        /\ UNCHANGED <<harness, admitted, withdrawn, operation, stopped, work, followups, disposed>>
    BY <1>3 DEF ReceiverThrows, CancelReturns, operations
  <2>2. receiving # Nothing /\ receiving \in Message
    BY <1>1, <2>1 DEF PlaceInv, HarnessTypeOK
  <2>3. operation[receiving] = "none" /\ work[receiving] # "runs"
    BY <1>1, <2>2 DEF PlaceInv
  <2>4. PlaceInv' /\ OrderInv' /\ receipt' \in [Message -> {"new", "open", "settled"}]
    BY <2>1, <2>2, <2>3, LeaveStep
  <2> QED BY <1>1, <2>1, <2>4 DEF HarnessInv, HarnessTypeOK, Leave
<1>4. ASSUME NEW m \in Message, Arrive(m) PROVE HarnessInv'
  <2>1. PlaceInv' /\ OrderInv' /\ intake' \in Seq(Message) /\ admitted' \in Seq(Message)
        /\ receipt' \in [Message -> {"new", "open", "settled"}]
    BY <1>1, <1>4, Admits DEF Arrive, operations, PlaceInv
  <2> QED BY <1>1, <1>4, <2>1 DEF Arrive, operations, HarnessInv, HarnessTypeOK
<1> QED BY <1>2, <1>3, <1>4, ReceiveStep, HandoffStep, WithdrawStep, OperationStep, FlushStep DEF HarnessNext

(* session-runtime-adapter.ts, harness mode: quiescence means that no     *)
(* harness works and no follow-up is left, a request's receipt settles    *)
(* only with its work, and a cancel finds every submission admitted       *)
(* before it settled or tracked, for every number of submissions, follow- *)
(* ups and operations.                                                    *)
THEOREM HarnessTracksSubmissions == HarnessSpec => []SubmissionsAreTracked
<1>1. HarnessInv => SubmissionsAreTracked
  <2> SUFFICES ASSUME HarnessInv PROVE SubmissionsAreTracked
    OBVIOUS
  <2>1. ReportsAreTrue
    <3>1. ASSUME quiescent, NEW m \in Message PROVE work[m] # "runs" /\ followups[m] = 0
      BY <3>1 DEF HarnessInv, PlaceInv, quiescent, Tracked
    <3>2. ASSUME NEW m \in Reply, receipt[m] = "settled" PROVE work[m] # "runs"
      BY <3>2, HarnessAssumption DEF HarnessInv, PlaceInv
    <3> QED BY <3>1, <3>2 DEF ReportsAreTrue
  <2>2. ASSUME step = "cancel", NEW i \in DOMAIN admitted, NEW j \in DOMAIN admitted,
               i < j, admitted[j] = receiving
        PROVE  receipt[admitted[i]] = "settled" \/ operation[admitted[i]] # "none"
    <3>1. i \in 1..Len(admitted) /\ j \in 1..Len(admitted) /\ i # j
      BY <2>2 DEF HarnessInv, HarnessTypeOK
    <3> QED BY <2>2, <3>1 DEF HarnessInv, OrderInv, HandedOver
  <2> QED BY <2>1, <2>2 DEF SubmissionsAreTracked, CancelSeesEarlier
<1> QED BY HarnessStarts, HarnessKeeps, <1>1, PTL DEF HarnessSpec

-----------------------------------------------------------------------------
(* The turns of a native harness.                                           *)

TurnPhases == {"new", "waiting"} \union Running \union SettledTurn
WithProcess == {"reading", "publishing", "stopping"}

(* The queue holds waiting turns, each once, and the current turn is the    *)
(* only one under way.                                                      *)
WaitingInv(p) ==
  /\ \A i \in 1..Len(line) : p[line[i]] = "waiting"
  /\ \A i, j \in 1..Len(line) : line[i] = line[j] => i = j
TurnsQueueInv ==
  /\ WaitingInv(phase)
  /\ \A t \in Turn : phase[t] \in Running <=> current = t
  /\ line # <<>> => current # NoTurn \/ due
(* A turn has processes only while it reads from them or stops them.        *)
GroupInv ==
  \A t \in Turn : group[t] \in {"alive", "termed", "killed"} \/ t \in rest => phase[t] \in WithProcess
(* An identifier not yet reported as resumable is newer than all given.     *)
ClaimInv ==
  /\ talk.id <= issued /\ file.id <= issued
  /\ \A i \in 1..Len(claims) : claims[i] <= issued
  /\ \A i, j \in 1..Len(claims) : claims[i] = claims[j] => i = j
  /\ \A t \in Turn : phase[t] \in {"saving", "launch"} /\ ~talk.resumable =>
        \A i \in 1..Len(claims) : claims[i] < talk.id
TurnsInv == TurnsTypeOK /\ TurnsQueueInv /\ GroupInv /\ ClaimInv

(* An empty turn queue satisfies the invariant. *)
LEMMA TurnsStart == TurnsInit => TurnsInv
<1> SUFFICES ASSUME TurnsInit PROVE TurnsInv
  OBVIOUS
<1>1. file.id \in {0, 1} /\ file \in Talk /\ talk = file /\ issued = file.id
  <2>1. CASE file = [id |-> 0, resumable |-> FALSE]
    BY <2>1 DEF TurnsInit, Talk
  <2>2. CASE file \in [id : {1}, resumable : BOOLEAN]
    BY <2>2 DEF TurnsInit, Talk
  <2> QED BY <2>1, <2>2 DEF TurnsInit
<1>2. claims = (IF file.id = 0 THEN <<>> ELSE <<1>>)
  BY DEF TurnsInit
<1>3. claims \in Seq(Nat) /\ (\A i \in 1..Len(claims) : i = 1 /\ claims[i] = 1 /\ file.id = 1)
  BY <1>1, <1>2
<1>4. TurnsTypeOK
  <2>1. phase \in [Turn -> {"new", "waiting"} \cup Running \cup SettledTurn]
        /\ group \in [Turn -> {"none", "alive", "termed", "killed", "closed"}]
    BY DEF TurnsInit
  <2>2. line \in Seq(Turn) /\ Len(line) <= MaxWaiting /\ losses \in 0..MaxLosses
    BY TurnAssumption DEF TurnsInit
  <2>3. current \in Turn \cup {NoTurn} /\ due \in BOOLEAN /\ aborted \subseteq Turn /\ rest \subseteq Turn
    BY DEF TurnsInit
  <2>4. talk \in Talk /\ file \in Talk /\ issued \in Nat /\ loaded = "no"
    BY <1>1 DEF TurnsInit
  <2> QED BY <1>3, <2>1, <2>2, <2>3, <2>4 DEF TurnsTypeOK
<1>5. TurnsQueueInv
  BY TurnAssumption DEF TurnsInit, TurnsQueueInv, WaitingInv, Running
<1>6. GroupInv
  BY DEF TurnsInit, GroupInv
<1>7. ClaimInv
  BY <1>1, <1>3 DEF TurnsInit, ClaimInv
<1> QED BY <1>4, <1>5, <1>6, <1>7 DEF TurnsInv

(* The next turn starts when no other is under way.                         *)
LEMMA DrainStarts ==
  ASSUME TurnsTypeOK, NEW moved \in [Turn -> TurnPhases], WaitingInv(moved), Drain(moved),
         \A t \in Turn : moved[t] \notin Running
  PROVE  /\ line' \in Seq(Turn) /\ Len(line') <= MaxWaiting /\ current' \in Turn \union {NoTurn}
         /\ phase' \in [Turn -> TurnPhases] /\ WaitingInv(phase)'
         /\ \A t \in Turn : phase'[t] \in Running <=> current' = t
         /\ \A t \in Turn : phase'[t] = "start" \/ phase'[t] = moved[t]
         /\ \A t \in Turn : moved[t] # "waiting" => phase'[t] = moved[t]
         /\ line' # <<>> => current' # NoTurn
<1>1. line \in Seq(Turn) /\ Len(line) \in Nat /\ Len(line) <= MaxWaiting /\ MaxWaiting \in Nat /\ NoTurn \notin Turn
  BY TurnAssumption DEF TurnsTypeOK
<1>2. CASE line = <<>> /\ current' = NoTurn /\ phase' = moved /\ line' = line
  BY <1>1, <1>2 DEF WaitingInv
<1>3. ASSUME NEW x \in 1..Len(line), current' = line[x], line' = RemoveAt(line, x),
             phase' = [moved EXCEPT ![line[x]] = "start"]
      PROVE  /\ line' \in Seq(Turn) /\ Len(line') <= MaxWaiting /\ current' \in Turn \union {NoTurn}
             /\ phase' \in [Turn -> TurnPhases] /\ WaitingInv(phase)'
             /\ \A t \in Turn : phase'[t] \in Running <=> current' = t
             /\ \A t \in Turn : phase'[t] = "start" \/ phase'[t] = moved[t]
             /\ \A t \in Turn : moved[t] # "waiting" => phase'[t] = moved[t]
             /\ line' # <<>> => current' # NoTurn
  <2>1. /\ line' \in Seq(Turn) /\ Len(line') = Len(line) - 1
        /\ \A j \in 1..Len(line) - 1 : line'[j] = IF j < x THEN line[j] ELSE line[j + 1]
    BY <1>1, <1>3, RemoveAtProperties
  <2>2. line[x] \in Turn /\ "start" \in Running /\ "start" \in TurnPhases /\ moved[line[x]] = "waiting"
    BY <1>1 DEF Running, TurnPhases, WaitingInv
  <2>3. phase' \in [Turn -> TurnPhases]
        /\ \A t \in Turn : phase'[t] = IF t = line[x] THEN "start" ELSE moved[t]
    BY <1>3, <2>2
  <2>4. WaitingInv(phase)'
    <3> DEFINE from(k) == IF k < x THEN k ELSE k + 1
    <3>1. \A k \in 1..Len(line') : from(k) \in 1..Len(line) /\ line'[k] = line[from(k)] /\ from(k) # x
      BY <1>1, <2>1
    <3>2. \A k, l \in 1..Len(line') : from(k) = from(l) => k = l
      BY <2>1
    <3>3. \A k \in 1..Len(line') : line[from(k)] \in Turn /\ line[from(k)] # line[x] /\ moved[line[from(k)]] = "waiting"
      BY <1>1, <3>1 DEF WaitingInv
    <3>4. \A k, l \in 1..Len(line') : line[from(k)] = line[from(l)] => from(k) = from(l)
      BY <3>1 DEF WaitingInv
    <3> HIDE DEF from
    <3>5. \A k \in 1..Len(line') : phase'[line'[k]] = "waiting"
      BY <2>3, <3>1, <3>3
    <3>6. \A k, l \in 1..Len(line') : line'[k] = line'[l] => k = l
      BY <3>1, <3>2, <3>4
    <3> QED BY <3>5, <3>6 DEF WaitingInv
  <2> QED BY <1>1, <1>3, <2>1, <2>2, <2>3, <2>4
<1> QED BY <1>1, <1>2, <1>3 DEF Drain

(* A turn settles and hands its place to the next one.                      *)
LEMMA SettleStep ==
  ASSUME TurnsInv, NEW t \in Turn, NEW how \in {"resolved", "rejected"}, Settle(t, how),
         phase[t] \in Running,
         group' = group, rest' = rest \ {t}, group[t] \notin {"alive", "termed", "killed"},
         file' = file, claims' = claims, talk' = talk, issued' = issued,
         loaded' \in {"no", "yes", "failed"}
  PROVE  TurnsInv'
<1> DEFINE moved == [phase EXCEPT ![t] = IF t \in aborted THEN "rejected" ELSE how]
<1>1. TurnsTypeOK /\ TurnsQueueInv /\ GroupInv /\ ClaimInv
  BY DEF TurnsInv
<1>2. /\ moved \in [Turn -> TurnPhases] /\ moved[t] \in {"resolved", "rejected"}
      /\ \A u \in Turn : u # t => moved[u] = phase[u]
  BY <1>1 DEF TurnsTypeOK, TurnPhases, SettledTurn
<1>3. current = t /\ \A u \in Turn : u # t => phase[u] \notin Running
  BY <1>1 DEF TurnsQueueInv
<1>4. \A u \in Turn : moved[u] \notin Running
  BY <1>2, <1>3 DEF Running
<1>5. WaitingInv(moved)
  <2>1. ASSUME NEW i \in 1..Len(line) PROVE moved[line[i]] = "waiting"
    <3>1. phase[line[i]] = "waiting" /\ line[i] \in Turn
      BY <1>1 DEF TurnsQueueInv, WaitingInv, TurnsTypeOK
    <3>2. line[i] # t
      BY <3>1 DEF Running
    <3> QED BY <1>2, <3>1, <3>2
  <2> QED BY <1>1, <2>1 DEF TurnsQueueInv, WaitingInv
<1>6. Drain(moved) /\ UNCHANGED <<due, aborted, losses>>
  BY DEF Settle
<1> HIDE DEF moved
<1>7. /\ line' \in Seq(Turn) /\ Len(line') <= MaxWaiting /\ current' \in Turn \union {NoTurn}
      /\ phase' \in [Turn -> TurnPhases] /\ WaitingInv(phase)'
      /\ \A u \in Turn : phase'[u] \in Running <=> current' = u
      /\ \A u \in Turn : phase'[u] = "start" \/ phase'[u] = moved[u]
      /\ \A u \in Turn : moved[u] # "waiting" => phase'[u] = moved[u]
      /\ line' # <<>> => current' # NoTurn
  BY <1>1, <1>2, <1>4, <1>5, <1>6, DrainStarts
<1>8. TurnsTypeOK'
  BY <1>1, <1>6, <1>7 DEF TurnsTypeOK, TurnPhases
<1>9. TurnsQueueInv'
  BY <1>7 DEF TurnsQueueInv
<1>10. GroupInv'
  <2>1. ASSUME NEW u \in Turn, group'[u] \in {"alive", "termed", "killed"} \/ u \in rest'
        PROVE  phase'[u] \in WithProcess
    <3>1. u # t /\ phase[u] \in WithProcess
      BY <1>1, <2>1 DEF GroupInv
    <3>2. phase[u] # "waiting"
      BY <3>1 DEF WithProcess
    <3> QED BY <1>2, <1>7, <3>1, <3>2
  <2> QED BY <2>1 DEF GroupInv
<1>11. ClaimInv'
  <2>1. \A u \in Turn : phase'[u] \notin {"saving", "launch"}
    BY <1>2, <1>3, <1>7 DEF Running
  <2> QED BY <1>1, <2>1 DEF ClaimInv
<1> QED BY <1>8, <1>9, <1>10, <1>11 DEF TurnsInv

(* The current turn goes on.                                                *)
LEMMA TurnMoves ==
  ASSUME TurnsTypeOK, TurnsQueueInv, NEW t \in Turn, phase[t] \in Running, NEW where \in Running,
         To(t, where), UNCHANGED queueVars
  PROVE  /\ phase' \in [Turn -> TurnPhases] /\ TurnsQueueInv' /\ phase'[t] = where
         /\ \A u \in Turn : u # t => phase'[u] = phase[u] /\ phase[u] \notin Running
<1>1. UNCHANGED <<line, current, due>> /\ line \in Seq(Turn) /\ current = t
  BY DEF queueVars, TurnsTypeOK, TurnsQueueInv
<1>2. phase' \in [Turn -> TurnPhases] /\ \A u \in Turn : phase'[u] = IF u = t THEN where ELSE phase[u]
  BY DEF TurnsTypeOK, To, TurnPhases
<1>3. \A i \in 1..Len(line) : line[i] \in Turn /\ line[i] # t
  BY <1>1 DEF TurnsQueueInv, WaitingInv, Running
<1>4. \A u \in Turn : phase'[u] \in Running <=> current' = u
  BY <1>1, <1>2 DEF TurnsQueueInv
<1>5. WaitingInv(phase)'
  BY <1>1, <1>2, <1>3 DEF TurnsQueueInv, WaitingInv
<1> QED BY <1>1, <1>2, <1>4, <1>5 DEF TurnsQueueInv

(* What the signal of a turn does to it, and to it alone.                   *)
LEMMA InterruptEffect ==
  ASSUME TurnsTypeOK, NEW x \in Turn, NEW moved \in [Turn -> TurnPhases], Interrupt(x, moved)
  PROVE  /\ aborted' \subseteq Turn /\ phase' \in [Turn -> TurnPhases]
         /\ group' \in [Turn -> {"none", "alive", "termed", "killed", "closed"}]
         /\ \A u \in Turn : u # x => phase'[u] = moved[u] /\ group'[u] = group[u]
         /\ phase'[x] = (IF moved[x] = "waiting" THEN "rejected"
                         ELSE IF moved[x] = "publishing" THEN "stopping" ELSE moved[x])
         /\ group'[x] = (IF group[x] = "alive" THEN "termed" ELSE group[x])
<1>1. aborted' \subseteq Turn
  BY DEF TurnsTypeOK, Interrupt
<1>2. \A u \in Turn : group'[u] = IF u = x /\ group[u] = "alive" THEN "termed" ELSE group[u]
  BY DEF TurnsTypeOK, Interrupt
<1>3. group' \in [Turn -> {"none", "alive", "termed", "killed", "closed"}]
  BY DEF TurnsTypeOK, Interrupt
<1> DEFINE shift == CASE moved[x] = "waiting" -> "rejected"
                      [] moved[x] = "publishing" -> "stopping"
                      [] OTHER -> moved[x]
<1>4. phase' = [moved EXCEPT ![x] = shift]
  BY DEF Interrupt
<1>5. shift = (IF moved[x] = "waiting" THEN "rejected"
               ELSE IF moved[x] = "publishing" THEN "stopping" ELSE moved[x])
  OBVIOUS
<1>6. shift \in TurnPhases
  BY <1>5 DEF TurnPhases, Running, SettledTurn
<1> HIDE DEF shift
<1>7. phase' \in [Turn -> TurnPhases] /\ \A u \in Turn : phase'[u] = IF u = x THEN shift ELSE moved[u]
  BY <1>4, <1>6
<1> QED BY <1>1, <1>2, <1>3, <1>5, <1>7

(* The rules of processes and identifiers, when a signal fires.             *)
LEMMA InterruptKeeps ==
  ASSUME TurnsTypeOK, GroupInv, ClaimInv, NEW x \in Turn, NEW moved \in [Turn -> TurnPhases],
         \A u \in Turn : moved[u] \in WithProcess \union {"saving", "launch"} <=> phase[u] \in WithProcess \union {"saving", "launch"},
         \A u \in Turn : phase[u] \in WithProcess \union {"saving", "launch"} => moved[u] = phase[u],
         Interrupt(x, moved), UNCHANGED <<rest, talkVars>>
  PROVE  GroupInv' /\ ClaimInv'
<1> USE InterruptEffect
<1>1. ASSUME NEW u \in Turn, group'[u] \in {"alive", "termed", "killed"} \/ u \in rest' PROVE phase'[u] \in WithProcess
  <2>1. group[u] \in {"alive", "termed", "killed"} \/ u \in rest
    BY <1>1
  <2>2. phase[u] \in WithProcess /\ moved[u] = phase[u]
    BY <2>1 DEF GroupInv
  <2> QED BY <2>2 DEF WithProcess
<1>2. \A u \in Turn : phase'[u] \in {"saving", "launch"} => phase[u] \in {"saving", "launch"}
  <2>1. \A u \in Turn : phase'[u] \in {"saving", "launch"} => moved[u] \in {"saving", "launch"}
    OBVIOUS
  <2> QED BY <2>1 DEF WithProcess
<1>3. UNCHANGED <<talk, file, issued, claims>>
  BY DEF talkVars
<1>4. GroupInv'
  BY <1>1 DEF GroupInv
<1>5. ClaimInv'
  BY <1>2, <1>3 DEF ClaimInv
<1> QED BY <1>4, <1>5

(* A turn is enqueued or steers the current one. *)
LEMMA EnqueueStep ==
  ASSUME TurnsInv, NEW t \in Turn, Enqueue(t)
  PROVE  TurnsInv'
<1> DEFINE moved == [phase EXCEPT ![t] = "waiting"]
<1>1. TurnsTypeOK /\ TurnsQueueInv /\ GroupInv /\ ClaimInv
  BY DEF TurnsInv
<1>2. /\ phase[t] = "new" /\ line' = Append(line, t) /\ due' = TRUE /\ Len(line) < MaxWaiting
      /\ UNCHANGED <<current, rest, losses, talkVars>> /\ line \in Seq(Turn)
  BY <1>1 DEF Enqueue, TurnsTypeOK
<1>3. /\ moved \in [Turn -> TurnPhases]
      /\ \A u \in Turn : moved[u] = IF u = t THEN "waiting" ELSE phase[u]
  BY <1>1 DEF TurnsTypeOK, TurnPhases
<1>4. /\ line' \in Seq(Turn) /\ Len(line') = Len(line) + 1 /\ Len(line) \in Nat /\ line'[Len(line) + 1] = t
      /\ \A i \in 1..Len(line) : line'[i] = line[i] /\ line[i] \in Turn
  BY <1>2
<1>5. \A i \in 1..Len(line) : line[i] # t /\ phase[line[i]] = "waiting"
  BY <1>1, <1>2 DEF TurnsQueueInv, WaitingInv
<1>6. ASSUME NEW i \in 1..Len(line') PROVE line'[i] \in Turn /\ moved[line'[i]] = "waiting"
  <2>1. CASE i = Len(line) + 1
    BY <1>3, <1>4, <2>1
  <2>2. CASE i \in 1..Len(line)
    BY <1>3, <1>4, <1>5, <2>2
  <2> QED BY <1>4, <2>1, <2>2
<1>7. \A i, j \in 1..Len(line') : line'[i] = line'[j] => i = j
  <2>1. ASSUME NEW i \in 1..Len(line'), NEW j \in 1..Len(line'), line'[i] = line'[j] PROVE i = j
    <3>1. CASE i = Len(line) + 1 \/ j = Len(line) + 1
      BY <1>4, <1>5, <2>1, <3>1
    <3>2. CASE i \in 1..Len(line) /\ j \in 1..Len(line)
      BY <1>1, <1>4, <2>1, <3>2 DEF TurnsQueueInv, WaitingInv
    <3> QED BY <1>4, <3>1, <3>2
  <2> QED BY <2>1
<1>8. "new" \notin Running /\ "waiting" \notin Running /\ "rejected" \notin Running
      /\ "new" \notin WithProcess /\ "waiting" \notin WithProcess /\ current # t
  BY <1>1, <1>2 DEF Running, WithProcess, TurnsQueueInv
<1>9. CASE current \in Turn /\ Interrupt(current, moved)
  <2> DEFINE x == current
  <2>1. phase[x] \in Running /\ moved[x] = phase[x] /\ x # t /\ phase[x] # "waiting"
    BY <1>1, <1>3, <1>8, <1>9 DEF TurnsQueueInv
  <2>2. GroupInv' /\ ClaimInv'
    <3>1. \A u \in Turn : (moved[u] \in WithProcess \union {"saving", "launch"} <=> phase[u] \in WithProcess \union {"saving", "launch"})
                          /\ (phase[u] \in WithProcess \union {"saving", "launch"} => moved[u] = phase[u])
      BY <1>2, <1>3, <1>8
    <3> HIDE DEF moved
    <3> QED BY <1>1, <1>2, <1>3, <1>9, <3>1, InterruptKeeps
  <2> HIDE DEF moved
  <2>3. /\ aborted' \subseteq Turn /\ phase' \in [Turn -> TurnPhases]
        /\ group' \in [Turn -> {"none", "alive", "termed", "killed", "closed"}]
        /\ \A u \in Turn : u # x => phase'[u] = moved[u] /\ group'[u] = group[u]
        /\ phase'[x] = (IF moved[x] = "waiting" THEN "rejected"
                        ELSE IF moved[x] = "publishing" THEN "stopping" ELSE moved[x])
    BY <1>1, <1>3, <1>9, InterruptEffect
  <2>4. phase'[x] \in Running
    BY <2>1, <2>3 DEF Running
  <2>5. \A i \in 1..Len(line') : line'[i] # x
    BY <1>6, <2>1
  <2>6. WaitingInv(phase)'
    BY <1>6, <1>7, <2>3, <2>5 DEF WaitingInv
  <2>7. \A u \in Turn : phase'[u] \in Running <=> current' = u
    BY <1>1, <1>2, <1>3, <1>8, <2>3, <2>4 DEF TurnsQueueInv
  <2>8. TurnsQueueInv'
    BY <1>2, <2>6, <2>7 DEF TurnsQueueInv
  <2>9. TurnsTypeOK'
    BY <1>1, <1>2, <1>4, <2>3, TurnAssumption DEF TurnsTypeOK, TurnPhases, talkVars
  <2> QED BY <2>2, <2>8, <2>9 DEF TurnsInv
<1>10. CASE phase' = moved /\ UNCHANGED <<aborted, group>>
  <2>1. WaitingInv(phase)'
    BY <1>6, <1>7, <1>10 DEF WaitingInv
  <2>2. TurnsQueueInv'
    <3>1. \A u \in Turn : phase'[u] \in Running <=> current' = u
      BY <1>1, <1>2, <1>3, <1>8, <1>10 DEF TurnsQueueInv
    <3> QED BY <1>2, <2>1, <3>1 DEF TurnsQueueInv
  <2>3. TurnsTypeOK'
    BY <1>1, <1>2, <1>3, <1>4, <1>10, TurnAssumption DEF TurnsTypeOK, TurnPhases, talkVars
  <2>4. GroupInv'
    BY <1>1, <1>2, <1>3, <1>8, <1>10 DEF GroupInv
  <2>5. ClaimInv'
    BY <1>1, <1>2, <1>3, <1>10 DEF ClaimInv, talkVars
  <2> QED BY <2>2, <2>3, <2>4, <2>5 DEF TurnsInv
<1> QED BY <1>1, <1>9, <1>10 DEF Enqueue, To, TurnsTypeOK

(* Aborting a turn takes it out of the queue or has its process group *)
(* stopped.                                                           *)
LEMMA AbortStep ==
  ASSUME TurnsInv, NEW t \in Turn, AbortTurn(t)
  PROVE  TurnsInv'
<1>1. TurnsTypeOK /\ TurnsQueueInv /\ GroupInv /\ ClaimInv /\ phase \in [Turn -> TurnPhases]
  BY DEF TurnsInv, TurnsTypeOK, TurnPhases
<1>2. Interrupt(t, phase) /\ UNCHANGED <<current, due, rest, losses, talkVars>>
  BY DEF AbortTurn
<1>3. GroupInv' /\ ClaimInv'
  BY <1>1, <1>2, InterruptKeeps
<1>4. /\ aborted' \subseteq Turn /\ phase' \in [Turn -> TurnPhases]
      /\ group' \in [Turn -> {"none", "alive", "termed", "killed", "closed"}]
      /\ \A u \in Turn : u # t => phase'[u] = phase[u] /\ group'[u] = group[u]
      /\ phase'[t] = (IF phase[t] = "waiting" THEN "rejected"
                      ELSE IF phase[t] = "publishing" THEN "stopping" ELSE phase[t])
  BY <1>1, <1>2, InterruptEffect
<1>5. \A u \in Turn : phase'[u] \in Running <=> current' = u
  <2>1. phase'[t] \in Running <=> phase[t] \in Running
    BY <1>4 DEF Running
  <2> QED BY <1>1, <1>2, <1>4, <2>1 DEF TurnsQueueInv
<1>6. line \in Seq(Turn) /\ Len(line) \in Nat /\ Len(line) <= MaxWaiting /\ MaxWaiting \in Nat
  BY <1>1, TurnAssumption DEF TurnsTypeOK
<1>7. line' \in Seq(Turn) /\ Len(line') <= MaxWaiting /\ WaitingInv(phase)' /\ (line' # <<>> => line # <<>>)
  <2>1. ASSUME phase[t] # "waiting", line' = line
        PROVE  line' \in Seq(Turn) /\ Len(line') <= MaxWaiting /\ WaitingInv(phase)' /\ (line' # <<>> => line # <<>>)
    <3>1. \A i \in 1..Len(line) : line[i] \in Turn /\ line[i] # t
      BY <1>1, <1>6, <2>1 DEF TurnsQueueInv, WaitingInv
    <3>2. WaitingInv(phase)'
      BY <1>1, <1>4, <2>1, <3>1 DEF TurnsQueueInv, WaitingInv
    <3> QED BY <1>6, <2>1, <3>2
  <2>2. ASSUME NEW x \in 1..Len(line), line[x] = t, line' = RemoveAt(line, x)
        PROVE  line' \in Seq(Turn) /\ Len(line') <= MaxWaiting /\ WaitingInv(phase)' /\ (line' # <<>> => line # <<>>)
    <3>1. /\ line' \in Seq(Turn) /\ Len(line') = Len(line) - 1
          /\ \A j \in 1..Len(line) - 1 : line'[j] = IF j < x THEN line[j] ELSE line[j + 1]
      BY <1>6, <2>2, RemoveAtProperties
    <3> DEFINE from(k) == IF k < x THEN k ELSE k + 1
    <3>2. \A k \in 1..Len(line') : from(k) \in 1..Len(line) /\ line'[k] = line[from(k)] /\ from(k) # x
      BY <1>6, <3>1
    <3>3. \A k, l \in 1..Len(line') : from(k) = from(l) => k = l
      BY <3>1
    <3>4. \A k \in 1..Len(line') : line[from(k)] \in Turn /\ line[from(k)] # t /\ phase[line[from(k)]] = "waiting"
      BY <1>1, <1>6, <2>2, <3>2 DEF TurnsQueueInv, WaitingInv
    <3>5. \A k, l \in 1..Len(line') : line[from(k)] = line[from(l)] => from(k) = from(l)
      BY <1>1, <3>2 DEF TurnsQueueInv, WaitingInv
    <3> HIDE DEF from
    <3>6. \A k \in 1..Len(line') : phase'[line'[k]] = "waiting"
      BY <1>4, <3>2, <3>4
    <3>7. \A k, l \in 1..Len(line') : line'[k] = line'[l] => k = l
      <4>1. SUFFICES ASSUME NEW k \in 1..Len(line'), NEW l \in 1..Len(line'), line'[k] = line'[l]
                     PROVE  k = l
        OBVIOUS
      <4>2. line[from(k)] = line[from(l)]
        BY <3>2, <4>1, Zenon
      <4> QED BY <3>3, <3>5, <4>2, Zenon
    <3>8. WaitingInv(phase)'
      BY <3>6, <3>7 DEF WaitingInv
    <3>9. line # <<>>
      BY <1>6, <2>2
    <3> QED BY <1>6, <3>1, <3>8, <3>9
  <2> QED BY <1>6, <2>1, <2>2 DEF AbortTurn
<1>8. TurnsQueueInv'
  BY <1>1, <1>2, <1>5, <1>7 DEF TurnsQueueInv
<1>9. TurnsTypeOK'
  BY <1>1, <1>2, <1>4, <1>7 DEF TurnsTypeOK, TurnPhases, talkVars
<1> QED BY <1>3, <1>8, <1>9 DEF TurnsInv

(* The drain starts a turn only when none is current. *)
LEMMA DrainStep ==
  ASSUME TurnsInv, DrainJob
  PROVE  TurnsInv'
<1>1. TurnsTypeOK /\ TurnsQueueInv /\ GroupInv /\ ClaimInv /\ phase \in [Turn -> TurnPhases]
  BY DEF TurnsInv, TurnsTypeOK, TurnPhases
<1>2. due' = FALSE /\ UNCHANGED <<aborted, group, rest, losses, loaded, talk, file, issued, claims>>
  BY DEF DrainJob, talkVars
<1>3. CASE current = NoTurn
  <2>1. Drain(phase) /\ \A t \in Turn : phase[t] \notin Running
    BY <1>1, <1>3, TurnAssumption DEF DrainJob, TurnsQueueInv
  <2>2. /\ line' \in Seq(Turn) /\ Len(line') <= MaxWaiting /\ current' \in Turn \union {NoTurn}
        /\ phase' \in [Turn -> TurnPhases] /\ WaitingInv(phase)'
        /\ \A t \in Turn : phase'[t] \in Running <=> current' = t
        /\ \A t \in Turn : phase'[t] = "start" \/ phase'[t] = phase[t]
        /\ \A t \in Turn : phase[t] # "waiting" => phase'[t] = phase[t]
        /\ line' # <<>> => current' # NoTurn
    BY <1>1, <2>1, DrainStarts DEF TurnsQueueInv
  <2>3. GroupInv'
    BY <1>1, <1>2, <2>2 DEF GroupInv, WithProcess
  <2>4. ClaimInv'
    BY <1>1, <1>2, <2>2 DEF ClaimInv
  <2>5. TurnsTypeOK' /\ TurnsQueueInv'
    BY <1>1, <1>2, <2>2 DEF TurnsTypeOK, TurnPhases, TurnsQueueInv
  <2> QED BY <2>3, <2>4, <2>5 DEF TurnsInv
<1>4. CASE current # NoTurn
  <2>1. UNCHANGED <<current, phase, line>>
    BY <1>4 DEF DrainJob
  <2> QED BY <1>1, <1>2, <1>4, <2>1 DEF TurnsInv, TurnsTypeOK, TurnsQueueInv, WaitingInv, GroupInv, ClaimInv
<1> QED BY <1>3, <1>4

(* A turn begins by claiming a conversation, or resuming a reported one. *)
LEMMA BeginStep ==
  ASSUME TurnsInv, NEW t \in Turn, Begin(t)
  PROVE  TurnsInv'
<1>1. TurnsTypeOK /\ TurnsQueueInv /\ GroupInv /\ ClaimInv
  BY DEF TurnsInv
<1>2. /\ phase[t] = "start" /\ UNCHANGED <<group, rest, file, claims>> /\ phase[t] \in Running
      /\ group[t] \notin {"alive", "termed", "killed"} /\ t \notin rest
  BY <1>1 DEF Begin, Running, GroupInv, WithProcess
<1>3. CASE t \in aborted
  <2>1. Settle(t, "rejected") /\ UNCHANGED <<loaded, talk, issued>> /\ rest' = rest \ {t}
    BY <1>2, <1>3 DEF Begin
  <2>2. loaded' \in {"no", "yes", "failed"}
    BY <1>1, <2>1 DEF TurnsTypeOK
  <2> QED BY <1>2, <2>1, <2>2, SettleStep
<1>4. CASE t \notin aborted /\ loaded' = "failed" /\ Settle(t, "rejected") /\ UNCHANGED <<talk, issued>>
  <2>1. rest' = rest \ {t}
    BY <1>2
  <2> QED BY <1>2, <1>4, <2>1, SettleStep
<1>5. CASE t \notin aborted /\ loaded' = "yes"
  <2>1. /\ talk' = Claim /\ issued' = (IF Claim.id > issued THEN Claim.id ELSE issued)
        /\ To(t, IF talk.resumable THEN "launch" ELSE "saving")
        /\ UNCHANGED <<queueVars, aborted, losses>>
    BY <1>5 DEF Begin
  <2> DEFINE where == IF talk.resumable THEN "launch" ELSE "saving"
  <2>2. where \in {"saving", "launch"} /\ where \in Running
    BY DEF Running
  <2>3. /\ phase' \in [Turn -> TurnPhases] /\ TurnsQueueInv' /\ phase'[t] = where
        /\ \A u \in Turn : u # t => phase'[u] = phase[u] /\ phase[u] \notin Running
    BY <1>1, <1>2, <2>1, <2>2, TurnMoves
  <2>4. /\ talk.id \in Nat /\ talk.resumable \in BOOLEAN /\ issued \in Nat /\ talk.id <= issued
        /\ talk \in Talk /\ claims \in Seq(Nat) /\ file.id \in Nat
    BY <1>1 DEF TurnsTypeOK, Talk, ClaimInv
  <2>5. /\ issued' \in Nat /\ issued <= issued' /\ talk' \in Talk /\ talk'.id <= issued'
        /\ ~talk'.resumable => talk'.id = issued + 1
    <3>1. CASE talk.resumable
      BY <2>1, <2>4, <3>1 DEF Claim
    <3>2. CASE ~talk.resumable
      <4>1. Claim = [id |-> issued + 1, resumable |-> FALSE]
        BY <3>2 DEF Claim, Renewed
      <4>2. talk' \in Talk /\ talk'.id = issued + 1 /\ issued' = issued + 1
        BY <2>1, <2>4, <4>1 DEF Talk
      <4> QED BY <2>4, <4>2
    <3> QED BY <3>1, <3>2
  <2>6. ClaimInv'
    <3>1. \A i \in 1..Len(claims) : claims[i] \in Nat /\ claims[i] <= issued
      BY <1>1, <2>4 DEF ClaimInv
    <3>2. talk'.id \in Nat
      BY <2>5 DEF Talk
    <3>3. file'.id <= issued' /\ \A i \in 1..Len(claims') : claims'[i] <= issued'
      BY <1>1, <1>2, <2>4, <2>5, <3>1 DEF ClaimInv
    <3>4. ~talk'.resumable => \A i \in 1..Len(claims') : claims'[i] < talk'.id
      BY <1>2, <2>4, <2>5, <3>1, <3>2
    <3> QED BY <1>1, <1>2, <2>5, <3>3, <3>4 DEF ClaimInv
  <2>7. GroupInv'
    BY <1>1, <1>2, <2>3 DEF GroupInv
  <2>8. TurnsTypeOK'
    BY <1>1, <1>2, <1>5, <2>1, <2>3, <2>5 DEF TurnsTypeOK, TurnPhases, queueVars
  <2> QED BY <2>3, <2>6, <2>7, <2>8 DEF TurnsInv
<1> QED BY <1>3, <1>4, <1>5 DEF Begin

(* Once the claim is saved its identifier is older than any later one. *)
LEMMA SavedStep ==
  ASSUME TurnsInv, NEW t \in Turn, Saved(t)
  PROVE  TurnsInv'
<1>1. TurnsTypeOK /\ TurnsQueueInv /\ GroupInv /\ ClaimInv
  BY DEF TurnsInv
<1>2. /\ phase[t] = "saving" /\ UNCHANGED <<group, rest, talk, issued, claims>> /\ phase[t] \in Running
      /\ group[t] \notin {"alive", "termed", "killed"} /\ t \notin rest /\ loaded' \in {"no", "yes", "failed"}
  BY <1>1 DEF Saved, Running, GroupInv, WithProcess, TurnsTypeOK
<1>3. CASE file' = talk /\ To(t, "launch") /\ UNCHANGED <<queueVars, aborted, losses>>
  <2>1. "launch" \in Running
    BY DEF Running
  <2>2. /\ phase' \in [Turn -> TurnPhases] /\ TurnsQueueInv' /\ phase'[t] = "launch"
        /\ \A u \in Turn : u # t => phase'[u] = phase[u] /\ phase[u] \notin Running
    BY <1>1, <1>2, <1>3, <2>1, TurnMoves
  <2>3. ClaimInv'
    BY <1>1, <1>2, <1>3, <2>2 DEF ClaimInv
  <2>4. GroupInv'
    BY <1>1, <1>2, <2>2 DEF GroupInv
  <2>5. TurnsTypeOK'
    BY <1>1, <1>2, <1>3, <2>2 DEF TurnsTypeOK, TurnPhases, queueVars
  <2> QED BY <2>2, <2>3, <2>4, <2>5 DEF TurnsInv
<1>4. CASE file' = file /\ Settle(t, "rejected")
  <2>1. rest' = rest \ {t}
    BY <1>2
  <2> QED BY <1>2, <1>4, <2>1, SettleStep
<1> QED BY <1>3, <1>4 DEF Saved

(* A launch adds the process of the current turn, and of no other. *)
LEMMA LaunchStep ==
  ASSUME TurnsInv, NEW t \in Turn, Launch(t)
  PROVE  TurnsInv'
<1>1. TurnsTypeOK /\ TurnsQueueInv /\ GroupInv /\ ClaimInv
  BY DEF TurnsInv
<1>2. /\ phase[t] = "launch" /\ UNCHANGED <<rest, talk, file, issued>> /\ phase[t] \in Running
      /\ group[t] \notin {"alive", "termed", "killed"} /\ t \notin rest /\ loaded' \in {"no", "yes", "failed"}
  BY <1>1 DEF Launch, Running, GroupInv, WithProcess, TurnsTypeOK
<1>3. CASE /\ group' = [group EXCEPT ![t] = "alive"]
           /\ claims' = IF talk.resumable THEN claims ELSE Append(claims, talk.id)
           /\ To(t, "reading")
           /\ UNCHANGED <<queueVars, aborted, losses>>
  <2>1. "reading" \in Running /\ "reading" \in WithProcess
    BY DEF Running, WithProcess
  <2>2. /\ phase' \in [Turn -> TurnPhases] /\ TurnsQueueInv' /\ phase'[t] = "reading"
        /\ \A u \in Turn : u # t => phase'[u] = phase[u] /\ phase[u] \notin Running
    BY <1>1, <1>2, <1>3, <2>1, TurnMoves
  <2>3. talk.id \in Nat /\ claims \in Seq(Nat) /\ Len(claims) \in Nat /\ talk.id <= issued /\ issued \in Nat
    BY <1>1 DEF TurnsTypeOK, Talk, ClaimInv
  <2>4. \A u \in Turn : phase'[u] \notin {"saving", "launch"}
    BY <2>2 DEF Running
  <2>5. claims' \in Seq(Nat) /\ ClaimInv'
    <3>1. CASE talk.resumable
      BY <1>1, <1>2, <1>3, <2>3, <2>4, <3>1 DEF ClaimInv
    <3>2. CASE ~talk.resumable
      <4>1. /\ claims' \in Seq(Nat) /\ Len(claims') = Len(claims) + 1 /\ claims'[Len(claims) + 1] = talk.id
            /\ \A i \in 1..Len(claims) : claims'[i] = claims[i] /\ claims[i] \in Nat /\ claims[i] < talk.id
        BY <1>1, <1>2, <1>3, <2>3, <3>2 DEF ClaimInv
      <4>2. ASSUME NEW i \in 1..Len(claims') PROVE claims'[i] <= issued
        <5>1. CASE i = Len(claims) + 1
          BY <2>3, <4>1, <5>1
        <5>2. CASE i \in 1..Len(claims)
          BY <2>3, <4>1, <5>2
        <5> QED BY <2>3, <4>1, <5>1, <5>2
      <4>3. ASSUME NEW i \in 1..Len(claims'), NEW j \in 1..Len(claims'), claims'[i] = claims'[j] PROVE i = j
        <5>1. CASE i \in 1..Len(claims) /\ j \in 1..Len(claims)
          BY <1>1, <4>1, <4>3, <5>1 DEF ClaimInv
        <5>2. CASE i = Len(claims) + 1 \/ j = Len(claims) + 1
          <6>1. i \in 1..Len(claims) => claims'[i] < talk.id
            BY <4>1
          <6>2. j \in 1..Len(claims) => claims'[j] < talk.id
            BY <4>1
          <6> QED BY <2>3, <4>1, <4>3, <5>2, <6>1, <6>2
        <5> QED BY <2>3, <4>1, <5>1, <5>2
      <4> QED BY <1>1, <1>2, <2>4, <4>1, <4>2, <4>3 DEF ClaimInv
    <3> QED BY <1>1, <3>1, <3>2 DEF TurnsTypeOK, Talk
  <2>6. \A u \in Turn : group'[u] = IF u = t THEN "alive" ELSE group[u]
    BY <1>1, <1>3 DEF TurnsTypeOK
  <2>7. GroupInv'
    BY <1>1, <1>2, <2>1, <2>2, <2>6 DEF GroupInv
  <2>8. TurnsTypeOK'
    BY <1>1, <1>2, <1>3, <2>2, <2>5 DEF TurnsTypeOK, TurnPhases, queueVars
  <2> QED BY <2>2, <2>5, <2>7, <2>8 DEF TurnsInv
<1>4. CASE Settle(t, "rejected") /\ UNCHANGED <<group, claims>>
  <2>1. rest' = rest \ {t}
    BY <1>2
  <2> QED BY <1>2, <1>4, <2>1, SettleStep
<1> QED BY <1>3, <1>4 DEF Launch

(* A turn that has its process reads, publishes or stops.                   *)
LEMMA HandledStep ==
  ASSUME TurnsInv, NEW t \in Turn, phase[t] \in WithProcess, NEW where \in WithProcess, To(t, where),
         UNCHANGED <<queueVars, aborted, rest, loaded, issued, claims, losses>>,
         group' \in [Turn -> {"none", "alive", "termed", "killed", "closed"}],
         \A u \in Turn : u # t => group'[u] = group[u],
         talk' \in Talk, file' \in Talk, talk'.id = talk.id, file'.id \in {file.id, talk.id}
  PROVE  TurnsInv'
<1>1. TurnsTypeOK /\ TurnsQueueInv /\ GroupInv /\ ClaimInv
  BY DEF TurnsInv
<1>2. phase[t] \in Running /\ where \in Running
  BY DEF WithProcess, Running
<1>3. /\ phase' \in [Turn -> TurnPhases] /\ TurnsQueueInv' /\ phase'[t] = where
      /\ \A u \in Turn : u # t => phase'[u] = phase[u] /\ phase[u] \notin Running
  BY <1>1, <1>2, TurnMoves
<1>4. \A u \in Turn : phase'[u] \notin {"saving", "launch"}
  BY <1>3 DEF Running, WithProcess
<1>5. ClaimInv'
  BY <1>1, <1>4 DEF ClaimInv
<1>6. GroupInv'
  BY <1>1, <1>3 DEF GroupInv
<1>7. TurnsTypeOK'
  BY <1>1, <1>3 DEF TurnsTypeOK, TurnPhases, queueVars
<1> QED BY <1>3, <1>5, <1>6, <1>7 DEF TurnsInv

(* Reading what the process writes leaves who is current alone. *)
LEMMA ReadStep ==
  ASSUME TurnsInv, NEW t \in Turn, Report(t) \/ Published(t) \/ ReadingEnds(t)
  PROVE  TurnsInv'
<1>1. TurnsTypeOK /\ talk \in Talk /\ file \in Talk
      /\ group \in [Turn -> {"none", "alive", "termed", "killed", "closed"}]
  BY DEF TurnsInv, TurnsTypeOK
<1>2. "reading" \in WithProcess /\ "publishing" \in WithProcess /\ "stopping" \in WithProcess
  BY DEF WithProcess
<1>3. CASE Report(t)
  <2>1. PICK init \in BOOLEAN, saved \in BOOLEAN :
          /\ talk' = IF init THEN [talk EXCEPT !.resumable = TRUE] ELSE talk
          /\ file' = IF init /\ saved THEN talk' ELSE file
          /\ IF saved /\ t \notin aborted
             THEN To(t, "publishing") /\ UNCHANGED group
             ELSE To(t, "stopping") /\ group' = [group EXCEPT ![t] = "termed"]
    BY <1>3 DEF Report
  <2>2. talk' \in Talk /\ talk'.id = talk.id
    BY <1>1, <2>1 DEF Talk
  <2>3. file' \in Talk /\ file'.id \in {file.id, talk.id}
    BY <1>1, <2>1, <2>2
  <2>4. phase[t] \in WithProcess /\ UNCHANGED <<queueVars, aborted, rest, loaded, issued, claims, losses>>
    BY <1>2, <1>3 DEF Report
  <2>5. /\ group' \in [Turn -> {"none", "alive", "termed", "killed", "closed"}]
        /\ \A u \in Turn : u # t => group'[u] = group[u]
    BY <1>1, <2>1
  <2>6. To(t, "publishing") \/ To(t, "stopping")
    BY <2>1
  <2> QED BY <1>2, <2>2, <2>3, <2>4, <2>5, <2>6, HandledStep
<1>4. CASE Published(t)
  BY <1>1, <1>2, <1>4, HandledStep DEF Published, talkVars
<1>5. CASE ReadingEnds(t)
  <2>1. /\ group' \in [Turn -> {"none", "alive", "termed", "killed", "closed"}]
        /\ \A u \in Turn : u # t => group'[u] = group[u]
    BY <1>1, <1>5 DEF ReadingEnds
  <2> QED BY <1>1, <1>2, <1>5, <2>1, HandledStep DEF ReadingEnds, talkVars
<1> QED BY <1>3, <1>4, <1>5

(* A process group closes or is killed, and its turn settles only after *)
(* it.                                                                  *)
LEMMA GroupStep ==
  ASSUME TurnsInv, NEW t \in Turn, GroupCloses(t) \/ GroupGraceEnds(t)
  PROVE  TurnsInv'
<1>1. TurnsTypeOK /\ TurnsQueueInv /\ GroupInv /\ ClaimInv
  BY DEF TurnsInv
<1>2. /\ UNCHANGED <<phase, line, current, due, aborted, losses, loaded, talk, file, issued, claims>>
      /\ rest' \subseteq rest \union {t} /\ group[t] \in {"alive", "termed", "killed"}
      /\ group' \in [Turn -> {"none", "alive", "termed", "killed", "closed"}]
      /\ \A u \in Turn : u # t => group'[u] = group[u]
  BY <1>1 DEF GroupCloses, GroupGraceEnds, queueVars, talkVars, TurnsTypeOK
<1>3. GroupInv'
  BY <1>1, <1>2 DEF GroupInv
<1>4. TurnsQueueInv' /\ ClaimInv'
  BY <1>1, <1>2 DEF TurnsQueueInv, WaitingInv, ClaimInv
<1>5. TurnsTypeOK'
  BY <1>1, <1>2 DEF TurnsTypeOK
<1> QED BY <1>3, <1>4, <1>5 DEF TurnsInv

(* A lost runtime takes turns and processes with it, not the claims. *)
LEMMA LossStep ==
  ASSUME TurnsInv, RuntimeLost
  PROVE  TurnsInv'
<1>1. TurnsTypeOK /\ TurnsQueueInv /\ GroupInv /\ ClaimInv
  BY DEF TurnsInv
<1>2. /\ losses + 1 \in 0..MaxLosses /\ losses' = losses + 1
      /\ line' = <<>> /\ current' = NoTurn /\ due' = FALSE /\ rest' = {}
      /\ loaded' = "no" /\ talk' = file /\ UNCHANGED <<aborted, file, issued, claims>>
  BY <1>1, TurnAssumption DEF RuntimeLost, TurnsTypeOK
<1>3. /\ phase' \in [Turn -> TurnPhases]
      /\ \A t \in Turn : phase'[t] \notin Running \union {"waiting"}
  <2>1. \A t \in Turn : phase'[t] = IF phase[t] \in Running \cup {"waiting"} THEN "lost" ELSE phase[t]
    BY DEF RuntimeLost
  <2>2. phase' \in [Turn -> TurnPhases]
    BY <1>1 DEF RuntimeLost, TurnsTypeOK, TurnPhases, SettledTurn
  <2> QED BY <2>1, <2>2 DEF Running
<1>4. /\ group' \in [Turn -> {"none", "alive", "termed", "killed", "closed"}]
      /\ \A t \in Turn : group'[t] \in {"none", "closed"}
  BY DEF RuntimeLost
<1>5. TurnsQueueInv'
  BY <1>2, <1>3, TurnAssumption DEF TurnsQueueInv, WaitingInv
<1>6. GroupInv'
  BY <1>2, <1>4 DEF GroupInv
<1>7. ClaimInv'
  BY <1>1, <1>2, <1>3 DEF ClaimInv, Running
<1>8. TurnsTypeOK'
  <2>1. line' \in Seq(Turn) /\ Len(line') <= MaxWaiting
    BY <1>2, TurnAssumption
  <2>2. talk' \in Talk /\ file' \in Talk /\ issued' \in Nat /\ claims' \in Seq(Nat) /\ losses' \in 0..MaxLosses
        /\ loaded' = "no"
    BY <1>1, <1>2 DEF TurnsTypeOK
  <2>3. current' \in Turn \cup {NoTurn} /\ due' \in BOOLEAN /\ aborted' \subseteq Turn /\ rest' \subseteq Turn
    BY <1>1, <1>2 DEF TurnsTypeOK
  <2> QED BY <1>3, <1>4, <2>1, <2>2, <2>3 DEF TurnsTypeOK, TurnPhases
<1> QED BY <1>5, <1>6, <1>7, <1>8 DEF TurnsInv

(* Every step of the turn queue preserves the invariant. *)
LEMMA TurnsKeeps == TurnsInv /\ [TurnsNext]_turnVars => TurnsInv'
<1> SUFFICES ASSUME TurnsInv, [TurnsNext]_turnVars PROVE TurnsInv'
  OBVIOUS
<1>1. CASE UNCHANGED turnVars
  BY <1>1 DEF turnVars, TurnsInv, TurnsTypeOK, TurnsQueueInv, WaitingInv, GroupInv, ClaimInv
<1>2. ASSUME NEW t \in Turn, FinishTurn(t) PROVE TurnsInv'
  <2>1. phase[t] \in Running /\ group[t] \notin {"alive", "termed", "killed"} /\ rest' = rest \ {t}
        /\ UNCHANGED <<group, talk, file, issued, claims>> /\ loaded' \in {"no", "yes", "failed"}
    BY <1>2 DEF FinishTurn, Running, talkVars, TurnsInv, TurnsTypeOK
  <2> QED BY <1>2, <2>1, SettleStep DEF FinishTurn
<1> QED BY <1>1, <1>2, EnqueueStep, AbortStep, DrainStep, BeginStep, SavedStep, LaunchStep, ReadStep,
           GroupStep, LossStep DEF TurnsNext, Turns

(* harnesses/queue.ts and harnesses/claude.ts: only the current turn has  *)
(* processes, no waiting turn is stranded, and no conversation identifier *)
(* is claimed twice, whatever aborts, steering and lost runtimes do, for  *)
(* every number of each.                                                  *)
THEOREM TurnsRunAlone == TurnsSpec => []TurnsAreExclusive
<1>1. TurnsInv => TurnsAreExclusive
  <2> SUFFICES ASSUME TurnsInv PROVE TurnsAreExclusive
    OBVIOUS
  <2>1. ProcessesAreTheCurrentTurns
    BY DEF TurnsInv, GroupInv, TurnsQueueInv, WithProcess, Running, ProcessesAreTheCurrentTurns
  <2>2. NoStrandedTurn
    BY DEF TurnsInv, TurnsQueueInv, NoStrandedTurn
  <2>3. ClaimedOnce
    BY DEF TurnsInv, TurnsTypeOK, ClaimInv, ClaimedOnce
  <2> QED BY <2>1, <2>2, <2>3 DEF TurnsAreExclusive
<1> QED BY TurnsStart, TurnsKeeps, <1>1, PTL DEF TurnsSpec

-----------------------------------------------------------------------------
(* ClaudeDeltas: batches of events on their way to the store.                *)

(* A batch is a stretch of the events; the end's commit is no batch.         *)
Batch(b) == b # <<>> /\ b[1] > 0 /\ \A j \in 1..Len(b) : b[j] = b[1] + j - 1
EndOf(b) == b[1] + Len(b) - 1
BatchesOf(q) == {k \in 1..Len(q) : q[k] # End}

(* Stored and queued, the events up to the t-th are in order.                *)
QueueInOrder(q, t) ==
    /\ \A k \in BatchesOf(q) : Batch(q[k]) /\ EndOf(q[k]) <= t
    /\ \A k, l \in BatchesOf(q) : k < l => EndOf(q[k]) < q[l][1]
StoreInOrder(p, q, t) ==
    /\ \A i \in 1..Len(p) : p[i] <= t
    /\ \A i \in 1..Len(p), k \in BatchesOf(q) : p[i] < q[k][1]
    /\ \A i, j \in 1..Len(p) : i < j => p[i] < p[j]
InOrder(q, p, t) == QueueInOrder(q, t) /\ StoreInOrder(p, q, t)

(* None of them is missing.                                                  *)
Stored(p, n) == Len(p) = n /\ \A i \in 1..n : p[i] = i
NoneMissing(q, p, t) ==
    /\ Stored(p, Len(p))
    /\ Len(p) = IF q = <<>> THEN t ELSE q[1][1] - 1
    /\ \A k \in 1..Len(q) - 1 : EndOf(q[k]) + 1 = q[k + 1][1]
    /\ q # <<>> => EndOf(q[Len(q)]) = t

(* The numbers of a batch of the queue are what arithmetic needs of it.      *)
LEMMA BatchFacts ==
    ASSUME NEW q \in Seq(Seq(Nat)), NEW t \in Nat, QueueInOrder(q, t), NEW k \in BatchesOf(q)
    PROVE  /\ k \in 1..Len(q) /\ q[k] # End
           /\ q[k] \in Seq(Nat) /\ Len(q[k]) \in Nat \ {0}
           /\ q[k][1] \in Nat \ {0} /\ EndOf(q[k]) \in Nat /\ q[k][1] <= EndOf(q[k]) /\ EndOf(q[k]) <= t
           /\ \A j \in 1..Len(q[k]) : q[k][j] = q[k][1] + j - 1
<1>1. k \in 1..Len(q) /\ q[k] # End
  BY DEF BatchesOf
<1>2. q[k] \in Seq(Nat)
  BY <1>1, ElementOfSeq
<1> DEFINE b == q[k]
<1>3. Batch(b) /\ EndOf(b) <= t
  BY DEF QueueInOrder
<1> HIDE DEF b
<1>4. b \in Seq(Nat) /\ Len(b) \in Nat
  BY <1>2, LenProperties DEF b
<1>5. Len(b) # 0
  BY <1>3, <1>4, EmptySeq DEF Batch
<1>6. b[1] \in Nat
  BY <1>4, <1>5, ElementOfSeq
<1>7. b[1] > 0 /\ \A j \in 1..Len(b) : b[j] = b[1] + j - 1
  BY <1>3 DEF Batch
<1>8. EndOf(b) = b[1] + Len(b) - 1
  BY DEF EndOf
<1>9. EndOf(b) \in Nat /\ b[1] <= EndOf(b)
  BY <1>4, <1>5, <1>6, <1>7, <1>8
<1> QED BY <1>1, <1>3, <1>4, <1>5, <1>6, <1>7, <1>9 DEF b

(* A commit joins the queue.                                                 *)
LEMMA QueueAppended ==
    ASSUME NEW q \in Seq(Seq(Nat)), NEW b \in Seq(Nat)
    PROVE  /\ Append(q, b) \in Seq(Seq(Nat)) /\ Append(q, b) # <<>>
           /\ Len(Append(q, b)) = Len(q) + 1 /\ Len(q) \in Nat
           /\ \A k \in 1..Len(q) : Append(q, b)[k] = q[k]
           /\ Append(q, b)[Len(q) + 1] = b
           /\ b # End => BatchesOf(Append(q, b)) = BatchesOf(q) \union {Len(q) + 1}
           /\ b = End => BatchesOf(Append(q, b)) = BatchesOf(q)
<1> DEFINE r == Append(q, b)
           n == Len(q)
<1>1. /\ r \in Seq(Seq(Nat)) /\ r # <<>> /\ Len(r) = n + 1
      /\ \A k \in 1..n : r[k] = q[k]
      /\ r[n + 1] = b
  BY AppendProperties
<1>2. n \in Nat
  BY LenProperties
<1>3. BatchesOf(r) = {k \in 1..n + 1 : r[k] # End} /\ BatchesOf(q) = {k \in 1..n : q[k] # End}
  BY <1>1 DEF BatchesOf
<1> HIDE DEF r, n
<1>4. 1..n + 1 = (1..n) \union {n + 1}
  BY <1>2
<1>5. b # End => BatchesOf(r) = BatchesOf(q) \union {n + 1}
  BY <1>1, <1>2, <1>3, <1>4
<1>6. b = End => BatchesOf(r) = BatchesOf(q)
  BY <1>1, <1>2, <1>3, <1>4
<1> QED BY <1>1, <1>2, <1>5, <1>6 DEF r, n

(* The next batch leaves queue and store in order.                           *)
LEMMA InOrderAppended ==
    ASSUME NEW q \in Seq(Seq(Nat)), NEW p \in Seq(Nat), NEW t \in Nat, NEW u \in Nat, t <= u, InOrder(q, p, t),
           NEW b \in Seq(Nat), Batch(b), b # End, b[1] = t + 1, EndOf(b) = u
    PROVE  InOrder(Append(q, b), p, u)
<1> DEFINE r == Append(q, b)
           n == Len(q)
<1>1. /\ n \in Nat /\ \A k \in 1..n : r[k] = q[k]
      /\ r[n + 1] = b /\ BatchesOf(r) = BatchesOf(q) \union {n + 1}
  BY QueueAppended
<1>2. \A k \in BatchesOf(q) : /\ k \in 1..n /\ q[k][1] \in Nat /\ EndOf(q[k]) \in Nat
                              /\ EndOf(q[k]) <= t /\ r[k] = q[k]
  BY <1>1, BatchFacts DEF InOrder
<1>3. \A i \in 1..Len(p) : p[i] \in Nat
  BY ElementOfSeq
<1> HIDE DEF r, n
<1>4. ASSUME NEW k \in BatchesOf(r) PROVE Batch(r[k]) /\ EndOf(r[k]) <= u
  <2>1. CASE k \in BatchesOf(q)
    <3>1. Batch(q[k])
      BY <2>1 DEF InOrder, QueueInOrder
    <3>2. r[k] = q[k] /\ EndOf(q[k]) \in Nat /\ EndOf(q[k]) <= t
      BY <1>2, <2>1
    <3> QED BY <3>1, <3>2
  <2>2. CASE k = n + 1
    BY <1>1, <2>2
  <2> QED BY <1>1, <1>4, <2>1, <2>2
<1>5. ASSUME NEW k \in BatchesOf(r), NEW l \in BatchesOf(r), k < l PROVE EndOf(r[k]) < r[l][1]
  <2>1. k \in BatchesOf(q) /\ r[k] = q[k] /\ EndOf(q[k]) \in Nat /\ EndOf(q[k]) <= t
    BY <1>1, <1>2, <1>5
  <2>2. CASE l \in BatchesOf(q)
    <3>1. EndOf(q[k]) < q[l][1]
      BY <1>5, <2>1, <2>2 DEF InOrder, QueueInOrder
    <3> QED BY <1>2, <2>1, <2>2, <3>1
  <2>3. CASE l = n + 1
    <3>1. r[l] = b
      BY <1>1, <2>3
    <3> QED BY <2>1, <3>1
  <2> QED BY <1>1, <2>2, <2>3
<1>6. \A i \in 1..Len(p) : p[i] <= t
  BY DEF InOrder, StoreInOrder
<1>7. \A i \in 1..Len(p) : p[i] <= u
  BY <1>3, <1>6
<1>8. ASSUME NEW i \in 1..Len(p), NEW k \in BatchesOf(r) PROVE p[i] < r[k][1]
  <2>1. CASE k \in BatchesOf(q)
    BY <1>2, <2>1 DEF InOrder, StoreInOrder
  <2>2. CASE k = n + 1
    <3>1. r[k] = b
      BY <1>1, <2>2
    <3> QED BY <1>3, <1>6, <3>1
  <2> QED BY <1>1, <2>1, <2>2
<1>9. \A i, j \in 1..Len(p) : i < j => p[i] < p[j]
  BY DEF InOrder, StoreInOrder
<1>10. QueueInOrder(r, u) /\ StoreInOrder(p, r, u)
  BY <1>4, <1>5, <1>7, <1>8, <1>9 DEF QueueInOrder, StoreInOrder
<1> QED BY <1>10 DEF InOrder, r

(* So does the commit of the end.                                            *)
LEMMA InOrderAtEnd ==
    ASSUME NEW q \in Seq(Seq(Nat)), NEW p \in Seq(Nat), NEW t \in Nat, InOrder(q, p, t)
    PROVE  InOrder(Append(q, End), p, t)
<1>1. End \in Seq(Nat)
  BY DEF End
<1> DEFINE r == Append(q, End)
<1>2. /\ \A k \in 1..Len(q) : r[k] = q[k]
      /\ BatchesOf(r) = BatchesOf(q)
  BY <1>1, QueueAppended
<1>3. \A k \in BatchesOf(q) : r[k] = q[k]
  BY <1>2 DEF BatchesOf
<1> HIDE DEF r
<1>4. QueueInOrder(r, t)
  BY <1>2, <1>3 DEF InOrder, QueueInOrder
<1>5. StoreInOrder(p, r, t)
  BY <1>2, <1>3 DEF InOrder, StoreInOrder
<1> QED BY <1>4, <1>5 DEF InOrder, r

(* The head of the queue is taken.                                           *)
LEMMA QueueTail ==
    ASSUME NEW q \in Seq(Seq(Nat)), q # <<>>
    PROVE  /\ Tail(q) \in Seq(Seq(Nat)) /\ Len(q) \in Nat \ {0} /\ Len(Tail(q)) = Len(q) - 1
           /\ Head(q) = q[1] /\ q[1] \in Seq(Nat)
           /\ \A k \in 1..Len(q) - 1 : Tail(q)[k] = q[k + 1]
           /\ \A k \in BatchesOf(Tail(q)) : k \in Nat /\ k + 1 \in BatchesOf(q) /\ Tail(q)[k] = q[k + 1]
<1> DEFINE r == Tail(q)
           n == Len(q)
<1>1. n \in Nat \ {0}
  BY EmptySeq, LenProperties
<1>2. /\ r \in Seq(Seq(Nat)) /\ Len(r) = n - 1 /\ Head(q) = q[1] /\ q[1] \in Seq(Nat)
      /\ \A k \in 1..Len(r) : r[k] = q[k + 1]
  BY <1>1, HeadTailProperties, ElementOfSeq
<1>3. BatchesOf(r) = {k \in 1..Len(r) : r[k] # End} /\ BatchesOf(q) = {k \in 1..n : q[k] # End}
  BY DEF BatchesOf
<1> HIDE DEF r, n
<1>4. ASSUME NEW k \in BatchesOf(r) PROVE k \in Nat /\ k + 1 \in BatchesOf(q) /\ r[k] = q[k + 1]
  <2>1. k \in 1..n - 1 /\ r[k] = q[k + 1] /\ r[k] # End
    BY <1>2, <1>3
  <2>2. k \in Nat /\ k + 1 \in 1..n
    BY <1>1, <2>1
  <2> QED BY <1>3, <2>1, <2>2
<1> QED BY <1>1, <1>2, <1>4 DEF r, n

(* A refused commit leaves the rest in order.                                *)
LEMMA InOrderTail ==
    ASSUME NEW q \in Seq(Seq(Nat)), q # <<>>, NEW p \in Seq(Nat), NEW t \in Nat, InOrder(q, p, t)
    PROVE  InOrder(Tail(q), p, t)
<1> DEFINE r == Tail(q)
<1>1. \A k \in BatchesOf(r) : k \in Nat /\ k + 1 \in BatchesOf(q) /\ r[k] = q[k + 1]
  BY QueueTail
<1> HIDE DEF r
<1>2. QueueInOrder(r, t)
  <2>1. \A k \in BatchesOf(r) : Batch(r[k]) /\ EndOf(r[k]) <= t
    BY <1>1 DEF InOrder, QueueInOrder
  <2>2. ASSUME NEW k \in BatchesOf(r), NEW l \in BatchesOf(r), k < l PROVE EndOf(r[k]) < r[l][1]
    <3>1. k + 1 < l + 1 /\ k + 1 \in BatchesOf(q) /\ l + 1 \in BatchesOf(q)
      BY <1>1, <2>2
    <3>2. EndOf(q[k + 1]) < q[l + 1][1]
      BY <3>1 DEF InOrder, QueueInOrder
    <3> QED BY <1>1, <3>2
  <2> QED BY <2>1, <2>2 DEF QueueInOrder
<1>3. StoreInOrder(p, r, t)
  BY <1>1 DEF InOrder, StoreInOrder
<1> QED BY <1>2, <1>3 DEF InOrder, r

(* What a store holds once a batch is applied.                               *)
LEMMA StoreAppended ==
    ASSUME NEW p \in Seq(Nat), NEW h \in Seq(Nat)
    PROVE  /\ p \o h \in Seq(Nat) /\ Len(p \o h) = Len(p) + Len(h) /\ Len(p) \in Nat /\ Len(h) \in Nat
           /\ \A i \in 1..Len(p) : (p \o h)[i] = p[i] /\ p[i] \in Nat
           /\ \A i \in 1..Len(p) + Len(h) : i > Len(p) => i - Len(p) \in 1..Len(h) /\ (p \o h)[i] = h[i - Len(p)]
<1>1. p \o h \in Seq(Nat) /\ Len(p \o h) = Len(p) + Len(h)
      /\ \A i \in 1..Len(p) + Len(h) : (p \o h)[i] = IF i <= Len(p) THEN p[i] ELSE h[i - Len(p)]
  BY ConcatProperties
<1>2. Len(p) \in Nat /\ Len(h) \in Nat
  BY LenProperties
<1>3. \A i \in 1..Len(p) : (p \o h)[i] = p[i]
  BY <1>1, <1>2
<1>4. \A i \in 1..Len(p) : p[i] \in Nat
  BY ElementOfSeq
<1>5. \A i \in 1..Len(p) + Len(h) : i > Len(p) => i - Len(p) \in 1..Len(h) /\ (p \o h)[i] = h[i - Len(p)]
  BY <1>1, <1>2
<1> QED BY <1>1, <1>2, <1>3, <1>4, <1>5

(* The head of the queue, applied, extends the store in order.               *)
LEMMA InOrderApplied ==
    ASSUME NEW q \in Seq(Seq(Nat)), q # <<>>, NEW p \in Seq(Nat), NEW t \in Nat, InOrder(q, p, t), Head(q) # End
    PROVE  InOrder(Tail(q), p \o Head(q), t)
<1> DEFINE r == Tail(q)
           h == Head(q)
           s == p \o h
           n == Len(p)
<1>1. /\ r \in Seq(Seq(Nat)) /\ Len(q) \in Nat \ {0} /\ h = q[1] /\ h \in Seq(Nat)
      /\ \A k \in BatchesOf(r) : k \in Nat /\ k + 1 \in BatchesOf(q) /\ r[k] = q[k + 1]
  BY QueueTail
<1>2. InOrder(r, p, t)
  BY InOrderTail
<1>3. 1 \in BatchesOf(q)
  BY <1>1 DEF BatchesOf
<1>4. /\ Len(h) \in Nat \ {0} /\ h[1] \in Nat /\ EndOf(h) \in Nat /\ EndOf(h) <= t
      /\ \A j \in 1..Len(h) : h[j] = h[1] + j - 1
  BY <1>1, <1>3, BatchFacts DEF InOrder
<1>5. /\ Len(s) = n + Len(h) /\ n \in Nat
      /\ \A i \in 1..n : s[i] = p[i] /\ p[i] \in Nat
      /\ \A i \in 1..n + Len(h) : i > n => i - n \in 1..Len(h) /\ s[i] = h[i - n]
  BY <1>1, StoreAppended
<1>6. EndOf(h) = h[1] + Len(h) - 1
  BY DEF EndOf
<1>7. \A i \in 1..n : p[i] < h[1] /\ p[i] <= t
  BY <1>1, <1>3 DEF InOrder, StoreInOrder
<1>8. \A i, j \in 1..n : i < j => p[i] < p[j]
  BY DEF InOrder, StoreInOrder
<1>9. \A k \in BatchesOf(r) : r[k][1] \in Nat /\ EndOf(h) < r[k][1]
  <2>1. ASSUME NEW k \in BatchesOf(r) PROVE r[k][1] \in Nat /\ EndOf(h) < r[k][1]
    <3>1. k \in 1..Len(r) /\ 1 < k + 1 /\ k + 1 \in BatchesOf(q) /\ r[k] = q[k + 1]
      BY <1>1 DEF BatchesOf
    <3>2. EndOf(q[1]) < q[k + 1][1]
      BY <1>3, <3>1 DEF InOrder, QueueInOrder
    <3>3. r[k][1] \in Nat
      BY <1>1, <1>2, BatchFacts DEF InOrder
    <3> QED BY <1>1, <3>1, <3>2, <3>3
  <2> QED BY <2>1
<1> HIDE DEF r, h, s, n
<1>10. ASSUME NEW i \in 1..Len(s)
       PROVE  \/ i \in 1..n /\ s[i] = p[i] /\ p[i] \in Nat
              \/ i > n /\ i - n \in 1..Len(h) /\ s[i] = h[1] + (i - n) - 1 /\ s[i] <= EndOf(h)
  <2>1. i \in 1..n + Len(h) /\ i \in Nat
    BY <1>4, <1>5
  <2>2. CASE i <= n
    <3>1. i \in 1..n
      BY <1>5, <2>1, <2>2
    <3> QED BY <1>5, <3>1
  <2>3. CASE i > n
    <3>1. i - n \in 1..Len(h) /\ s[i] = h[i - n]
      BY <1>5, <2>1, <2>3
    <3>2. s[i] = h[1] + (i - n) - 1
      BY <1>4, <3>1
    <3> QED BY <1>4, <1>5, <1>6, <2>1, <2>3, <3>1, <3>2
  <2> QED BY <1>5, <2>1, <2>2, <2>3
<1>11. ASSUME NEW i \in 1..Len(s) PROVE s[i] <= t
  <2>1. CASE i \in 1..n /\ s[i] = p[i]
    BY <1>7, <2>1
  <2>2. CASE s[i] = h[1] + (i - n) - 1 /\ s[i] <= EndOf(h) /\ i - n \in 1..Len(h)
    <3>1. s[i] \in Int
      BY <1>4, <2>2
    <3> QED BY <1>4, <2>2, <3>1
  <2> QED BY <1>10, <2>1, <2>2
<1>12. \A i \in 1..Len(s), k \in BatchesOf(r) : s[i] < r[k][1]
  <2>1. ASSUME NEW i \in 1..Len(s), NEW k \in BatchesOf(r) PROVE s[i] < r[k][1]
    <3>0. h[1] \in Nat /\ EndOf(h) \in Nat /\ Len(h) \in Nat \ {0}
      BY <1>4
    <3>4. h[1] <= EndOf(h)
      BY <1>6, <3>0
    <3>5. r[k][1] \in Nat /\ EndOf(h) < r[k][1]
      BY <1>9
    <3>6. \A a, b, c \in Int : a <= b /\ b < c => a < c
      OBVIOUS
    <3>7. \A a, b, c \in Int : a < b /\ b < c => a < c
      OBVIOUS
    <3>8. h[1] \in Int /\ EndOf(h) \in Int /\ r[k][1] \in Int
      BY <3>0, <3>5
    <3>1. h[1] < r[k][1]
      BY <3>4, <3>5, <3>6, <3>8, Zenon
    <3>2. CASE i \in 1..n /\ s[i] = p[i] /\ p[i] \in Nat
      <4>1. p[i] < h[1]
        BY <1>7, <3>2
      <4>2. p[i] \in Int
        BY <3>2
      <4>3. p[i] < r[k][1]
        BY <3>1, <3>7, <3>8, <4>1, <4>2, Zenon
      <4> QED BY <3>2, <4>3, Zenon
    <3>3. CASE i - n \in 1..Len(h) /\ s[i] = h[1] + (i - n) - 1 /\ s[i] <= EndOf(h)
      <4>1. s[i] \in Int
        <5>1. \A a \in Int : a + (i - n) - 1 \in Int
          BY <3>3
        <5> QED BY <3>3, <3>8, <5>1, Zenon
      <4> QED BY <3>3, <3>5, <3>6, <3>8, <4>1, Zenon
    <3> QED BY <1>10, <3>2, <3>3
  <2> QED BY <2>1
<1>13. ASSUME NEW i \in 1..Len(s), NEW j \in 1..Len(s), i < j PROVE s[i] < s[j]
  <2>1. CASE i \in 1..n /\ s[i] = p[i]
    <3>1. CASE j \in 1..n /\ s[j] = p[j]
      <4>1. p[i] < p[j]
        BY <1>8, <1>13, <2>1, <3>1
      <4> QED BY <2>1, <3>1, <4>1
    <3>2. CASE j > n /\ j - n \in 1..Len(h) /\ s[j] = h[1] + (j - n) - 1
      <4>1. p[i] < h[1] /\ p[i] \in Nat
        BY <1>5, <1>7, <2>1
      <4>2. s[j] \in Int /\ h[1] <= s[j] /\ h[1] \in Int
        <5>1. h[1] \in Nat /\ Len(h) \in Nat
          BY <1>4
        <5> QED BY <3>2, <5>1
      <4>3. \A a \in Nat : \A b, c \in Int : a < b /\ b <= c => a < c
        OBVIOUS
      <4>4. s[i] \in Nat /\ s[i] < h[1]
        BY <2>1, <4>1
      <4> QED BY <4>2, <4>3, <4>4
    <3> QED BY <1>10, <3>1, <3>2
  <2>2. CASE i > n /\ i - n \in 1..Len(h) /\ s[i] = h[1] + (i - n) - 1
    <3>0. n \in Nat /\ h[1] \in Nat /\ i \in Int /\ j \in Int
      BY <1>4, <1>5, <1>13
    <3>1. j > n /\ s[j] = h[1] + (j - n) - 1
      <4>1. j > n
        BY <1>13, <2>2, <3>0
      <4>2. j \notin 1..n
        BY <3>0, <4>1
      <4> QED BY <1>10, <4>1, <4>2
    <3>2. \A a, b, c, d \in Int : a < b => c + (a - d) - 1 < c + (b - d) - 1
      OBVIOUS
    <3>3. h[1] + (i - n) - 1 < h[1] + (j - n) - 1
      BY <1>13, <3>0, <3>2
    <3> QED BY <2>2, <3>1, <3>3
  <2> QED BY <1>10, <2>1, <2>2
<1>14. StoreInOrder(s, r, t)
  BY <1>11, <1>12, <1>13 DEF StoreInOrder
<1> QED BY <1>2, <1>14 DEF InOrder, r, s, h

(* The next batch leaves no gap.                                             *)
LEMMA NoneMissingAppended ==
    ASSUME NEW q \in Seq(Seq(Nat)), NEW p \in Seq(Nat), NEW t \in Nat, NEW u \in Nat, NoneMissing(q, p, t),
           NEW b \in Seq(Nat), b[1] = t + 1, EndOf(b) = u
    PROVE  NoneMissing(Append(q, b), p, u)
<1> DEFINE r == Append(q, b)
           n == Len(q)
<1>1. /\ r # <<>> /\ Len(r) = n + 1 /\ n \in Nat /\ r[n + 1] = b
      /\ \A k \in 1..n : r[k] = q[k]
  BY QueueAppended
<1>2. n = 0 <=> q = <<>>
  BY EmptySeq
<1>3. Stored(p, Len(p))
  BY DEF NoneMissing
<1>4. Len(p) = IF q = <<>> THEN t ELSE q[1][1] - 1
  BY DEF NoneMissing
<1>5. \A k \in 1..n - 1 : EndOf(q[k]) + 1 = q[k + 1][1]
  BY DEF NoneMissing
<1>6. q # <<>> => EndOf(q[n]) = t
  BY DEF NoneMissing
<1> HIDE DEF r, n
<1>7. Len(p) = r[1][1] - 1
  <2>1. CASE q = <<>>
    <3>1. r[1] = b
      BY <1>1, <1>2, <2>1
    <3> QED BY <1>4, <2>1, <3>1
  <2>2. CASE q # <<>>
    <3>1. r[1] = q[1]
      BY <1>1, <1>2, <2>2
    <3> QED BY <1>4, <2>2, <3>1
  <2> QED BY <2>1, <2>2
<1>8. ASSUME NEW k \in 1..Len(r) - 1 PROVE EndOf(r[k]) + 1 = r[k + 1][1]
  <2>1. k \in 1..n /\ r[k] = q[k]
    BY <1>1
  <2>2. CASE k = n
    <3>1. n # 0
      BY <1>1, <2>1, <2>2
    <3>2. EndOf(q[n]) = t /\ r[k] = q[n] /\ r[k + 1] = b
      BY <1>1, <1>2, <1>6, <2>1, <2>2, <3>1
    <3> QED BY <3>2
  <2>3. CASE k # n
    <3>1. k \in 1..n - 1 /\ k + 1 \in 1..n
      BY <1>1, <2>1, <2>3
    <3>2. EndOf(q[k]) + 1 = q[k + 1][1] /\ r[k + 1] = q[k + 1]
      BY <1>1, <1>5, <3>1
    <3> QED BY <2>1, <3>2
  <2> QED BY <2>2, <2>3
<1>9. EndOf(r[Len(r)]) = u
  <2>1. r[Len(r)] = b
    BY <1>1
  <2> QED BY <2>1
<1>10. /\ Len(p) = IF r = <<>> THEN u ELSE r[1][1] - 1
       /\ r # <<>> => EndOf(r[Len(r)]) = u
  BY <1>1, <1>7, <1>9
<1> QED BY <1>3, <1>8, <1>10 DEF NoneMissing, r

(* An applied head leaves no gap.                                            *)
LEMMA NoneMissingApplied ==
    ASSUME NEW q \in Seq(Seq(Nat)), q # <<>>, NEW p \in Seq(Nat), NEW t \in Nat, InOrder(q, p, t), Head(q) # End,
           NoneMissing(q, p, t)
    PROVE  NoneMissing(Tail(q), p \o Head(q), t)
<1> DEFINE r == Tail(q)
           h == Head(q)
           s == p \o h
           n == Len(p)
           m == Len(q)
<1>1. /\ r \in Seq(Seq(Nat)) /\ m \in Nat \ {0} /\ Len(r) = m - 1 /\ h = q[1] /\ h \in Seq(Nat)
      /\ \A k \in 1..m - 1 : r[k] = q[k + 1]
  BY QueueTail
<1>2. 1 \in BatchesOf(q)
  BY <1>1 DEF BatchesOf
<1>3. /\ Len(h) \in Nat \ {0} /\ h[1] \in Nat
      /\ \A j \in 1..Len(h) : h[j] = h[1] + j - 1
  BY <1>1, <1>2, BatchFacts DEF InOrder
<1>4. /\ Len(s) = n + Len(h) /\ n \in Nat
      /\ \A i \in 1..n : s[i] = p[i] /\ p[i] \in Nat
      /\ \A i \in 1..n + Len(h) : i > n => i - n \in 1..Len(h) /\ s[i] = h[i - n]
  BY <1>1, StoreAppended
<1>5. EndOf(h) = h[1] + Len(h) - 1
  BY DEF EndOf
<1>6. /\ Stored(p, n) /\ n = h[1] - 1
      /\ \A k \in 1..m - 1 : EndOf(q[k]) + 1 = q[k + 1][1]
      /\ EndOf(q[m]) = t
  BY <1>1 DEF NoneMissing
<1> HIDE DEF r, h, s, n, m
<1>7. m = 1 <=> r = <<>>
  <2>1. r \in Seq(Seq(Nat)) /\ m \in Nat /\ Len(r) = m - 1
    BY <1>1
  <2>2. r = <<>> <=> Len(r) = 0
    BY <2>1, EmptySeq
  <2> QED BY <2>1, <2>2
<1> DEFINE x == h[1]
           c == Len(h)
<1> HIDE DEF x, c
<1>x. /\ x \in Nat /\ c \in Nat \ {0} /\ n = x - 1 /\ n \in Nat /\ Len(s) = n + c /\ EndOf(h) = x + c - 1
      /\ \A j \in 1..c : h[j] = x + j - 1
  BY <1>3, <1>4, <1>5, <1>6 DEF x, c
<1>8. Stored(s, Len(s))
  <2>1. ASSUME NEW i \in 1..Len(s) PROVE s[i] = i
    <3>1. i \in 1..n + Len(h) /\ i \in Nat
      BY <1>3, <1>4
    <3>2. CASE i <= n
      <4>1. i \in 1..n
        BY <1>4, <3>1, <3>2
      <4> QED BY <1>4, <1>6, <4>1 DEF Stored
    <3>3. CASE i > n
      <4>1. i - n \in 1..c /\ s[i] = h[i - n]
        BY <1>4, <3>1, <3>3 DEF c
      <4>2. s[i] = x + (i - n) - 1
        BY <1>x, <4>1
      <4> QED BY <1>x, <3>1, <4>2
    <3> QED BY <1>4, <3>1, <3>2, <3>3
  <2> QED BY <2>1 DEF Stored
<1>9. Len(s) = EndOf(h)
  BY <1>x
<1>10. Len(s) = IF r = <<>> THEN t ELSE r[1][1] - 1
  <2>1. CASE r = <<>>
    <3>1. EndOf(h) = t
      BY <1>1, <1>6, <1>7, <2>1
    <3> QED BY <1>9, <2>1, <3>1
  <2>2. CASE r # <<>>
    <3>1. 1 \in 1..m - 1
      BY <1>1, <1>7, <2>2
    <3>2. EndOf(q[1]) + 1 = q[1 + 1][1] /\ r[1] = q[1 + 1]
      BY <1>1, <1>6, <3>1
    <3>3. EndOf(h) \in Int
      BY <1>x
    <3>4. r[1][1] = EndOf(h) + 1
      BY <1>1, <3>2
    <3>5. r[1][1] - 1 = Len(s)
      BY <1>9, <3>3, <3>4
    <3> QED BY <2>2, <3>5
  <2> QED BY <2>1, <2>2
<1>11. ASSUME NEW k \in 1..Len(r) - 1 PROVE EndOf(r[k]) + 1 = r[k + 1][1]
  <2>1. k \in 1..m - 1 /\ k + 1 \in 1..m - 1
    BY <1>1
  <2>2. r[k] = q[k + 1] /\ r[k + 1] = q[(k + 1) + 1]
    BY <1>1, <2>1
  <2>3. EndOf(q[k + 1]) + 1 = q[(k + 1) + 1][1]
    BY <1>6, <2>1
  <2> QED BY <2>2, <2>3
<1>12. r # <<>> => EndOf(r[Len(r)]) = t
  <2>1. SUFFICES ASSUME r # <<>> PROVE EndOf(r[Len(r)]) = t
    OBVIOUS
  <2>2. Len(r) \in 1..m - 1 /\ Len(r) + 1 = m
    BY <1>1, <1>7, <2>1
  <2>3. r[Len(r)] = q[Len(r) + 1]
    BY <1>1, <2>2
  <2> QED BY <1>6, <2>2, <2>3
<1> QED BY <1>8, <1>10, <1>11, <1>12 DEF NoneMissing, r, s, h

-----------------------------------------------------------------------------
(* Events no longer in the buffer.                                           *)
Taken == observed - Len(deltas)
BufferInv == Len(deltas) <= observed /\ \A j \in 1..Len(deltas) : deltas[j] = Taken + j
ReaderInv ==
    /\ \A k \in 1..Len(commits) : commits[k] = End => k = Len(commits) /\ run = "closing"
    /\ run \in {"completed", "failed"} => commits = <<>>
    /\ timer => deltas # <<>> /\ run \in {"live", "stopped"}
    /\ reading = "awaiting" =>
         run \in {"live", "stopped"} /\ deltas = <<>> /\ ~timer /\ awaited = Len(commits) /\ awaited > 0
    /\ reading = "reading" => awaited = 0
OverInv ==
    over => deltas = <<>> /\ ~timer /\ (run = "live" /\ reading = "reading" => commits = <<>>)
WholeInv ==
    /\ run = "live" => NoneMissing(commits, persisted, Taken)
    /\ run = "closing" /\ outcome = "completed" => commits = <<End>> /\ Stored(persisted, observed)
    /\ run = "completed" => Stored(persisted, observed)
DeltasInv ==
    DeltasTypeOK /\ BufferInv /\ InOrder(commits, persisted, Taken) /\ ReaderInv /\ OverInv /\ WholeInv

(* An invariant of the run: what is stored, queued and buffered is in order, *)
(* the reader waits for the last of the queue, a live run misses no event and*)
(* has none left once it has read the result of its last turn.               *)
LEMMA DeltasStart == DeltasInit => DeltasInv
<1> SUFFICES ASSUME DeltasInit PROVE DeltasInv
  OBVIOUS
<1>1. Len(deltas) = 0 /\ Len(commits) = 0 /\ Len(persisted) = 0 /\ observed = 0 /\ Taken = 0
  <2>1. Len(deltas) = 0 /\ Len(commits) = 0 /\ Len(persisted) = 0 /\ observed = 0
    BY DEF DeltasInit
  <2> QED BY <2>1 DEF Taken
<1>2. DeltasTypeOK
  <2>1. <<>> \in Seq(Nat) /\ <<>> \in Seq(Seq(Nat))
    BY EmptySeq
  <2>2. deltas = <<>> /\ commits = <<>> /\ persisted = <<>>
    BY DEF DeltasInit
  <2>3. deltas \in Seq(Nat) /\ commits \in Seq(Seq(Nat)) /\ persisted \in Seq(Nat)
    BY <2>1, <2>2
  <2>4. observed \in 0..MaxEventsRead /\ awaited \in Nat
    BY DeltaAssumption DEF DeltasInit
  <2> QED BY <2>3, <2>4 DEF DeltasInit, DeltasTypeOK
<1>3. BufferInv
  BY <1>1 DEF BufferInv
<1>4. InOrder(commits, persisted, Taken)
  BY <1>1 DEF InOrder, QueueInOrder, StoreInOrder, BatchesOf
<1>5. ReaderInv
  BY <1>1 DEF DeltasInit, ReaderInv
<1>6. NoneMissing(commits, persisted, Taken)
  <2>1. commits = <<>>
    BY DEF DeltasInit
  <2> QED BY <1>1, <2>1 DEF NoneMissing, Stored
<1>7. WholeInv
  BY <1>6 DEF DeltasInit, WholeInv
<1>8. OverInv
  BY DEF DeltasInit, OverInv
<1> QED BY <1>2, <1>3, <1>4, <1>5, <1>7, <1>8 DEF DeltasInv

(* The types and counts its steps need.                                      *)
LEMMA DeltaTypes ==
    ASSUME DeltasInv
    PROVE  /\ commits \in Seq(Seq(Nat)) /\ persisted \in Seq(Nat) /\ deltas \in Seq(Nat)
           /\ Len(commits) \in Nat /\ Len(deltas) \in Nat /\ observed \in Nat /\ awaited \in Nat
           /\ Taken \in Nat /\ Len(deltas) + Taken = observed
           /\ deltas = <<>> <=> Taken = observed
<1>1. commits \in Seq(Seq(Nat)) /\ persisted \in Seq(Nat) /\ deltas \in Seq(Nat) /\ observed \in Nat /\ awaited \in Nat
  BY DeltaAssumption DEF DeltasInv, DeltasTypeOK
<1>2. Len(commits) \in Nat /\ Len(deltas) \in Nat
  BY <1>1, LenProperties
<1>3. Taken \in Nat /\ Len(deltas) + Taken = observed
  BY <1>1, <1>2 DEF Taken, DeltasInv, BufferInv
<1>4. deltas = <<>> <=> Len(deltas) = 0
  BY <1>1, EmptySeq
<1> QED BY <1>1, <1>2, <1>3, <1>4

(* A batch holds the buffer, with the event at hand or without it.           *)
FromBuffer(b) ==
    /\ observed' \in 0..MaxEventsRead /\ observed' >= observed
    /\ b # <<>> /\ Len(b) = observed' - Taken /\ \A j \in 1..Len(b) : b[j] = Taken + j

(* Such a batch joins the queue.                                             *)
LEMMA BatchQueued ==
    ASSUME DeltasInv, run \in {"live", "stopped"}, UNCHANGED <<persisted, run, outcome, fenced>>,
           NEW b \in Seq(Nat), CommitObserved(b), FromBuffer(b), reading = "reading", over' \in BOOLEAN,
           \/ UNCHANGED <<reading, awaited>> /\ ~over'
           \/ reading' = "awaiting" /\ awaited' = Len(commits) + 1
    PROVE  DeltasInv'
<1>1. /\ commits' = Append(commits, b) /\ deltas' = <<>> /\ timer' = FALSE
      /\ commits \in Seq(Seq(Nat)) /\ persisted \in Seq(Nat) /\ persisted' = persisted
      /\ Len(commits) \in Nat /\ observed \in Nat /\ observed' \in Nat /\ awaited \in Nat
      /\ Taken \in Nat /\ Taken <= observed
  BY DeltaTypes, DeltaAssumption DEF CommitObserved, FromBuffer
<1>n. observed' \in Nat /\ Taken \in Nat /\ Taken <= observed'
  <2>1. observed \in Nat /\ observed' \in Nat /\ Taken \in Nat /\ Taken <= observed
    BY <1>1
  <2>2. observed <= observed'
    BY <2>1 DEF FromBuffer
  <2> QED BY <2>1, <2>2
<1>2. Taken' = observed' /\ Taken <= Taken' /\ Taken' \in Nat
  <2>1. Len(deltas') = 0
    BY <1>1
  <2>2. Taken' = observed' - Len(deltas')
    BY DEF Taken
  <2>3. Taken' = observed'
    <3>1. \A m \in Nat : m - 0 = m
      OBVIOUS
    <3>2. Taken' = observed' - 0
      BY <2>1, <2>2
    <3> QED BY <1>n, <3>1, <3>2
  <2> QED BY <1>n, <2>3
<1>3. Len(b) \in Nat \ {0}
  BY EmptySeq, LenProperties DEF FromBuffer
<1> DEFINE t == Taken
<1>t. t \in Nat /\ Len(b) = observed' - t /\ \A j \in 1..Len(b) : b[j] = t + j
  BY <1>1 DEF FromBuffer
<1> HIDE DEF t
<1>4. b[1] = Taken + 1 /\ EndOf(b) = Taken'
  <2>1. b[1] = t + 1
    BY <1>3, <1>t
  <2> DEFINE m == Len(b)
  <2> HIDE DEF m
  <2>m. m \in Nat /\ m = observed' - t
    BY <1>3, <1>t DEF m
  <2>2. t + 1 + m - 1 = observed'
    <3>1. observed' \in Nat
      BY <1>n
    <3>2. \A i, j, k \in Nat : j = k - i => i + 1 + j - 1 = k
      OBVIOUS
    <3> QED BY <1>t, <2>m, <3>1, <3>2
  <2> QED BY <1>2, <2>1, <2>2 DEF EndOf, t, m
<1>5. Batch(b) /\ b # End
  <2>1. End[1] = 0
    BY DEF End
  <2>2. b[1] # 0 /\ b[1] > 0 /\ b[1] = t + 1
    BY <1>4, <1>t DEF t
  <2>3. \A j \in 1..Len(b) : b[j] = b[1] + j - 1
    BY <1>t, <2>2
  <2>4. b # End /\ b # <<>>
    BY <2>1, <2>2 DEF FromBuffer
  <2> QED BY <2>2, <2>3, <2>4 DEF Batch
<1>6. /\ commits' \in Seq(Seq(Nat)) /\ Len(commits') = Len(commits) + 1
      /\ \A k \in 1..Len(commits) : commits'[k] = commits[k]
      /\ commits'[Len(commits) + 1] = b
  BY <1>1, QueueAppended
<1>7. DeltasTypeOK'
  <2>1. deltas' \in Seq(Nat) /\ awaited' \in Nat /\ reading' \in {"reading", "awaiting"}
    BY <1>1
  <2> QED BY <1>1, <1>6, <2>1 DEF DeltasInv, DeltasTypeOK, FromBuffer
<1>8. BufferInv'
  BY <1>1 DEF BufferInv
<1>9. InOrder(commits', persisted', Taken')
  BY <1>1, <1>2, <1>4, <1>5, InOrderAppended DEF DeltasInv
<1>10. ReaderInv'
  <2>1. ASSUME NEW k \in 1..Len(commits'), commits'[k] = End PROVE FALSE
    <3>2. Len(commits) \in Nat /\ Len(commits') = Len(commits) + 1
      BY <1>1, <1>6
    <3>3. k # Len(commits) + 1
      BY <1>5, <1>6, <2>1, Zenon
    <3>4. k \in 1..Len(commits)
      BY <3>2, <3>3
    <3>1. commits[k] = End
      BY <1>6, <2>1, <3>4, Zenon
    <3> QED BY <3>1, <3>4 DEF DeltasInv, ReaderInv
  <2>2. reading' = "awaiting" => awaited' = Len(commits') /\ awaited' > 0
    BY <1>1, <1>6
  <2>3. reading' = "reading" => awaited' = 0
    BY DEF DeltasInv, ReaderInv
  <2> QED BY <1>1, <2>1, <2>2, <2>3 DEF ReaderInv
<1>11. WholeInv'
  <2>1. run = "live" => NoneMissing(commits', persisted', Taken')
    BY <1>1, <1>2, <1>4, NoneMissingAppended DEF DeltasInv, WholeInv
  <2> QED BY <2>1 DEF WholeInv
<1>12. OverInv'
  BY <1>1 DEF OverInv
<1> QED BY <1>7, <1>8, <1>9, <1>10, <1>11, <1>12 DEF DeltasInv

(* An event joins the buffer, or commits it.                                 *)
LEMMA ObserveKeeps == ASSUME DeltasInv, Observe PROVE DeltasInv'
<1> DEFINE b == Append(deltas, observed')
<1>1. /\ run \in {"live", "stopped"} /\ reading = "reading" /\ observed' = observed + 1
      /\ observed \in Nat /\ observed' \in 0..MaxEventsRead /\ UNCHANGED <<persisted, run, outcome, fenced>>
      /\ ~over
  BY DeltaTypes, DeltaAssumption DEF Observe
<1>2. /\ deltas \in Seq(Nat) /\ Len(deltas) \in Nat /\ Taken \in Nat /\ Len(deltas) + Taken = observed
  BY DeltaTypes
<1>3. /\ b \in Seq(Nat) /\ b # <<>> /\ Len(b) = Len(deltas) + 1
      /\ \A j \in 1..Len(deltas) : b[j] = deltas[j]
      /\ b[Len(deltas) + 1] = observed'
  BY <1>1, <1>2, AppendProperties
<1> HIDE DEF b
<1>4. \A j \in 1..Len(b) : b[j] = Taken + j
  <2>1. \A j \in 1..Len(deltas) : deltas[j] = Taken + j
    BY DEF DeltasInv, BufferInv
  <2> SUFFICES ASSUME NEW j \in 1..Len(b) PROVE b[j] = Taken + j
    OBVIOUS
  <2>2. CASE j \in 1..Len(deltas)
    BY <1>3, <2>1, <2>2
  <2>3. CASE j \notin 1..Len(deltas)
    <3>1. j = Len(deltas) + 1
      BY <1>2, <1>3, <2>3
    <3>2. b[j] = observed'
      BY <1>3, <3>1
    <3> QED BY <1>1, <1>2, <3>1, <3>2
  <2> QED BY <2>2, <2>3
<1>5. CASE deltas' = b /\ timer' = TRUE /\ UNCHANGED <<over, commits, reading, awaited>>
  <2>1. Taken' = Taken /\ Len(deltas') <= observed'
    <3>1. Len(deltas') = Len(deltas) + 1 /\ observed' = observed + 1
      BY <1>1, <1>3, <1>5
    <3>2. observed \in Nat /\ Len(deltas) \in Nat /\ Len(deltas) <= observed
      BY <1>1, <1>2
    <3>3. \A i, j \in Nat : (i + 1) - (j + 1) = i - j /\ (j <= i => j + 1 <= i + 1)
      OBVIOUS
    <3>4. observed' - Len(deltas') = observed - Len(deltas) /\ Len(deltas') <= observed'
      BY <3>1, <3>2, <3>3
    <3> QED BY <3>4 DEF Taken
  <2>2. DeltasTypeOK'
    BY <1>1, <1>3, <1>5 DEF DeltasInv, DeltasTypeOK
  <2>3. BufferInv'
    BY <1>4, <1>5, <2>1 DEF BufferInv
  <2>4. InOrder(commits', persisted', Taken')
    <3>1. commits' = commits /\ persisted' = persisted
      BY <1>1, <1>5
    <3> QED BY <2>1, <3>1 DEF DeltasInv
  <2>5. ReaderInv'
    BY <1>1, <1>3, <1>5 DEF DeltasInv, ReaderInv
  <2>6. WholeInv'
    BY <1>1, <1>5, <2>1 DEF DeltasInv, WholeInv
  <2>7. OverInv'
    BY <1>1, <1>5 DEF OverInv
  <2> QED BY <2>2, <2>3, <2>4, <2>5, <2>6, <2>7 DEF DeltasInv
<1>6. CASE CommitObserved(b) /\ reading' = "awaiting" /\ awaited' = Len(commits) + 1 /\ over' \in BOOLEAN
  <2>1. Len(b) = observed' - Taken /\ observed' >= observed
    BY <1>1, <1>2, <1>3
  <2> QED BY <1>1, <1>3, <1>4, <1>6, <2>1, BatchQueued DEF FromBuffer
<1> QED BY <1>5, <1>6 DEF Observe, b

(* The timer commits the buffer.                                             *)
LEMMA DeltaTimerKeeps == ASSUME DeltasInv, DeltaTimer PROVE DeltasInv'
<1>1. /\ CommitObserved(deltas) /\ UNCHANGED <<observed, reading, awaited, persisted, run, outcome, fenced>>
      /\ deltas # <<>> /\ run \in {"live", "stopped"} /\ reading = "reading" /\ over' = over /\ ~over
  BY DEF DeltaTimer, DeltasInv, ReaderInv, OverInv, DeltasTypeOK
<1>2. /\ deltas \in Seq(Nat) /\ Len(deltas) \in Nat /\ Taken \in Nat /\ Len(deltas) + Taken = observed
      /\ observed \in Nat
  BY DeltaTypes
<1>3. Len(deltas) = observed' - Taken /\ observed' >= observed /\ observed' \in 0..MaxEventsRead
  BY <1>1, <1>2 DEF DeltasInv, DeltasTypeOK
<1>4. \A j \in 1..Len(deltas) : deltas[j] = Taken + j
  BY DEF DeltasInv, BufferInv
<1>5. over' \in BOOLEAN /\ ~over'
  <2>1. over \in BOOLEAN
    BY DEF DeltasInv, DeltasTypeOK
  <2> QED BY <1>1, <2>1
<1>6. FromBuffer(deltas) /\ UNCHANGED <<reading, awaited>> /\ UNCHANGED <<persisted, run, outcome, fenced>>
  BY <1>1, <1>3, <1>4 DEF FromBuffer
<1> QED BY <1>1, <1>2, <1>5, <1>6, BatchQueued

(* The end joins a queue with no batch missing.                              *)
LEMMA StreamDoneKeeps == ASSUME DeltasInv, StreamDone PROVE DeltasInv'
<1>1. /\ run \in {"live", "stopped"} /\ reading = "reading" /\ run' = "closing" /\ timer' = FALSE
      /\ outcome' \in {"completed", "failed"} /\ commits' = Append(commits, End)
      /\ outcome' = "completed" => run = "live" /\ deltas = <<>> /\ commits = <<>>
      /\ UNCHANGED <<observed, over, deltas, reading, awaited, persisted, fenced>>
  BY DEF StreamDone, DeltasInv, OverInv
<1>2. /\ commits \in Seq(Seq(Nat)) /\ persisted \in Seq(Nat) /\ Taken \in Nat /\ Len(commits) \in Nat
      /\ deltas = <<>> <=> Taken = observed
  BY DeltaTypes
<1>3. Taken' = Taken
  BY <1>1 DEF Taken
<1>4. End \in Seq(Nat)
  BY DEF End
<1>5. /\ commits' \in Seq(Seq(Nat)) /\ Len(commits') = Len(commits) + 1
      /\ \A k \in 1..Len(commits) : commits'[k] = commits[k]
  BY <1>1, <1>2, <1>4, QueueAppended
<1>6. DeltasTypeOK'
  BY <1>1, <1>5 DEF DeltasInv, DeltasTypeOK
<1>7. BufferInv'
  BY <1>1, <1>3 DEF DeltasInv, BufferInv
<1>8. InOrder(commits', persisted', Taken')
  BY <1>1, <1>2, <1>3, InOrderAtEnd DEF DeltasInv
<1>9. ReaderInv'
  <2>1. ASSUME NEW k \in 1..Len(commits'), commits'[k] = End PROVE k = Len(commits')
    <3>1. CASE k \in 1..Len(commits)
      BY <1>1, <1>5, <2>1, <3>1 DEF DeltasInv, ReaderInv
    <3>2. CASE k \notin 1..Len(commits)
      BY <1>2, <1>5, <3>2
    <3> QED BY <3>1, <3>2
  <2> QED BY <1>1, <2>1 DEF DeltasInv, ReaderInv
<1>10. WholeInv'
  <2>1. ASSUME outcome' = "completed" PROVE commits' = <<End>> /\ Stored(persisted', observed')
    <3>1. run = "live" /\ deltas = <<>> /\ commits = <<>>
      BY <1>1, <2>1
    <3>2. NoneMissing(<<>>, persisted, Taken)
      BY <3>1 DEF DeltasInv, WholeInv
    <3>3. Stored(persisted, observed)
      BY <1>2, <3>1, <3>2 DEF NoneMissing
    <3>4. Append(<<>>, End) = <<End>>
      OBVIOUS
    <3> QED BY <1>1, <3>1, <3>3, <3>4
  <2> QED BY <1>1, <2>1 DEF WholeInv
<1>11. OverInv'
  BY <1>1 DEF DeltasInv, OverInv
<1> QED BY <1>6, <1>7, <1>8, <1>9, <1>10, <1>11 DEF DeltasInv

(* A stopped run promises no more than order.                                *)
LEMMA StopRunKeeps == ASSUME DeltasInv, StopRun PROVE DeltasInv'
<1>1. /\ run = "live" /\ run' = "stopped"
      /\ UNCHANGED <<observed, over, deltas, timer, commits, reading, awaited, persisted, outcome, fenced>>
  BY DEF StopRun
<1>2. Taken' = Taken
  BY <1>1 DEF Taken
<1>3. DeltasTypeOK' /\ BufferInv'
  BY <1>1, <1>2 DEF DeltasInv, DeltasTypeOK, BufferInv
<1>4. InOrder(commits', persisted', Taken')
  BY <1>1, <1>2 DEF DeltasInv
<1>5. ReaderInv'
  BY <1>1 DEF DeltasInv, ReaderInv
<1>6. WholeInv'
  BY <1>1 DEF WholeInv
<1>7. OverInv'
  BY <1>1 DEF DeltasInv, OverInv
<1> QED BY <1>3, <1>4, <1>5, <1>6, <1>7 DEF DeltasInv

(* The head settles: applied, refused, or the end's.                         *)
LEMMA SettlesKeeps == ASSUME DeltasInv, CommitSettles PROVE DeltasInv'
<1> DEFINE t == Tail(commits)
           h == Head(commits)
<1>1. PICK ok \in BOOLEAN :
        /\ persisted' = IF ok /\ h # End THEN persisted \o h ELSE persisted
        /\ awaited' = IF awaited > 0 THEN awaited - 1 ELSE 0
        /\ IF h = End
           THEN /\ run' = IF ok THEN outcome ELSE "failed"
                /\ commits' = t /\ UNCHANGED <<reading, outcome, timer, deltas>>
           ELSE IF awaited = 1
           THEN /\ reading' = "reading"
                /\ IF ok THEN commits' = t /\ UNCHANGED <<run, outcome, timer, deltas>>
                   ELSE Closing("failed") /\ timer' = FALSE /\ UNCHANGED deltas
           ELSE /\ commits' = t
                /\ run' = IF ~ok /\ run = "live" THEN "stopped" ELSE run
                /\ UNCHANGED <<reading, outcome, timer, deltas>>
  BY DEF CommitSettles
<1>2. fenced' \in BOOLEAN /\ commits # <<>> /\ observed' = observed /\ over' = over
  BY DEF CommitSettles, DeltasInv, DeltasTypeOK
<1>3. /\ commits \in Seq(Seq(Nat)) /\ persisted \in Seq(Nat) /\ Taken \in Nat /\ Len(commits) \in Nat
      /\ awaited \in Nat
  BY DeltaTypes
<1>4. /\ t \in Seq(Seq(Nat)) /\ Len(commits) \in Nat \ {0} /\ Len(t) = Len(commits) - 1
      /\ h = commits[1] /\ h \in Seq(Nat)
      /\ \A k \in 1..Len(commits) - 1 : t[k] = commits[k + 1]
  BY <1>2, <1>3, QueueTail
<1>5. InOrder(t, persisted, Taken) /\ (h # End => InOrder(t, persisted \o h, Taken))
  BY <1>2, <1>3, InOrderTail, InOrderApplied DEF DeltasInv
<1>6. persisted \o h \in Seq(Nat)
  BY <1>3, <1>4, StoreAppended
<1>7. Append(t, End) \in Seq(Seq(Nat)) /\ \A p \in Seq(Nat) : InOrder(t, p, Taken) => InOrder(Append(t, End), p, Taken)
  <2>1. End \in Seq(Nat)
    BY DEF End
  <2> QED BY <1>3, <1>4, <2>1, QueueAppended, InOrderAtEnd
<1>8. t = <<>> <=> Len(commits) = 1
  <2>1. t = <<>> <=> Len(t) = 0
    BY <1>4, EmptySeq
  <2>2. Len(t) = Len(commits) - 1 /\ Len(commits) \in Nat
    BY <1>4
  <2>3. Len(t) = 0 <=> Len(commits) = 1
    BY <2>2
  <2> QED BY <2>1, <2>3, Zenon
<1>9. /\ Len(commits) = 1 /\ h = End => commits = <<End>>
      /\ t = <<>> => Append(t, End) = <<End>>
  <2>1. ASSUME Len(commits) = 1, h = End PROVE commits = <<End>>
    <3>1. commits = [i \in 1..Len(commits) |-> commits[i]]
      BY <1>3, LenProperties
    <3>2. commits[1] = End
      BY <1>4, <2>1
    <3>3. commits = [i \in 1..1 |-> End]
      BY <2>1, <3>1, <3>2
    <3>4. <<End>> = [i \in 1..1 |-> End]
      OBVIOUS
    <3> QED BY <3>3, <3>4
  <2>2. ASSUME t = <<>> PROVE Append(t, End) = <<End>>
    <3>1. Append(<<>>, End) = <<End>>
      OBVIOUS
    <3> QED BY <2>2, <3>1
  <2> QED BY <2>1, <2>2
<1>10. h # End => (NoneMissing(commits, persisted, Taken) => NoneMissing(t, persisted \o h, Taken))
  BY <1>2, <1>3, NoneMissingApplied DEF DeltasInv
<1> HIDE DEF t, h
<1>11. deltas' = deltas /\ Taken' = Taken
  <2>1. deltas' = deltas
    BY <1>1
  <2> QED BY <1>2, <2>1 DEF Taken
<1>12. commits' \in {t, Append(t, End)} /\ persisted' \in Seq(Nat) /\ awaited' \in Nat
  <2>1. commits' \in {t, Append(t, End)}
    BY <1>1 DEF Closing, t
  <2>2. persisted' \in Seq(Nat)
    BY <1>1, <1>3, <1>6
  <2> QED BY <1>1, <1>3, <2>1, <2>2
<1>13. DeltasTypeOK'
  <2>1. /\ run' \in {"live", "stopped", "closing", "completed", "failed"} /\ outcome' \in {"completed", "failed"}
        /\ timer' \in BOOLEAN /\ reading' \in {"reading", "awaiting"}
    BY <1>1 DEF Closing, DeltasInv, DeltasTypeOK
  <2>2. commits' \in Seq(Seq(Nat))
    BY <1>4, <1>7, <1>12
  <2> QED BY <1>2, <1>11, <1>12, <2>1, <2>2 DEF DeltasInv, DeltasTypeOK
<1>14. BufferInv'
  BY <1>2, <1>11 DEF DeltasInv, BufferInv
<1>15. InOrder(commits', persisted', Taken')
  <2>1. InOrder(t, persisted', Taken) /\ persisted' \in Seq(Nat)
    BY <1>1, <1>5, <1>12
  <2> QED BY <1>7, <1>11, <1>12, <2>1
<1>16. ReaderInv' /\ WholeInv'
  <2>1. \A k \in 1..Len(commits) : commits[k] = End => k = Len(commits) /\ run = "closing"
    BY DEF DeltasInv, ReaderInv
  <2>2. CASE h = End
    <3>1. Len(commits) = 1 /\ run = "closing" /\ commits = <<End>> /\ t = <<>>
      <4>1. 1 \in 1..Len(commits) /\ commits[1] = End
        BY <1>4, <2>2
      <4>2. 1 = Len(commits) /\ run = "closing"
        BY <2>1, <4>1
      <4> QED BY <1>8, <1>9, <2>2, <4>2
    <3>2. reading = "reading" /\ ~timer /\ awaited = 0
      BY <3>1 DEF DeltasInv, ReaderInv, DeltasTypeOK
    <3>3. /\ commits' = <<>> /\ run' \in {outcome, "failed"} /\ reading' = "reading" /\ ~timer' /\ awaited' = 0
          /\ persisted' = persisted
      BY <1>1, <2>2, <3>1, <3>2
    <3>4. run' \in {"completed", "failed"}
      BY <3>3 DEF DeltasInv, DeltasTypeOK
    <3>5. ReaderInv'
      BY <3>3, <3>4 DEF ReaderInv
    <3>6. run' = "completed" => Stored(persisted', observed')
      BY <1>2, <3>1, <3>3 DEF DeltasInv, WholeInv
    <3> QED BY <3>4, <3>5, <3>6 DEF WholeInv
  <2>3. CASE h # End /\ awaited = 1 /\ ok
    <3>1. reading = "awaiting"
      BY <2>3 DEF DeltasInv, ReaderInv, DeltasTypeOK
    <3>2. run \in {"live", "stopped"} /\ deltas = <<>> /\ ~timer /\ Len(commits) = 1
      BY <2>3, <3>1 DEF DeltasInv, ReaderInv
    <3>3. /\ commits' = <<>> /\ t = <<>> /\ reading' = "reading" /\ awaited' = 0 /\ run' = run /\ timer' = timer
          /\ persisted' = persisted \o h
      BY <1>1, <1>8, <2>3, <3>2
    <3>4. ReaderInv'
      BY <3>2, <3>3 DEF ReaderInv
    <3>5. run = "live" => NoneMissing(commits', persisted', Taken')
      BY <1>10, <1>11, <2>3, <3>3 DEF DeltasInv, WholeInv
    <3> QED BY <3>2, <3>3, <3>4, <3>5 DEF WholeInv
  <2>4. CASE h # End /\ awaited = 1 /\ ~ok
    <3>1. reading = "awaiting"
      BY <2>4 DEF DeltasInv, ReaderInv, DeltasTypeOK
    <3>2. Len(commits) = 1
      BY <2>4, <3>1 DEF DeltasInv, ReaderInv
    <3>3. commits' = <<End>>
      BY <1>1, <1>8, <1>9, <2>4, <3>2 DEF Closing, t
    <3>4. run' = "closing" /\ outcome' = "failed" /\ ~timer' /\ reading' = "reading" /\ awaited' = 0
      BY <1>1, <2>4 DEF Closing
    <3>5. Len(commits') = 1
      BY <3>3
    <3>6. ReaderInv'
      BY <3>4, <3>5 DEF ReaderInv
    <3> QED BY <3>4, <3>6 DEF WholeInv
  <2>5. CASE h # End /\ awaited # 1
    <3>1. /\ commits' = t /\ UNCHANGED <<reading, outcome, timer, deltas>>
          /\ run' = IF ~ok /\ run = "live" THEN "stopped" ELSE run
          /\ awaited' = IF awaited > 0 THEN awaited - 1 ELSE 0
          /\ Len(commits') = Len(commits) - 1
          /\ persisted' = IF ok THEN persisted \o h ELSE persisted
      BY <1>1, <1>4, <2>5
    <3>2. run \notin {"completed", "failed"}
      BY <1>2 DEF DeltasInv, ReaderInv
    <3>3. run' \notin {"completed", "failed"} /\ (run' = "closing" <=> run = "closing")
          /\ (run \in {"live", "stopped"} <=> run' \in {"live", "stopped"})
      BY <3>1, <3>2
    <3>4. \A k \in 1..Len(commits') : commits'[k] = End => k = Len(commits') /\ run' = "closing"
      <4>1. SUFFICES ASSUME NEW k \in 1..Len(commits'), commits'[k] = End
                     PROVE  k = Len(commits') /\ run' = "closing"
        OBVIOUS
      <4>2. k + 1 \in 1..Len(commits) /\ k \in 1..Len(commits) - 1 /\ k \in Nat
        BY <1>4, <3>1
      <4>3. commits[k + 1] = End
        BY <1>4, <3>1, <4>1, <4>2
      <4>4. k + 1 = Len(commits) /\ run = "closing"
        BY <2>1, <4>2, <4>3
      <4> QED BY <3>1, <3>3, <4>2, <4>4
    <3>5. reading = "awaiting" => awaited' = Len(commits') /\ awaited' > 0
      <4>1. SUFFICES ASSUME reading = "awaiting" PROVE awaited' = Len(commits') /\ awaited' > 0
        OBVIOUS
      <4>2. awaited = Len(commits) /\ awaited > 0
        BY <4>1 DEF DeltasInv, ReaderInv
      <4>3. Len(commits) \in Nat /\ awaited # 1
        BY <1>4, <2>5
      <4>4. awaited' = awaited - 1 /\ Len(commits') = Len(commits) - 1
        BY <3>1, <4>2
      <4>5. \A a \in Nat : a > 0 /\ a # 1 => a - 1 > 0
        OBVIOUS
      <4>6. awaited - 1 > 0
        BY <4>2, <4>3, <4>5
      <4> QED BY <4>2, <4>4, <4>6
    <3>6. reading = "reading" => awaited' = 0
      BY <3>1 DEF DeltasInv, ReaderInv
    <3>7. ReaderInv'
      BY <3>1, <3>3, <3>4, <3>5, <3>6 DEF DeltasInv, ReaderInv
    <3>8. run' = "live" => NoneMissing(commits', persisted', Taken')
      <4>1. SUFFICES ASSUME run' = "live" PROVE NoneMissing(commits', persisted', Taken')
        OBVIOUS
      <4>2. run = "live" /\ ok
        BY <3>1, <4>1
      <4> QED BY <1>10, <1>11, <2>5, <3>1, <4>2 DEF DeltasInv, WholeInv
    <3>9. ~(run = "closing" /\ outcome = "completed")
      <4>1. SUFFICES ASSUME run = "closing" /\ outcome = "completed" PROVE FALSE
        OBVIOUS
      <4>2. commits = <<End>>
        BY <4>1 DEF DeltasInv, WholeInv
      <4> QED BY <1>4, <2>5, <4>2
    <3> QED BY <3>1, <3>3, <3>7, <3>8, <3>9 DEF WholeInv
  <2> QED BY <2>2, <2>3, <2>4, <2>5
<1>17. OverInv'
  <2>1. SUFFICES ASSUME over
                 PROVE  deltas' = <<>> /\ ~timer' /\ (run' = "live" /\ reading' = "reading" => commits' = <<>>)
    BY <1>2 DEF OverInv
  <2>2. deltas = <<>> /\ ~timer /\ (run = "live" => reading # "reading")
    BY <1>2, <2>1 DEF DeltasInv, OverInv
  <2>3. ~timer'
    BY <1>1, <2>2
  <2>4. SUFFICES ASSUME run' = "live" PROVE reading' = "reading" => commits' = <<>>
    BY <1>11, <2>2, <2>3
  <2>5. run = "live" /\ (awaited = 1 => commits' = t) /\ (awaited # 1 => reading' = reading)
    BY <1>1, <2>4 DEF Closing, DeltasInv, DeltasTypeOK
  <2>6. reading = "awaiting" /\ awaited = Len(commits)
    BY <2>2, <2>5 DEF DeltasInv, DeltasTypeOK, ReaderInv
  <2> QED BY <1>8, <2>5, <2>6
<1> QED BY <1>13, <1>14, <1>15, <1>16, <1>17 DEF DeltasInv

(* Every step keeps it.                                                      *)
LEMMA DeltasKeeps == DeltasInv /\ [DeltasNext]_deltaVars => DeltasInv'
<1> SUFFICES ASSUME DeltasInv, [DeltasNext]_deltaVars PROVE DeltasInv'
  OBVIOUS
<1>1. CASE UNCHANGED deltaVars
  <2>1. UNCHANGED <<observed, over, deltas, timer, commits, reading, awaited, persisted, run, outcome, fenced>>
    BY <1>1 DEF deltaVars
  <2>2. Taken' = Taken
    BY <2>1 DEF Taken
  <2>3. DeltasTypeOK' /\ BufferInv'
    BY <2>1, <2>2 DEF DeltasInv, DeltasTypeOK, BufferInv
  <2>4. InOrder(commits', persisted', Taken')
    BY <2>1, <2>2 DEF DeltasInv
  <2>5. ReaderInv'
    BY <2>1 DEF DeltasInv, ReaderInv
  <2>6. WholeInv'
    BY <2>1, <2>2 DEF DeltasInv, WholeInv
  <2>7. OverInv'
    BY <2>1 DEF DeltasInv, OverInv
  <2> QED BY <2>3, <2>4, <2>5, <2>6, <2>7 DEF DeltasInv
<1> QED BY <1>1, ObserveKeeps, DeltaTimerKeeps, SettlesKeeps, StreamDoneKeeps, StopRunKeeps DEF DeltasNext

(* It holds throughout.                                                      *)
LEMMA DeltasInvariant == DeltasSpec => []DeltasInv
<1> QED BY DeltasStart, DeltasKeeps, PTL DEF DeltasSpec

(* It implies what is checked.                                               *)
LEMMA InOrderIsStored == DeltasInv => EventsAreStored
<1> SUFFICES ASSUME DeltasInv PROVE EventsAreStored
  OBVIOUS
<1>1. persisted \in Seq(Nat)
  BY DeltaTypes
<1>2. DOMAIN persisted = 1..Len(persisted) /\ persisted \in [1..Len(persisted) -> Nat]
  BY <1>1, LenProperties
<1>3. \A i, j \in DOMAIN persisted : i < j => persisted[i] < persisted[j]
  BY <1>2 DEF DeltasInv, InOrder, StoreInOrder
<1>4. ASSUME run = "completed" PROVE persisted = [i \in 1..observed |-> i]
  <2>1. Len(persisted) = observed /\ \A i \in 1..observed : persisted[i] = i
    BY <1>4 DEF DeltasInv, WholeInv, Stored
  <2> QED BY <1>2, <2>1
<1> QED BY <1>3, <1>4 DEF EventsAreStored

(* Whoever commits them, the events of a run are stored once and in the      *)
(* order Claude reported them, and a run that is completed has all of them.  *)
THEOREM DeltasAreStored == DeltasSpec => []EventsAreStored
<1> QED BY DeltasInvariant, InOrderIsStored, PTL
=============================================================================
