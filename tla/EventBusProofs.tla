---------------------------- MODULE EventBusProofs ----------------------------
(***************************************************************************)
(* Proofs about the event bus, for any number of threads, subscriptions,   *)
(* events and nested publish() calls.                                      *)
(***************************************************************************)
EXTENDS EventBus, TLAPS, SequenceTheorems

-----------------------------------------------------------------------------
(* Sequences of registrations in order of subscription.                    *)
Rising(seq) == \A i, j \in DOMAIN seq : i < j => seq[i] < seq[j]

LEMMA AppendRising ==
  ASSUME NEW seq \in Seq(Regs), Rising(seq), NEW r \in Regs,
         \A x \in Elements(seq) : x < r
  PROVE  /\ Append(seq, r) \in Seq(Regs) /\ Rising(Append(seq, r))
         /\ Elements(Append(seq, r)) = Elements(seq) \cup {r}
<1>1. /\ Append(seq, r) \in Seq(Regs)
      /\ DOMAIN Append(seq, r) = 1..(Len(seq) + 1)
      /\ DOMAIN seq = 1..Len(seq) /\ Len(seq) \in Nat
      /\ \A i \in 1..Len(seq) : Append(seq, r)[i] = seq[i]
      /\ Append(seq, r)[Len(seq) + 1] = r
  BY AppendProperties, LenProperties
<1>2. Rising(Append(seq, r))
  BY <1>1 DEF Rising, Elements
<1>3. Elements(Append(seq, r)) = Elements(seq) \cup {r}
  <2>1. Elements(Append(seq, r)) \subseteq Elements(seq) \cup {r}
    BY <1>1 DEF Elements
  <2>2. Elements(seq) \subseteq Elements(Append(seq, r))
    BY <1>1 DEF Elements
  <2>3. r \in Elements(Append(seq, r))
    <3>1. Len(seq) + 1 \in DOMAIN Append(seq, r)
      BY <1>1
    <3> QED
      BY <1>1, <3>1 DEF Elements
  <2> QED
    BY <2>1, <2>2, <2>3
<1> QED
  BY <1>1, <1>2, <1>3

LEMMA TailRising ==
  ASSUME NEW seq \in Seq(Regs), seq # <<>>, Rising(seq)
  PROVE  /\ Head(seq) \in Regs /\ Tail(seq) \in Seq(Regs) /\ Rising(Tail(seq))
         /\ Elements(seq) = {Head(seq)} \cup Elements(Tail(seq))
         /\ \A y \in Elements(Tail(seq)) : Head(seq) < y
<1>1. /\ Len(seq) \in Nat /\ Len(seq) > 0 /\ DOMAIN seq = 1..Len(seq)
      /\ Head(seq) = seq[1] /\ Head(seq) \in Regs
      /\ Tail(seq) \in Seq(Regs) /\ Len(Tail(seq)) = Len(seq) - 1
      /\ DOMAIN Tail(seq) = 1..(Len(seq) - 1)
      /\ \A i \in 1..(Len(seq) - 1) : Tail(seq)[i] = seq[i + 1]
  BY EmptySeq, HeadTailProperties, LenProperties
<1>2. Rising(Tail(seq))
  BY <1>1 DEF Rising
<1>3. \A y \in Elements(Tail(seq)) : Head(seq) < y /\ y \in Elements(seq)
  BY <1>1 DEF Rising, Elements
<1>4. Elements(seq) \subseteq {Head(seq)} \cup Elements(Tail(seq))
  <2>1. ASSUME NEW i \in DOMAIN seq, i # 1
        PROVE  seq[i] \in Elements(Tail(seq))
    <3>1. i - 1 \in DOMAIN Tail(seq) /\ Tail(seq)[i - 1] = seq[i]
      BY <1>1, <2>1
    <3> QED
      BY <3>1 DEF Elements
  <2> QED
    BY <1>1, <2>1 DEF Elements
<1>5. Head(seq) \in Elements(seq)
  BY <1>1 DEF Elements
<1> QED
  BY <1>1, <1>2, <1>3, <1>4, <1>5

(* What del handlers[registration_id] leaves.                              *)
LEMMA RemainingRising ==
  ASSUME NEW seq \in Seq(Regs), Rising(seq), NEW r
  PROVE  /\ Remaining(seq, r) \in Seq(Regs) /\ Rising(Remaining(seq, r))
         /\ Elements(Remaining(seq, r)) = Elements(seq) \ {r}
<1>0. /\ Len(seq) \in Nat /\ DOMAIN seq = 1..Len(seq)
      /\ \A i \in 1..Len(seq) : seq[i] \in Regs
  BY LenProperties, ElementOfSeq
<1>1. CASE r \notin Elements(seq)
  BY <1>1 DEF Remaining
<1>2. CASE r \in Elements(seq)
  <2> DEFINE p == CHOOSE k \in DOMAIN seq : seq[k] = r
             a == SubSeq(seq, 1, p - 1)
             b == SubSeq(seq, p + 1, Len(seq))
             s == a \o b
  <2>1. p \in 1..Len(seq) /\ seq[p] = r
    BY <1>0, <1>2 DEF Elements
  <2>2. Remaining(seq, r) = s
    BY <1>2 DEF Remaining
  <2> HIDE DEF p
  <2>3. /\ a \in Seq(Regs) /\ Len(a) = p - 1
        /\ \A i \in 1..(p - 1) : a[i] = seq[i]
    BY <1>0, <2>1, SubSeqProperties
  <2>4. /\ b \in Seq(Regs) /\ Len(b) = Len(seq) - p
        /\ \A i \in 1..(Len(seq) - p) : b[i] = seq[i + p]
    <3>1. p + 1 \in 1..(Len(seq) + 1)
      BY <1>0, <2>1
    <3>2. b \in Seq(Regs)
      BY <1>0, <2>1, <3>1, SubSeqProperties
    <3>3. Len(b) = IF p + 1 <= Len(seq) THEN Len(seq) - (p + 1) + 1 ELSE 0
      BY <1>0, <2>1, <3>1, SubSeqProperties
    <3>4. \A i \in 1..(Len(seq) - (p + 1) + 1) : b[i] = seq[(p + 1) + i - 1]
      BY <1>0, <2>1, <3>1, SubSeqProperties
    <3> HIDE DEF b
    <3>5. Len(seq) - (p + 1) + 1 = Len(seq) - p
      BY <1>0, <2>1
    <3>6. Len(b) = Len(seq) - p
      <4>1. p \in Int /\ Len(seq) \in Int /\ p <= Len(seq)
        BY <1>0, <2>1
      <4>2. CASE p + 1 <= Len(seq)
        BY <3>3, <3>5, <4>2
      <4>3. CASE ~(p + 1 <= Len(seq))
        <5>1. Len(seq) - p = 0
          BY <4>1, <4>3
        <5> QED
          BY <3>3, <4>3, <5>1
      <4> QED
        BY <4>2, <4>3
    <3>7. ASSUME NEW i \in 1..(Len(seq) - p)
          PROVE  b[i] = seq[i + p]
      <4>1. (p + 1) + i - 1 = i + p
        BY <1>0, <2>1
      <4> QED
        BY <3>4, <3>5, <4>1
    <3> QED
      BY <3>2, <3>6, <3>7
  <2> HIDE DEF a, b
  <2>5. /\ s \in Seq(Regs) /\ Len(s) = Len(seq) - 1 /\ DOMAIN s = 1..(Len(seq) - 1)
        /\ \A i \in 1..(p - 1) : s[i] = seq[i]
        /\ \A i \in p..(Len(seq) - 1) : s[i] = seq[i + 1]
    <3>0. /\ s \in Seq(Regs) /\ Len(s) = Len(a) + Len(b)
          /\ \A i \in 1..(Len(a) + Len(b)) : s[i] = IF i <= Len(a) THEN a[i] ELSE b[i - Len(a)]
      BY <2>3, <2>4, ConcatProperties
    <3>1. /\ s \in Seq(Regs) /\ Len(s) = Len(a) + Len(b)
          /\ \A i \in 1..Len(a) : s[i] = a[i]
          /\ \A i \in 1..Len(b) : s[Len(a) + i] = b[i]
      <4> HIDE DEF s
      <4>1. Len(a) \in Nat /\ Len(b) \in Nat
        BY <1>0, <2>1, <2>3, <2>4
      <4>2. ASSUME NEW i \in 1..Len(b) PROVE s[Len(a) + i] = b[i]
        <5>1. Len(a) + i \in 1..(Len(a) + Len(b)) /\ ~(Len(a) + i <= Len(a))
              /\ (Len(a) + i) - Len(a) = i
          BY <4>1
        <5> QED
          BY <3>0, <5>1
      <4> QED
        BY <3>0, <4>1, <4>2
    <3>2. Len(s) = Len(seq) - 1
      BY <1>0, <2>1, <2>3, <2>4, <3>1
    <3>3. ASSUME NEW i \in p..(Len(seq) - 1)
          PROVE  s[i] = seq[i + 1]
      <4>1. i - (p - 1) \in 1..Len(b)
        BY <1>0, <2>1, <2>4
      <4>2. s[Len(a) + (i - (p - 1))] = b[i - (p - 1)]
        BY <3>1, <4>1
      <4>3. Len(a) + (i - (p - 1)) = i /\ (i - (p - 1)) + p = i + 1
        BY <1>0, <2>1, <2>3
      <4> QED
        BY <2>4, <4>1, <4>2, <4>3
    <3> QED
      BY <2>3, <3>1, <3>2, <3>3, LenProperties
  <2> HIDE DEF s
  <2>r. \A i, j \in 1..Len(seq) : i < j => seq[i] < seq[j] /\ seq[i] # seq[j]
    BY <1>0, BusAssumption, SMTT(30) DEF Rising, Regs
  <2>6. Rising(s)
    <3>1. ASSUME NEW i \in 1..(Len(seq) - 1), NEW j \in 1..(Len(seq) - 1), i < j
          PROVE  s[i] < s[j]
      <4>1. CASE j < p
        BY <1>0, <2>1, <2>5, <2>r, <3>1, <4>1
      <4>2. CASE i < p /\ j >= p
        BY <1>0, <2>1, <2>5, <2>r, <3>1, <4>2
      <4>3. CASE i >= p
        BY <1>0, <2>1, <2>5, <2>r, <3>1, <4>3
      <4> QED
        BY <1>0, <2>1, <3>1, <4>1, <4>2, <4>3
    <3> QED
      BY <2>5, <3>1 DEF Rising
  <2>7. Elements(s) = Elements(seq) \ {r}
    <3>1. ASSUME NEW i \in 1..(Len(seq) - 1)
          PROVE  s[i] \in Elements(seq) /\ s[i] # r
      <4>1. CASE i < p
        BY <1>0, <2>1, <2>5, <2>r, <4>1 DEF Elements
      <4>2. CASE i >= p
        BY <1>0, <2>1, <2>5, <2>r, <4>2 DEF Elements
      <4> QED
        BY <1>0, <2>1, <4>1, <4>2
    <3>2. ASSUME NEW i \in DOMAIN seq, seq[i] # r
          PROVE  seq[i] \in Elements(s)
      <4>1. CASE i < p
        BY <1>0, <2>1, <2>5, <4>1 DEF Elements
      <4>2. CASE i > p
        <5>1. i - 1 \in p..(Len(seq) - 1) /\ s[i - 1] = seq[i]
          BY <1>0, <2>1, <2>5, <4>2
        <5> QED
          BY <1>0, <2>1, <2>5, <5>1 DEF Elements
      <4> QED
        BY <1>0, <2>1, <3>2, <4>1, <4>2
    <3> QED
      BY <2>5, <3>1, <3>2 DEF Elements
  <2> QED
    BY <2>2, <2>5, <2>6, <2>7
<1> QED
  BY <1>1, <1>2

-----------------------------------------------------------------------------
(* The invariant.  The tables hold registrations in order of subscription; *)
(* what an event's walk has delivered and has left is its audience.        *)
HandlersInv ==
    \A t \in EventTypes :
        Rising(handlers[t]) /\ \A x \in Elements(handlers[t]) : x <= issued

Walk(f, p, h, a) ==
    /\ f.event <= p
    /\ Rising(f.left)
    /\ \A x \in Elements(h[f.event]), y \in Elements(f.left) : x < y
    /\ Elements(h[f.event]) \cup Elements(f.left) = a[f.event]

(* Each event has one walk.                                                *)
StackInv ==
    /\ \A th \in Threads : \A i \in DOMAIN stack[th] :
          Walk(stack[th][i], published, heard, audience)
    /\ \A th, x \in Threads : \A i \in DOMAIN stack[th], j \in DOMAIN stack[x] :
          stack[th][i].event = stack[x][j].event => th = x /\ i = j

HeardInv ==
    \A e \in Events :
        /\ Rising(heard[e])
        /\ e > published => heard[e] = <<>>
        /\ ~InProgress(e) => Elements(heard[e]) = audience[e]

LeaveInv ==
    \A th \in Threads :
        leaving[th] # 0 /\ leaving[th] \notin clashed =>
            /\ \E t \in EventTypes : leaving[th] \in Elements(handlers[t])
            /\ \A x \in Threads \ {th} : leaving[x] # leaving[th]

BusInv == TypeOK /\ HandlersInv /\ StackInv /\ HeardInv /\ LeaveInv

LEMMA ElementsType ==
  ASSUME NEW seq \in Seq(Regs)
  PROVE  /\ Elements(seq) \subseteq Regs
         /\ DOMAIN seq = 1..Len(seq) /\ Len(seq) \in Nat
BY LenProperties, ElementOfSeq DEF Elements

LEMMA FrameTypes ==
  ASSUME TypeOK, NEW th \in Threads
  PROVE  /\ stack[th] \in Seq(Frame) /\ Len(stack[th]) \in Nat
         /\ DOMAIN stack[th] = 1..Len(stack[th])
         /\ \A i \in DOMAIN stack[th] : stack[th][i] \in Frame
         /\ stack[th] # <<>> => Len(stack[th]) \in DOMAIN stack[th] /\ Top(th) \in Frame
<1>1. stack[th] \in Seq(Frame)
  BY DEF TypeOK
<1> HIDE DEF Frame
<1>2. /\ Len(stack[th]) \in Nat /\ DOMAIN stack[th] = 1..Len(stack[th])
      /\ \A i \in DOMAIN stack[th] : stack[th][i] \in Frame
      /\ stack[th] # <<>> => Len(stack[th]) # 0
  BY <1>1, LenProperties, ElementOfSeq, EmptySeq
<1> QED
  BY <1>1, <1>2 DEF Top

(* The three things a step does to a stack.                                *)
LEMMA PushType ==
  ASSUME TypeOK, NEW th \in Threads, NEW f \in Frame,
         stack' = [stack EXCEPT ![th] = Append(@, f)]
  PROVE  /\ stack' \in [Threads -> Seq(Frame)]
         /\ \A x \in Threads \ {th} : stack'[x] = stack[x]
         /\ DOMAIN stack'[th] = 1..(Len(stack[th]) + 1)
         /\ stack'[th][Len(stack[th]) + 1] = f
         /\ \A i \in DOMAIN stack[th] : stack'[th][i] = stack[th][i]
<1> HIDE DEF Frame
<1>1. /\ Append(stack[th], f) \in Seq(Frame)
      /\ DOMAIN Append(stack[th], f) = 1..(Len(stack[th]) + 1)
      /\ Append(stack[th], f)[Len(stack[th]) + 1] = f
      /\ \A i \in DOMAIN stack[th] : Append(stack[th], f)[i] = stack[th][i]
  BY FrameTypes, AppendProperties, LenProperties
<1>2. stack \in [Threads -> Seq(Frame)]
  BY DEF TypeOK
<1> QED
  BY <1>1, <1>2

LEMMA SetTopType ==
  ASSUME TypeOK, NEW th \in Threads, stack[th] # <<>>, NEW f \in Frame, SetTop(th, f)
  PROVE  /\ stack' \in [Threads -> Seq(Frame)]
         /\ \A x \in Threads \ {th} : stack'[x] = stack[x]
         /\ DOMAIN stack'[th] = DOMAIN stack[th]
         /\ stack'[th][Len(stack[th])] = f
         /\ \A i \in DOMAIN stack[th] \ {Len(stack[th])} : stack'[th][i] = stack[th][i]
<1> HIDE DEF Frame
<1>1. stack[th] \in Seq(Frame) /\ Len(stack[th]) \in DOMAIN stack[th]
  BY FrameTypes
<1> DEFINE n == Len(stack[th])
           s == [stack[th] EXCEPT ![n] = f]
<1>2. s \in Seq(Frame)
  BY <1>1, FrameTypes, ExceptSeq
<1>3. DOMAIN s = DOMAIN stack[th] /\ s[n] = f
      /\ \A i \in DOMAIN stack[th] \ {n} : s[i] = stack[th][i]
  BY <1>1
<1>4. stack \in [Threads -> Seq(Frame)] /\ stack' = [stack EXCEPT ![th] = s]
  BY DEF TypeOK, SetTop
<1> HIDE DEF s
<1> QED
  BY <1>2, <1>3, <1>4

LEMMA PopType ==
  ASSUME TypeOK, NEW th \in Threads, stack[th] # <<>>, Pop(th)
  PROVE  /\ stack' \in [Threads -> Seq(Frame)]
         /\ \A x \in Threads \ {th} : stack'[x] = stack[x]
         /\ DOMAIN stack'[th] = 1..(Len(stack[th]) - 1)
         /\ \A i \in DOMAIN stack'[th] : i \in DOMAIN stack[th] /\ stack'[th][i] = stack[th][i]
<1> HIDE DEF Frame
<1>1. /\ stack[th] \in Seq(Frame) /\ Len(stack[th]) \in Nat \ {0}
      /\ DOMAIN stack[th] = 1..Len(stack[th])
      /\ \A i \in 1..(Len(stack[th]) - 1) : stack[th][i] \in Frame
  BY FrameTypes
<1> DEFINE s == SubSeq(stack[th], 1, Len(stack[th]) - 1)
<1>2. s \in Seq(Frame) /\ Len(s) = Len(stack[th]) - 1
      /\ \A i \in 1..(Len(stack[th]) - 1) : s[i] = stack[th][i]
  BY <1>1, SubSeqProperties
<1>3. stack \in [Threads -> Seq(Frame)] /\ stack' = [stack EXCEPT ![th] = s]
  BY DEF TypeOK, Pop
<1> HIDE DEF s
<1>4. DOMAIN s = 1..(Len(stack[th]) - 1)
  BY <1>2, LenProperties
<1> QED
  BY <1>1, <1>2, <1>3, <1>4

-----------------------------------------------------------------------------
LEMMA WalksKeep ==
  ASSUME StackInv, HeardInv, UNCHANGED <<published, stack, audience, heard>>
  PROVE  StackInv' /\ HeardInv'
<1>2. StackInv'
  BY DEF StackInv
<1>3. HeardInv'
  BY DEF HeardInv, InProgress
<1> QED
  BY <1>2, <1>3

LEMMA TablesKeep ==
  ASSUME HandlersInv, LeaveInv, UNCHANGED <<handlers, issued, leaving, clashed>>
  PROVE  HandlersInv' /\ LeaveInv'
BY DEF HandlersInv, LeaveInv

LEMMA SubscribeKeeps ==
  ASSUME BusInv, NEW th \in Threads, NEW t \in EventTypes, Subscribe(th, t)
  PROVE  BusInv'
<1> DEFINE r == issued + 1
<1>1. /\ issued < MaxRegs /\ issued' = r
      /\ handlers' = [handlers EXCEPT ![t] = Append(@, r)]
      /\ UNCHANGED <<published, stack, leaving, audience, heard, clashed>>
  BY DEF Subscribe
<1>2. r \in Regs /\ issued \in Nat /\ issued' \in 0..MaxRegs /\ handlers[t] \in Seq(Regs)
  BY <1>1, BusAssumption DEF BusInv, TypeOK, Regs
<1>3. \A u \in EventTypes : \A x \in Elements(handlers[u]) : x < r /\ x <= r
  <2>1. ASSUME NEW u \in EventTypes, NEW x \in Elements(handlers[u])
        PROVE  x < r /\ x <= r
    <3>1. handlers[u] \in Seq(Regs)
      BY DEF BusInv, TypeOK
    <3>2. x \in Nat
      BY <3>1, ElementsType DEF Regs
    <3>3. x <= issued
      BY DEF BusInv, HandlersInv
    <3> QED
      BY <1>2, <3>2, <3>3
  <2> QED
    BY <2>1
<1> DEFINE s == Append(handlers[t], r)
<1>4. /\ s \in Seq(Regs) /\ Rising(s) /\ Elements(s) = Elements(handlers[t]) \cup {r}
  BY <1>2, <1>3, AppendRising DEF BusInv, HandlersInv
<1> HIDE DEF s
<1>5. /\ handlers' \in [EventTypes -> Seq(Regs)] /\ handlers'[t] = s
      /\ \A u \in EventTypes \ {t} : handlers'[u] = handlers[u]
  <2>1. handlers \in [EventTypes -> Seq(Regs)] /\ handlers' = [handlers EXCEPT ![t] = s]
    BY <1>1 DEF BusInv, TypeOK, s
  <2> QED
    BY <1>4, <2>1
<1>6. TypeOK'
  BY <1>1, <1>2, <1>5 DEF BusInv, TypeOK
<1>7. HandlersInv'
  <2>1. \A u \in EventTypes : \A x \in Elements(handlers'[u]) : x <= issued'
    <3>1. ASSUME NEW u \in EventTypes, NEW x \in Elements(handlers'[u])
          PROVE  x <= r
      <4> HIDE DEF Elements
      <4>1. CASE u = t /\ x = r
        BY <1>2, <4>1
      <4>2. CASE x \in Elements(handlers[u])
        BY <1>3, <4>2
      <4> QED
        BY <1>4, <1>5, <3>1, <4>1, <4>2
    <3> HIDE DEF Elements
    <3> QED
      BY <1>1, <3>1
  <2>2. \A u \in EventTypes : Rising(handlers'[u])
    BY <1>4, <1>5 DEF BusInv, HandlersInv
  <2> QED
    BY <2>1, <2>2 DEF HandlersInv, Elements
<1>8. LeaveInv'
  <2>1. \A u \in EventTypes : Elements(handlers[u]) \subseteq Elements(handlers'[u])
    BY <1>4, <1>5
  <2> HIDE DEF Elements
  <2> QED
    BY <1>1, <2>1 DEF BusInv, LeaveInv, Elements
<1>9. StackInv' /\ HeardInv'
  BY <1>1, WalksKeep DEF BusInv
<1> QED
  BY <1>6, <1>7, <1>8, <1>9 DEF BusInv

LEMMA UnsubscribeChecksKeeps ==
  ASSUME BusInv, NEW th \in Threads, NEW r \in Regs, UnsubscribeChecks(th, r)
  PROVE  BusInv'
<1>1. /\ \E t \in EventTypes : r \in Elements(handlers[t])
      /\ leaving' = [leaving EXCEPT ![th] = r]
      /\ clashed' = IF \E x \in Threads : leaving[x] = r THEN clashed \cup {r} ELSE clashed
      /\ UNCHANGED <<handlers, issued, published, stack, audience, heard>>
      /\ leaving[th] = 0
  BY DEF UnsubscribeChecks, Calling
<1>2. r \in 1..MaxRegs
  BY DEF Regs
<1>3. TypeOK'
  <2>1. leaving' \in [Threads -> 0..MaxRegs]
    BY <1>1, <1>2, BusAssumption DEF BusInv, TypeOK
  <2>2. clashed' \in SUBSET Regs
    BY <1>1 DEF BusInv, TypeOK
  <2> QED
    BY <1>1, <2>1, <2>2 DEF BusInv, TypeOK
<1>4. HandlersInv' /\ StackInv' /\ HeardInv'
  <2>1. HandlersInv'
    BY <1>1 DEF BusInv, HandlersInv
  <2> QED
    BY <1>1, <2>1, WalksKeep DEF BusInv
<1>5. LeaveInv'
  <2>1. leaving'[th] = r /\ \A x \in Threads \ {th} : leaving'[x] = leaving[x]
    BY <1>1 DEF BusInv, TypeOK
  <2>2. \A u \in EventTypes : Elements(handlers'[u]) = Elements(handlers[u])
    BY <1>1
  <2>3. clashed \subseteq clashed' /\ (r \notin clashed' => \A x \in Threads : leaving[x] # r)
    BY <1>1
  <2>4. ASSUME NEW x \in Threads, leaving'[x] # 0, leaving'[x] \notin clashed'
        PROVE  /\ \E t \in EventTypes : leaving'[x] \in Elements(handlers[t])
               /\ \A y \in Threads \ {x} : leaving'[y] # leaving'[x]
    <3>1. CASE x = th
      BY <1>1, <2>1, <2>3, <2>4, <3>1
    <3>2. CASE x # th
      <4>1. leaving[x] = leaving'[x] /\ leaving[x] \notin clashed /\ leaving[x] # r
        BY <2>1, <2>3, <2>4, <3>2
      <4>2. /\ \E t \in EventTypes : leaving[x] \in Elements(handlers[t])
            /\ \A y \in Threads \ {x} : leaving[y] # leaving[x]
        BY <2>4, <4>1 DEF BusInv, LeaveInv
      <4> QED
        BY <2>1, <4>1, <4>2
    <3> QED
      BY <3>1, <3>2
  <2> HIDE DEF Elements
  <2> QED
    BY <1>1, <2>4 DEF LeaveInv
<1> QED
  BY <1>3, <1>4, <1>5 DEF BusInv

LEMMA UnsubscribeDeletesKeeps ==
  ASSUME BusInv, NEW th \in Threads, UnsubscribeDeletes(th)
  PROVE  BusInv'
<1>0. PICK r : r = leaving[th]
  OBVIOUS
<1>1. /\ r # 0
      /\ handlers' = [t \in EventTypes |-> Remaining(handlers[t], r)]
      /\ leaving' = [leaving EXCEPT ![th] = 0]
      /\ UNCHANGED <<issued, published, stack, audience, heard, clashed>>
  BY <1>0 DEF UnsubscribeDeletes
<1>2. \A t \in EventTypes :
        /\ handlers'[t] \in Seq(Regs) /\ Rising(handlers'[t])
        /\ Elements(handlers'[t]) = Elements(handlers[t]) \ {r}
  BY <1>1, RemainingRising DEF BusInv, TypeOK, HandlersInv
<1>3. TypeOK'
  <2>1. handlers' \in [EventTypes -> Seq(Regs)]
    BY <1>1, <1>2
  <2>2. leaving' \in [Threads -> 0..MaxRegs]
    BY <1>1, BusAssumption DEF BusInv, TypeOK
  <2> QED
    BY <1>1, <2>1, <2>2 DEF BusInv, TypeOK
<1>4. HandlersInv'
  <2>1. \A t \in EventTypes : \A x \in Elements(handlers'[t]) : x <= issued'
    BY <1>1, <1>2 DEF BusInv, HandlersInv
  <2> QED
    BY <1>2, <2>1 DEF HandlersInv, Elements
<1>5. StackInv' /\ HeardInv'
  BY <1>1, WalksKeep DEF BusInv
<1>6. LeaveInv'
  <2>1. leaving'[th] = 0 /\ \A x \in Threads \ {th} : leaving'[x] = leaving[x]
    BY <1>1 DEF BusInv, TypeOK
  <2>2. ASSUME NEW x \in Threads, leaving'[x] # 0, leaving'[x] \notin clashed
        PROVE  /\ \E t \in EventTypes : leaving'[x] \in Elements(handlers'[t])
               /\ \A y \in Threads \ {x} : leaving'[y] # leaving'[x]
    <3>1. x # th /\ leaving'[x] = leaving[x]
      BY <2>1, <2>2
    <3>2. /\ \E t \in EventTypes : leaving[x] \in Elements(handlers[t])
          /\ \A y \in Threads \ {x} : leaving[y] # leaving[x]
      BY <2>2, <3>1 DEF BusInv, LeaveInv
    <3>3. leaving[x] # r
      BY <1>0, <3>1, <3>2
    <3> QED
      BY <1>2, <2>1, <2>2, <3>1, <3>2, <3>3
  <2> HIDE DEF Elements
  <2> QED
    BY <1>1, <2>2 DEF LeaveInv, Elements
<1> QED
  BY <1>3, <1>4, <1>5, <1>6 DEF BusInv

LEMMA PublishKeeps ==
  ASSUME BusInv, NEW th \in Threads, NEW t \in EventTypes, Publish(th, t)
  PROVE  BusInv'
<1>0. PICK e : e = published + 1
  OBVIOUS
<1>f. PICK f : f = [event |-> e, left |-> handlers[t], busy |-> FALSE]
  OBVIOUS
<1>1. /\ published < MaxEvents /\ published' = e
      /\ stack' = [stack EXCEPT ![th] = Append(@, f)]
      /\ audience' = [audience EXCEPT ![e] = Elements(handlers[t])]
      /\ UNCHANGED <<handlers, issued, leaving, heard, clashed>>
  BY <1>0, <1>f DEF Publish
<1>2. /\ e \in Events /\ published \in Nat /\ e \in 0..MaxEvents /\ e > published
      /\ handlers[t] \in Seq(Regs) /\ Rising(handlers[t])
  BY <1>0, <1>1, BusAssumption DEF BusInv, TypeOK, Events, HandlersInv
<1>3. f \in Frame /\ f.event = e /\ f.left = handlers[t]
  BY <1>2, <1>f DEF Frame
<1>4. /\ stack' \in [Threads -> Seq(Frame)]
      /\ \A x \in Threads \ {th} : stack'[x] = stack[x]
      /\ DOMAIN stack'[th] = 1..(Len(stack[th]) + 1)
      /\ stack'[th][Len(stack[th]) + 1] = f
      /\ \A i \in DOMAIN stack[th] : stack'[th][i] = stack[th][i]
      /\ Len(stack[th]) \in Nat /\ DOMAIN stack[th] = 1..Len(stack[th])
  BY <1>1, <1>3, PushType, FrameTypes DEF BusInv
<1>5. /\ heard[e] = <<>> /\ Elements(heard[e]) = {}
  <2>1. heard[e] = <<>>
    BY <1>2 DEF BusInv, HeardInv
  <2> QED
    BY <2>1, EmptySeq, LenProperties DEF Elements
<1>6. audience' \in [Events -> SUBSET Regs] /\ audience'[e] = Elements(handlers[t])
      /\ \A x \in Events \ {e} : audience'[x] = audience[x]
  BY <1>1, <1>2, ElementsType DEF BusInv, TypeOK
<1>7. TypeOK'
  BY <1>1, <1>2, <1>4, <1>6 DEF BusInv, TypeOK
<1>8. HandlersInv' /\ LeaveInv'
  BY <1>1, TablesKeep DEF BusInv
<1>9. \A x \in Threads : \A i \in DOMAIN stack'[x] :
        \/ x = th /\ i = Len(stack[th]) + 1 /\ stack'[x][i] = f
        \/ i \in DOMAIN stack[x] /\ stack'[x][i] = stack[x][i]
  BY <1>4
<1>10. \A x \in Threads : \A i \in DOMAIN stack[x] :
         /\ stack[x][i] \in Frame /\ stack[x][i].event \in Events
         /\ stack[x][i].event <= published /\ stack[x][i].event # e
         /\ Walk(stack[x][i], published, heard, audience)
  <2>1. ASSUME NEW x \in Threads, NEW i \in DOMAIN stack[x]
        PROVE  stack[x][i] \in Frame /\ Walk(stack[x][i], published, heard, audience)
    BY FrameTypes DEF BusInv, StackInv
  <2>2. \A g \in Frame : g.event \in Events
    BY DEF Frame
  <2> HIDE DEF Frame
  <2>3. \A n \in Events : n <= published => n # e
    BY <1>0, <1>2 DEF Events
  <2>4. \A g : Walk(g, published, heard, audience) => g.event <= published
    BY DEF Walk
  <2> QED
    BY <2>1, <2>2, <2>3, <2>4
<1>11. StackInv'
  <2>1. Walk(f, published', heard', audience')
    BY <1>1, <1>2, <1>3, <1>5, <1>6 DEF Walk
  <2>2. ASSUME NEW x \in Threads, NEW i \in DOMAIN stack'[x]
        PROVE  Walk(stack'[x][i], published', heard', audience')
    <3>1. CASE stack'[x][i] = f
      BY <2>1, <3>1
    <3>2. CASE i \in DOMAIN stack[x] /\ stack'[x][i] = stack[x][i]
      <4>1. PICK g : g = stack[x][i]
        OBVIOUS
      <4>2. Walk(g, published, heard, audience) /\ g.event \in Events \ {e}
        BY <1>10, <3>2, <4>1
      <4>3. g.event <= published'
        BY <1>0, <1>1, <1>10, <1>2, <3>2, <4>1, <4>2 DEF Events
      <4>4. audience'[g.event] = audience[g.event] /\ heard' = heard
        BY <1>1, <1>6, <4>2
      <4> HIDE DEF Elements, Rising
      <4>5. Walk(g, published', heard', audience')
        BY <4>2, <4>3, <4>4 DEF Walk
      <4> QED
        BY <3>2, <4>1, <4>5
    <3> QED
      BY <1>9, <3>1, <3>2
  <2>3. ASSUME NEW x \in Threads, NEW y \in Threads,
               NEW i \in DOMAIN stack'[x], NEW j \in DOMAIN stack'[y],
               stack'[x][i].event = stack'[y][j].event
        PROVE  x = y /\ i = j
    BY <1>3, <1>9, <1>10, <2>3 DEF BusInv, StackInv
  <2> QED
    BY <2>2, <2>3 DEF StackInv
<1>12. HeardInv'
  <2>1. ASSUME NEW x \in Events
        PROVE  /\ Rising(heard[x])
               /\ x > published' => heard[x] = <<>>
               /\ ~InProgress(x)' => Elements(heard[x]) = audience'[x]
    <3>1. Rising(heard[x]) /\ (x > published' => heard[x] = <<>>)
      BY <1>0, <1>1, <1>2 DEF BusInv, HeardInv, Events
    <3>2. CASE x = e
      <4>1. InProgress(e)'
        <5>1. Len(stack[th]) + 1 \in DOMAIN stack'[th]
          BY <1>4, SMTT(30)
        <5> QED
          BY <1>3, <1>4, <5>1 DEF InProgress
      <4> QED
        BY <3>1, <3>2, <4>1
    <3>3. CASE x # e
      <4>1. InProgress(x) => InProgress(x)'
        <5>1. ASSUME NEW y \in Threads, NEW i \in DOMAIN stack[y], stack[y][i].event = x
              PROVE  i \in DOMAIN stack'[y] /\ stack'[y][i].event = x
          <6>1. CASE y = th
            <7>1. i \in DOMAIN stack'[th]
              BY <1>4, <5>1, <6>1
            <7>2. stack'[th][i] = stack[th][i]
              BY <1>4, <5>1, <6>1
            <7> QED
              BY <5>1, <6>1, <7>1, <7>2
          <6>2. CASE y # th
            <7>1. stack'[y] = stack[y]
              BY <1>4, <6>2
            <7> QED
              BY <5>1, <7>1
          <6> QED
            BY <6>1, <6>2
        <5> QED
          BY <5>1 DEF InProgress
      <4>2. ~InProgress(x)' => Elements(heard[x]) = audience[x]
        BY <4>1 DEF BusInv, HeardInv
      <4> QED
        BY <1>6, <3>1, <3>3, <4>2
    <3> QED
      BY <3>2, <3>3
  <2> HIDE DEF Elements, Rising
  <2> QED
    BY <1>1, <2>1 DEF HeardInv
<1> QED
  BY <1>7, <1>8, <1>11, <1>12 DEF BusInv

-----------------------------------------------------------------------------
(* A step inside a walk leaves every event where it was.                   *)
LEMMA RetopShape ==
  ASSUME TypeOK, NEW th \in Threads, stack[th] # <<>>,
         NEW f \in Frame, f.event = Top(th).event, SetTop(th, f)
  PROVE  /\ stack' \in [Threads -> Seq(Frame)]
         /\ \A x \in Threads :
              /\ DOMAIN stack'[x] = DOMAIN stack[x]
              /\ \A i \in DOMAIN stack[x] :
                   /\ stack'[x][i].event = stack[x][i].event
                   /\ \/ x = th /\ i = Len(stack[th]) /\ stack'[x][i] = f
                      \/ (x # th \/ i # Len(stack[th])) /\ stack'[x][i] = stack[x][i]
<1>1. /\ stack' \in [Threads -> Seq(Frame)]
      /\ \A x \in Threads \ {th} : stack'[x] = stack[x]
      /\ DOMAIN stack'[th] = DOMAIN stack[th]
      /\ stack'[th][Len(stack[th])] = f
      /\ \A i \in DOMAIN stack[th] \ {Len(stack[th])} : stack'[th][i] = stack[th][i]
  BY SetTopType
<1>2. f.event = stack[th][Len(stack[th])].event
  BY DEF Top
<1> HIDE DEF Frame
<1> QED
  BY <1>1, <1>2

LEMMA RetopKeeps ==
  ASSUME NEW s0, NEW s1,
         \A x \in Threads : /\ DOMAIN s1[x] = DOMAIN s0[x]
                            /\ \A i \in DOMAIN s0[x] : s1[x][i].event = s0[x][i].event
  PROVE  /\ (\A th, x \in Threads : \A i \in DOMAIN s0[th], j \in DOMAIN s0[x] :
                s0[th][i].event = s0[x][j].event => th = x /\ i = j)
            => (\A th, x \in Threads : \A i \in DOMAIN s1[th], j \in DOMAIN s1[x] :
                  s1[th][i].event = s1[x][j].event => th = x /\ i = j)
         /\ \A e : (\E th \in Threads : \E i \in DOMAIN s0[th] : s0[th][i].event = e)
                      <=> (\E th \in Threads : \E i \in DOMAIN s1[th] : s1[th][i].event = e)
OBVIOUS

LEMMA DeliverKeeps ==
  ASSUME BusInv, NEW th \in Threads, Deliver(th)
  PROVE  BusInv'
<1>1. PICK f : f = Top(th)
  OBVIOUS
<1>2. PICK r : r = Head(f.left)
  OBVIOUS
<1>3. PICK g : g = [f EXCEPT !.left = Tail(@), !.busy = TRUE]
  OBVIOUS
<1>4. PICK e : e = f.event
  OBVIOUS
<1>5. /\ stack[th] # <<>> /\ f.left # <<>>
      /\ heard' = [heard EXCEPT ![e] = Append(@, r)]
      /\ SetTop(th, g)
      /\ UNCHANGED <<handlers, issued, published, leaving, audience, clashed>>
  BY <1>1, <1>2, <1>3, <1>4 DEF Deliver, InLoop
<1>6. /\ f \in Frame /\ Len(stack[th]) \in DOMAIN stack[th] /\ f = stack[th][Len(stack[th])]
  BY <1>1, <1>5, FrameTypes DEF BusInv, Top
<1>7. /\ e \in Events /\ f.left \in Seq(Regs) /\ heard[e] \in Seq(Regs)
      /\ Rising(f.left) /\ Rising(heard[e]) /\ e <= published
      /\ \A x \in Elements(heard[e]), y \in Elements(f.left) : x < y
      /\ Elements(heard[e]) \cup Elements(f.left) = audience[e]
  <2>1. Walk(f, published, heard, audience)
    BY <1>6 DEF BusInv, StackInv
  <2>2. e \in Events /\ f.left \in Seq(Regs)
    BY <1>4, <1>6 DEF Frame
  <2>3. heard[e] \in Seq(Regs) /\ Rising(heard[e])
    BY <2>2 DEF BusInv, TypeOK, HeardInv
  <2> HIDE DEF Elements, Rising
  <2> QED
    BY <1>4, <2>1, <2>2, <2>3 DEF Walk
<1>8. /\ r \in Regs /\ Tail(f.left) \in Seq(Regs) /\ Rising(Tail(f.left))
      /\ Elements(f.left) = {r} \cup Elements(Tail(f.left))
      /\ \A y \in Elements(Tail(f.left)) : r < y
  BY <1>2, <1>5, <1>7, TailRising
<1>9. /\ Append(heard[e], r) \in Seq(Regs) /\ Rising(Append(heard[e], r))
      /\ Elements(Append(heard[e], r)) = Elements(heard[e]) \cup {r}
  <2>1. \A x \in Elements(heard[e]) : x < r
    BY <1>7, <1>8
  <2> QED
    BY <1>7, <1>8, <2>1, AppendRising
<1>10. /\ g \in Frame /\ g.event = e /\ g.left = Tail(f.left)
  BY <1>3, <1>4, <1>6, <1>8 DEF Frame
<1>11. /\ stack' \in [Threads -> Seq(Frame)]
       /\ \A x \in Threads :
            /\ DOMAIN stack'[x] = DOMAIN stack[x]
            /\ \A i \in DOMAIN stack[x] :
                 /\ stack'[x][i].event = stack[x][i].event
                 /\ \/ x = th /\ i = Len(stack[th]) /\ stack'[x][i] = g
                    \/ (x # th \/ i # Len(stack[th])) /\ stack'[x][i] = stack[x][i]
  <2>1. g.event = Top(th).event
    BY <1>1, <1>4, <1>10
  <2> QED
    BY <1>5, <1>10, <2>1, RetopShape DEF BusInv
<1>12. /\ heard' \in [Events -> Seq(Regs)] /\ heard'[e] = Append(heard[e], r)
       /\ \A x \in Events \ {e} : heard'[x] = heard[x]
  BY <1>5, <1>7, <1>9 DEF BusInv, TypeOK
<1>13. TypeOK'
  BY <1>5, <1>11, <1>12 DEF BusInv, TypeOK
<1>14. HandlersInv' /\ LeaveInv'
  BY <1>5, TablesKeep DEF BusInv
<1>15. StackInv'
  <2>1. Walk(g, published', heard', audience')
    <3>1. \A x \in Elements(Append(heard[e], r)), y \in Elements(Tail(f.left)) : x < y
      BY <1>7, <1>8, <1>9
    <3>2. Elements(Append(heard[e], r)) \cup Elements(Tail(f.left)) = audience[e]
      BY <1>7, <1>8, <1>9
    <3>3. published' = published /\ audience' = audience
      BY <1>5
    <3> HIDE DEF Elements, Rising
    <3> QED
      BY <1>7, <1>8, <1>10, <1>12, <3>1, <3>2, <3>3 DEF Walk
  <2>2. ASSUME NEW x \in Threads, NEW i \in DOMAIN stack'[x]
        PROVE  Walk(stack'[x][i], published', heard', audience')
    <3>1. i \in DOMAIN stack[x]
      BY <1>11
    <3>2. CASE x = th /\ i = Len(stack[th]) /\ stack'[x][i] = g
      BY <2>1, <3>2
    <3>3. CASE (x # th \/ i # Len(stack[th])) /\ stack'[x][i] = stack[x][i]
      <4>1. Walk(stack[x][i], published, heard, audience)
        BY <3>1 DEF BusInv, StackInv
      <4>2. stack[x][i].event # e
        BY <1>4, <1>6, <3>1, <3>3 DEF BusInv, StackInv
      <4>3. stack[x][i].event \in Events
        <5>1. stack[x][i] \in Frame
          BY <3>1, FrameTypes DEF BusInv
        <5> QED
          BY <5>1 DEF Frame
      <4>4. heard'[stack[x][i].event] = heard[stack[x][i].event]
        BY <1>12, <4>2, <4>3
      <4>5. published' = published /\ audience' = audience
        BY <1>5
      <4> HIDE DEF Elements, Rising
      <4> QED
        BY <3>3, <4>1, <4>4, <4>5 DEF Walk
    <3> QED
      BY <1>11, <3>1, <3>2, <3>3
  <2>3. \A y, x \in Threads : \A i \in DOMAIN stack'[y], j \in DOMAIN stack'[x] :
          stack'[y][i].event = stack'[x][j].event => y = x /\ i = j
    BY <1>11 DEF BusInv, StackInv
  <2> QED
    BY <2>2, <2>3 DEF StackInv
<1>16. HeardInv'
  <2>1. \A x : InProgress(x)' <=> InProgress(x)
    BY <1>11 DEF InProgress
  <2>2. InProgress(e)
    BY <1>4, <1>6 DEF InProgress
  <2>3. ASSUME NEW x \in Events
        PROVE  /\ Rising(heard'[x])
               /\ x > published => heard'[x] = <<>>
               /\ ~InProgress(x) => Elements(heard'[x]) = audience[x]
    <3>1. CASE x = e
      <4>1. ~(e > published)
        BY <1>7, BusAssumption DEF BusInv, TypeOK, Events
      <4> QED
        BY <1>9, <1>12, <2>2, <3>1, <4>1
    <3>2. CASE x # e
      BY <1>12, <3>2 DEF BusInv, HeardInv
    <3> QED
      BY <3>1, <3>2
  <2>4. published' = published /\ audience' = audience
    BY <1>5
  <2> HIDE DEF Elements, Rising
  <2> QED
    BY <2>1, <2>3, <2>4 DEF HeardInv
<1> QED
  BY <1>13, <1>14, <1>15, <1>16 DEF BusInv

LEMMA HandlerReturnsKeeps ==
  ASSUME BusInv, NEW th \in Threads, HandlerReturns(th)
  PROVE  BusInv'
<1>1. PICK f : f = Top(th)
  OBVIOUS
<1>2. PICK g : g = [f EXCEPT !.busy = FALSE]
  OBVIOUS
<1>3. /\ stack[th] # <<>> /\ SetTop(th, g)
      /\ UNCHANGED <<handlers, issued, published, leaving, audience, heard, clashed>>
  BY <1>1, <1>2 DEF HandlerReturns, InHandler
<1>4. /\ f \in Frame /\ Len(stack[th]) \in DOMAIN stack[th] /\ f = stack[th][Len(stack[th])]
  BY <1>1, <1>3, FrameTypes DEF BusInv, Top
<1>5. g \in Frame /\ g.event = f.event /\ g.left = f.left
  BY <1>2, <1>4 DEF Frame
<1>6. /\ stack' \in [Threads -> Seq(Frame)]
      /\ \A x \in Threads :
           /\ DOMAIN stack'[x] = DOMAIN stack[x]
           /\ \A i \in DOMAIN stack[x] :
                /\ stack'[x][i].event = stack[x][i].event
                /\ \/ x = th /\ i = Len(stack[th]) /\ stack'[x][i] = g
                   \/ (x # th \/ i # Len(stack[th])) /\ stack'[x][i] = stack[x][i]
  BY <1>1, <1>3, <1>5, RetopShape DEF BusInv
<1>7. TypeOK'
  BY <1>3, <1>6 DEF BusInv, TypeOK
<1>8. HandlersInv' /\ LeaveInv'
  BY <1>3, TablesKeep DEF BusInv
<1>9. StackInv'
  <2>1. ASSUME NEW x \in Threads, NEW i \in DOMAIN stack'[x]
        PROVE  Walk(stack'[x][i], published, heard, audience)
    <3>1. i \in DOMAIN stack[x] /\ Walk(stack[x][i], published, heard, audience)
      BY <1>6 DEF BusInv, StackInv
    <3>2. stack'[x][i].event = stack[x][i].event /\ stack'[x][i].left = stack[x][i].left
      BY <1>4, <1>5, <1>6, <3>1
    <3> HIDE DEF Elements, Rising
    <3> QED
      BY <3>1, <3>2 DEF Walk
  <2>2. \A y, x \in Threads : \A i \in DOMAIN stack'[y], j \in DOMAIN stack'[x] :
          stack'[y][i].event = stack'[x][j].event => y = x /\ i = j
    BY <1>6 DEF BusInv, StackInv
  <2>3. published' = published /\ heard' = heard /\ audience' = audience
    BY <1>3
  <2> QED
    BY <2>1, <2>2, <2>3 DEF StackInv
<1>10. HeardInv'
  <2>1. \A x : InProgress(x)' <=> InProgress(x)
    BY <1>6 DEF InProgress
  <2>2. published' = published /\ heard' = heard /\ audience' = audience
    BY <1>3
  <2> HIDE DEF Elements, Rising
  <2> QED
    BY <2>1, <2>2 DEF BusInv, HeardInv
<1> QED
  BY <1>7, <1>8, <1>9, <1>10 DEF BusInv

LEMMA PublishReturnsKeeps ==
  ASSUME BusInv, NEW th \in Threads, PublishReturns(th)
  PROVE  BusInv'
<1>1. PICK f : f = Top(th)
  OBVIOUS
<1>2. /\ stack[th] # <<>> /\ f.left = <<>> /\ Pop(th)
      /\ UNCHANGED <<handlers, issued, published, leaving, audience, heard, clashed>>
  BY <1>1 DEF PublishReturns, InLoop
<1>3. /\ Len(stack[th]) \in Nat /\ Len(stack[th]) \in DOMAIN stack[th]
      /\ DOMAIN stack[th] = 1..Len(stack[th]) /\ f = stack[th][Len(stack[th])]
  BY <1>1, <1>2, FrameTypes DEF BusInv, Top
<1>4. /\ stack' \in [Threads -> Seq(Frame)]
      /\ \A x \in Threads \ {th} : stack'[x] = stack[x]
      /\ DOMAIN stack'[th] = 1..(Len(stack[th]) - 1)
      /\ \A i \in DOMAIN stack'[th] : i \in DOMAIN stack[th] /\ stack'[th][i] = stack[th][i]
  BY <1>2, PopType DEF BusInv
<1>5. \A x \in Threads : \A i \in DOMAIN stack'[x] :
        i \in DOMAIN stack[x] /\ stack'[x][i] = stack[x][i]
  BY <1>4
<1>6. TypeOK'
  BY <1>2, <1>4 DEF BusInv, TypeOK
<1>7. HandlersInv' /\ LeaveInv'
  BY <1>2, TablesKeep DEF BusInv
<1>8. published' = published /\ heard' = heard /\ audience' = audience
  BY <1>2
<1>9. StackInv'
  <2>1. \A x \in Threads : \A i \in DOMAIN stack'[x] :
          Walk(stack'[x][i], published, heard, audience)
    BY <1>5 DEF BusInv, StackInv
  <2>2. \A y, x \in Threads : \A i \in DOMAIN stack'[y], j \in DOMAIN stack'[x] :
          stack'[y][i].event = stack'[x][j].event => y = x /\ i = j
    BY <1>5 DEF BusInv, StackInv
  <2> QED
    BY <1>8, <2>1, <2>2 DEF StackInv
<1>10. HeardInv'
  <2>1. Elements(heard[f.event]) = audience[f.event]
    <3>1. Walk(f, published, heard, audience)
      BY <1>3 DEF BusInv, StackInv
    <3>2. Elements(f.left) = {}
      BY <1>2, EmptySeq, LenProperties DEF Elements
    <3> HIDE DEF Elements, Rising
    <3> QED
      BY <3>1, <3>2 DEF Walk
  <2>2. ASSUME NEW x \in Events, ~InProgress(x)'
        PROVE  Elements(heard[x]) = audience[x]
    <3>1. CASE x = f.event
      BY <2>1, <3>1
    <3>2. CASE x # f.event
      <4>1. ~InProgress(x)
        <5>1. ASSUME NEW y \in Threads, NEW i \in DOMAIN stack[y], stack[y][i].event = x
              PROVE  i \in DOMAIN stack'[y] /\ stack'[y][i].event = x
          <6>1. CASE y # th
            BY <1>4, <5>1, <6>1
          <6>2. CASE y = th
            <7>1. i \in DOMAIN stack'[th]
              BY <1>3, <1>4, <3>2, <5>1, <6>2
            <7> QED
              BY <1>4, <5>1, <6>2, <7>1
          <6> QED
            BY <6>1, <6>2
        <5> QED
          BY <2>2, <5>1 DEF InProgress
      <4> QED
        BY <4>1 DEF BusInv, HeardInv
    <3> QED
      BY <3>1, <3>2
  <2> HIDE DEF Elements, Rising
  <2> QED
    BY <1>8, <2>2 DEF BusInv, HeardInv
<1> QED
  BY <1>6, <1>7, <1>9, <1>10 DEF BusInv

-----------------------------------------------------------------------------
LEMMA BusInitially == Init => BusInv
<1> SUFFICES ASSUME Init PROVE BusInv
  OBVIOUS
<1>1. <<>> \in Seq(Regs) /\ <<>> \in Seq(Frame)
  BY EmptySeq
<1>2. \A s : s = <<>> => DOMAIN s = {} /\ Elements(s) = {}
  BY EmptySeq, LenProperties DEF Elements
<1>3. TypeOK
  <2>1. 0 \in 0..MaxRegs /\ 0 \in 0..MaxEvents
    BY BusAssumption
  <2> HIDE DEF Frame, Regs, Events
  <2> QED
    BY <1>1, <2>1 DEF Init, TypeOK
<1>4. HandlersInv
  BY <1>2 DEF Init, HandlersInv, Rising
<1>5. StackInv
  BY <1>2 DEF Init, StackInv
<1>6. HeardInv
  BY <1>2 DEF Init, HeardInv, Rising
<1>7. LeaveInv
  BY DEF Init, LeaveInv
<1> QED
  BY <1>3, <1>4, <1>5, <1>6, <1>7 DEF BusInv

LEMMA BusNext == BusInv /\ [Next]_vars => BusInv'
<1> SUFFICES ASSUME BusInv, [Next]_vars PROVE BusInv'
  OBVIOUS
<1>1. CASE UNCHANGED vars
  <2>1. TypeOK'
    BY <1>1 DEF BusInv, TypeOK, vars
  <2> QED
    BY <1>1, <2>1, WalksKeep, TablesKeep DEF BusInv, vars
<1>2. ASSUME NEW th \in Threads, Call(th) \/ Progress(th)
      PROVE  BusInv'
  <2>1. CASE \E t \in EventTypes : Subscribe(th, t)
    BY <2>1, SubscribeKeeps
  <2>2. CASE \E t \in EventTypes : Publish(th, t)
    BY <2>2, PublishKeeps
  <2>3. CASE \E r \in Regs : UnsubscribeChecks(th, r)
    BY <2>3, UnsubscribeChecksKeeps
  <2>4. CASE UnsubscribeDeletes(th)
    BY <2>4, UnsubscribeDeletesKeeps
  <2>5. CASE Deliver(th)
    BY <2>5, DeliverKeeps
  <2>6. CASE HandlerReturns(th) \/ HandlerRaises(th)
    BY <2>6, HandlerReturnsKeeps DEF HandlerRaises
  <2>7. CASE PublishReturns(th)
    BY <2>7, PublishReturnsKeeps
  <2> QED
    BY <1>2, <2>1, <2>2, <2>3, <2>4, <2>5, <2>6, <2>7 DEF Call, Progress
<1> QED
  BY <1>1, <1>2 DEF Next

LEMMA BusInvariant == Spec => []BusInv
BY BusInitially, BusNext, PTL DEF Spec

-----------------------------------------------------------------------------
(* Every table, stack and history of the bus has the type it is declared   *)
(* with.                                                                   *)
THEOREM BusTypeCorrect == Spec => []TypeOK
<1>1. BusInv => TypeOK
  BY DEF BusInv
<1> QED
  BY <1>1, BusInvariant, PTL

(* An event is given at most once, in the order of subscription, to the    *)
(* registrations active when it was published, and to all of them by the   *)
(* time its publish() returns.                                             *)
THEOREM EventsHeardOnceInOrder == Spec => []HeardOnceInOrder
<1>1. BusInv => HeardOnceInOrder
  <2> SUFFICES ASSUME BusInv, NEW e \in Events
               PROVE  /\ Rising(heard[e])
                      /\ Elements(heard[e]) \subseteq audience[e]
                      /\ ~InProgress(e) => Elements(heard[e]) = audience[e]
    BY DEF HeardOnceInOrder, Rising
  <2>1. Rising(heard[e]) /\ (~InProgress(e) => Elements(heard[e]) = audience[e])
    BY DEF BusInv, HeardInv
  <2>2. CASE InProgress(e)
    <3>1. PICK th \in Threads : \E i \in DOMAIN stack[th] : stack[th][i].event = e
      BY <2>2 DEF InProgress
    <3>2. PICK i \in DOMAIN stack[th] : stack[th][i].event = e
      BY <3>1
    <3>3. Walk(stack[th][i], published, heard, audience)
      BY DEF BusInv, StackInv
    <3> HIDE DEF Elements, Rising
    <3> QED
      BY <2>1, <2>2, <3>2, <3>3 DEF Walk
  <2> QED
    BY <2>1, <2>2
<1> QED
  BY <1>1, BusInvariant, PTL

(* Once past its check, unsubscribe() finds the registration, unless two   *)
(* threads unsubscribe it at once.                                         *)
THEOREM UnsubscribeFinds == Spec => []UnsubscribeFindsIt
<1>1. BusInv => UnsubscribeFindsIt
  BY DEF BusInv, LeaveInv, UnsubscribeFindsIt
<1> QED
  BY <1>1, BusInvariant, PTL
=============================================================================
