------------------------- MODULE KernelRuntimeProofs -------------------------
(***************************************************************************)
(* Proofs about kernels and their containers, for any number of threads,   *)
(* containers, service types and runtimes.                                 *)
(***************************************************************************)
EXTENDS KernelRuntime, TLAPS, SequenceTheorems

-----------------------------------------------------------------------------
(* The container.  A factory that has returned is registered, and one      *)
(* whose kind is not written yet is about to get it.                       *)
Adds(th, c, t) == adding[th] # None /\ adding[th].c = c /\ adding[th].t = t

MadeByFactories ==
    \A c \in Containers, t \in Types : built[c][t] # {} => t \in factories[c]

KindFollows ==
    \A c \in Containers, t \in Types :
        t \in factories[c] /\ singletons[c][t] = "unset" =>
            \E th \in Threads : Adds(th, c, t) /\ adding[th].at = "kind"

(* A key that is not contested has one registration at a time, whose check *)
(* is still good when it writes, and what a factory's key holds is of it.  *)
Solo(c, t) ==
    /\ \A x, y \in Threads : Adds(x, c, t) /\ Adds(y, c, t) => x = y
    /\ \A x \in Threads : Adds(x, c, t) =>
          /\ singletons[c][t] = "unset"
          /\ IsRegistered(c, t) <=> adding[x].at = "kind"
    /\ ~IsRegistered(c, t) => singletons[c][t] = "unset"
    /\ t \in factories[c] /\ instances[c][t] # None => instances[c][t].by = "factory"

SoloInv == \A c \in Containers, t \in Types : <<c, t>> \notin contested => Solo(c, t)

ContainerInv ==
    /\ ContainerTypeOK /\ MadeByFactories
    /\ KindFollows /\ SoloInv

(* A step leaves in place what a boot registered, unless contested, and    *)
(* puts no key back to nothing.                                            *)
ServicesStay ==
    /\ contested \subseteq contested'
    /\ \A c \in Containers, t \in Types : instances[c][t] \in Instance =>
          /\ instances'[c][t] \in Instance
          /\ instances[c][t].by = "boot" /\ <<c, t>> \notin contested'
                => instances'[c][t] = instances[c][t]

(* What every step of a container gives.                                   *)
Keeps == ContainerInv' /\ ServicesStay /\ ServicesSettle

LEMMA InstanceFacts ==
  /\ None \notin Instance
  /\ \A x \in Instance : x # None
  /\ None \notin Registration
BY ContainerAssumption

LEMMA AddingType ==
  ASSUME ContainerTypeOK, NEW th \in Threads, adding[th] # None
  PROVE  /\ adding[th] \in Registration
         /\ adding[th].c \in Containers /\ adding[th].t \in Types
         /\ adding[th].value \in Instance \cup {None} /\ adding[th].at \in {"value", "kind"}
<1>1. adding[th] \in Registration
  BY DEF ContainerTypeOK
<1> QED
  BY <1>1 DEF Registration

(* A step that changes nothing but the calls and the histories.            *)
LEMMA CallsChange ==
  ASSUME ContainerInv, UNCHANGED <<factories, singletons, instances, adding, contested, built>>,
         ContainerTypeOK',
         \A c \in Containers, t \in Types :
            instances[c][t] # None => Calling(c, t)' \subseteq Calling(c, t)
  PROVE  Keeps
<1> USE DEF ContainerInv
<1>1. MadeByFactories'
  BY DEF MadeByFactories
<1>2. KindFollows'
  BY DEF KindFollows, Adds
<1>3. SoloInv'
  BY DEF SoloInv, Solo, Adds, IsRegistered
<1>4. ServicesStay
  BY DEF ServicesStay
<1>5. \A c, t : Registering(c, t)' = Registering(c, t)
  BY DEF Registering
<1>6. ServicesSettle
  BY <1>5 DEF ServicesSettle, Settled
<1> QED
  BY <1>1, <1>2, <1>3, <1>4, <1>6 DEF Keeps

(* A step of a registration: calls and histories stay, and the keys that   *)
(* held something and were about to be written by nobody stay as they are. *)
LEMMA SettledByRegistration ==
  ASSUME ContainerInv, UNCHANGED <<calls>>,
         NEW th \in Threads, NEW c \in Containers, NEW t \in Types,
         th \in Registering(c, t) \/ instances[c][t] = None \/ instances' = instances,
         \A d \in Containers, u \in Types : ~(d = c /\ u = t) =>
            instances'[d][u] = instances[d][u],
         \A d \in Containers, u \in Types : instances[d][u] # None =>
            Registering(d, u)' \subseteq Registering(d, u)
  PROVE  ServicesSettle
<1>1. \A d, u : Calling(d, u)' = Calling(d, u)
  BY DEF Calling
<1>2. ASSUME NEW d \in Containers, NEW u \in Types, Settled(d, u)
      PROVE  Settled(d, u)' /\ instances'[d][u] = instances[d][u]
  <2>1. instances[d][u] # None /\ Calling(d, u) = {} /\ Registering(d, u) = {}
    BY <1>2 DEF Settled
  <2>2. instances'[d][u] = instances[d][u]
    BY <2>1
  <2> QED
    BY <1>1, <2>1, <2>2 DEF Settled
<1> QED
  BY <1>2 DEF ServicesSettle

LEMMA RegisterBeginsKeeps ==
  ASSUME ContainerInv, NEW th \in Threads, NEW c \in Containers, NEW t \in Types,
         NEW value \in Instance \cup {None}, RegisterBegins(th, c, t, value)
  PROVE  /\ Keeps /\ UNCHANGED calls
         /\ \A x \in Threads \ {th} : adding'[x] = adding[x]
         /\ Adds(th, c, t)'
         /\ adding'[th].value = value /\ adding'[th].at = "value"
<1> DEFINE new == [c |-> c, t |-> t, value |-> value, at |-> "value"]
<1>1. /\ adding[th] = None /\ ~IsRegistered(c, t)
      /\ adding' = [adding EXCEPT ![th] = new]
      /\ contested' = IF Registering(c, t) = {} THEN contested
                      ELSE contested \cup {<<c, t>>}
      /\ UNCHANGED <<factories, singletons, instances, calls, made, built, raced, lost>>
  BY DEF RegisterBegins, histories
<1>2. new \in Registration /\ new # None /\ new.c = c /\ new.t = t /\ new.at = "value"
      /\ new.value = value
  <2>1. new \in Registration
    BY DEF Registration
  <2> QED
    BY <2>1, InstanceFacts
<1> HIDE DEF new
<1>3. adding'[th] = new /\ \A x \in Threads \ {th} : adding'[x] = adding[x]
  BY <1>1 DEF ContainerInv, ContainerTypeOK
<1>4. ContainerTypeOK'
  <2>1. adding' \in [Threads -> Registration \cup {None}]
    BY <1>1, <1>2 DEF ContainerInv, ContainerTypeOK
  <2>2. contested' \in SUBSET (Containers \X Types)
    BY <1>1 DEF ContainerInv, ContainerTypeOK
  <2> QED
    BY <1>1, <2>1, <2>2 DEF ContainerInv, ContainerTypeOK
<1>5. MadeByFactories'
  BY <1>1 DEF ContainerInv, MadeByFactories
<1>6. KindFollows'
  <2> SUFFICES ASSUME NEW d \in Containers, NEW u \in Types, u \in factories[d],
                      singletons[d][u] = "unset"
               PROVE  \E x \in Threads : Adds(x, d, u)' /\ adding'[x].at = "kind"
    BY <1>1 DEF KindFollows
  <2>1. PICK x \in Threads : Adds(x, d, u) /\ adding[x].at = "kind"
    BY DEF ContainerInv, KindFollows
  <2>2. x # th
    BY <1>1, <2>1 DEF Adds
  <2> QED
    BY <1>3, <2>1, <2>2 DEF Adds
<1>7. SoloInv'
  <2> SUFFICES ASSUME NEW d \in Containers, NEW u \in Types, <<d, u>> \notin contested'
               PROVE  Solo(d, u)'
    BY DEF SoloInv
  <2>1. Solo(d, u)
    BY <1>1 DEF ContainerInv, SoloInv
  <2>2. \A x \in Threads \ {th} : Adds(x, d, u)' = Adds(x, d, u) /\ adding'[x] = adding[x]
    BY <1>3 DEF Adds
  <2>3. IsRegistered(d, u)' = IsRegistered(d, u)
    BY <1>1 DEF IsRegistered
  <2>4. CASE ~(d = c /\ u = t)
    <3>1. ~Adds(th, d, u)'
      BY <1>2, <1>3, <2>4 DEF Adds
    <3> QED
      BY <1>1, <2>1, <2>2, <2>3, <3>1 DEF Solo
  <2>5. CASE d = c /\ u = t
    <3>1. Registering(c, t) = {} /\ singletons[c][t] = "unset"
      BY <1>1, <2>1, <2>5 DEF Solo
    <3>2. ASSUME NEW x \in Threads PROVE ~Adds(x, c, t)
      <4>1. Adds(x, c, t) => adding[x].at # "kind"
        BY <1>1, <2>1, <2>5 DEF Solo
      <4>2. Adds(x, c, t) => adding[x].at \in {"value", "kind"}
        BY AddingType DEF Adds, ContainerInv
      <4> QED
        BY <3>1, <4>1, <4>2 DEF Adds, Registering
    <3>3. \A x \in Threads : Adds(x, d, u)' => x = th
      BY <2>2, <2>5, <3>2
    <3>4. adding'[th].at = "value"
      BY <1>2, <1>3
    <3> QED
      BY <1>1, <2>1, <2>3, <2>5, <3>1, <3>3, <3>4 DEF Solo
  <2> QED
    BY <2>4, <2>5
<1>8. ServicesStay
  BY <1>1 DEF ServicesStay
<1>9. ServicesSettle
  <2>1. ASSUME NEW d \in Containers, NEW u \in Types, instances[d][u] # None
        PROVE  Registering(d, u)' \subseteq Registering(d, u)
    <3>1. ~(d = c /\ u = t)
      BY <1>1, <2>1 DEF IsRegistered
    <3> QED
      BY <1>2, <1>3, <3>1 DEF Registering
  <2> QED
    BY <1>1, <2>1, SettledByRegistration
<1>10. Adds(th, c, t)' /\ adding'[th].value = value /\ adding'[th].at = "value"
  BY <1>2, <1>3 DEF Adds
<1> QED
  BY <1>1, <1>3, <1>4, <1>5, <1>6, <1>7, <1>8, <1>9, <1>10 DEF Keeps, ContainerInv

LEMMA RegisterWritesKeeps ==
  ASSUME ContainerInv, NEW th \in Threads, RegisterWrites(th)
  PROVE  /\ Keeps /\ UNCHANGED calls
         /\ \A x \in Threads \ {th} : adding'[x] = adding[x]
         /\ adding[th] # None /\ adding[th].at = "value"
         /\ adding'[th].at = "kind"
         /\ adding[th].value # None =>
               instances'[adding[th].c][adding[th].t] = adding[th].value
<1>0. PICK c, t, value : c = adding[th].c /\ t = adding[th].t /\ value = adding[th].value
  OBVIOUS
<1>1. /\ adding[th] # None /\ adding[th].at = "value"
      /\ factories' = IF value = None THEN [factories EXCEPT ![c] = @ \cup {t}] ELSE factories
      /\ instances' = IF value = None THEN instances
                      ELSE [instances EXCEPT ![c][t] = value]
      /\ adding' = [adding EXCEPT ![th].at = "kind"]
      /\ UNCHANGED <<singletons, calls, contested, made, built, raced, lost>>
  BY <1>0 DEF RegisterWrites, histories
<1>2. /\ c \in Containers /\ t \in Types /\ value \in Instance \cup {None}
      /\ adding[th] \in Registration
  BY <1>0, <1>1, AddingType DEF ContainerInv
<1>3. /\ \A x \in Threads \ {th} : adding'[x] = adding[x]
      /\ adding'[th] \in Registration /\ adding'[th] # None
      /\ adding'[th].c = c /\ adding'[th].t = t /\ adding'[th].at = "kind"
  <2>1. /\ adding'[th] = [adding[th] EXCEPT !.at = "kind"]
        /\ \A x \in Threads \ {th} : adding'[x] = adding[x]
    BY <1>1 DEF ContainerInv, ContainerTypeOK
  <2>2. /\ adding'[th] \in Registration
        /\ adding'[th].c = c /\ adding'[th].t = t /\ adding'[th].at = "kind"
    BY <1>0, <1>2, <2>1 DEF Registration
  <2> QED
    BY <2>1, <2>2, InstanceFacts
<1>4. /\ factories' \in [Containers -> SUBSET Types]
      /\ instances' \in [Containers -> [Types -> Instance \cup {None}]]
      /\ \A d \in Containers : factories[d] \subseteq factories'[d]
      /\ \A d \in Containers, u \in Types : ~(d = c /\ u = t) =>
            /\ u \in factories'[d] <=> u \in factories[d]
            /\ instances'[d][u] = instances[d][u]
      /\ value = None => t \in factories'[c] /\ instances'[c][t] = instances[c][t]
      /\ value # None => factories' = factories /\ instances'[c][t] = value
  BY <1>1, <1>2 DEF ContainerInv, ContainerTypeOK
<1>5. ContainerTypeOK'
  <2>1. adding' \in [Threads -> Registration \cup {None}]
    BY <1>1, <1>2, <1>3 DEF ContainerInv, ContainerTypeOK
  <2> QED
    BY <1>1, <1>4, <2>1 DEF ContainerInv, ContainerTypeOK
<1>6. MadeByFactories'
  BY <1>1, <1>4 DEF ContainerInv, MadeByFactories
<1>7. KindFollows'
  <2> SUFFICES ASSUME NEW d \in Containers, NEW u \in Types, u \in factories'[d],
                      singletons[d][u] = "unset"
               PROVE  \E x \in Threads : Adds(x, d, u)' /\ adding'[x].at = "kind"
    BY <1>1 DEF KindFollows
  <2>1. CASE d = c /\ u = t
    BY <1>3, <2>1 DEF Adds
  <2>2. CASE ~(d = c /\ u = t)
    <3>1. PICK x \in Threads : Adds(x, d, u) /\ adding[x].at = "kind"
      BY <1>4, <2>2 DEF ContainerInv, KindFollows
    <3>2. x # th
      BY <1>1, <3>1
    <3> QED
      BY <1>3, <3>1, <3>2 DEF Adds
  <2> QED
    BY <2>1, <2>2
<1>8. \A d, u : \A x \in Threads : Adds(x, d, u)' = Adds(x, d, u)
  BY <1>0, <1>1, <1>3 DEF Adds
<1>9. SoloInv'
  <2> SUFFICES ASSUME NEW d \in Containers, NEW u \in Types, <<d, u>> \notin contested
               PROVE  Solo(d, u)'
    BY <1>1 DEF SoloInv
  <2>1. Solo(d, u)
    BY DEF ContainerInv, SoloInv
  <2>2. CASE ~(d = c /\ u = t)
    <3>1. IsRegistered(d, u)' = IsRegistered(d, u)
      BY <1>4, <2>2 DEF IsRegistered
    <3>2. \A x \in Threads : Adds(x, d, u) => adding'[x] = adding[x]
      BY <1>0, <1>3, <2>2 DEF Adds
    <3>3. /\ \A x, y \in Threads : Adds(x, d, u)' /\ Adds(y, d, u)' => x = y
          /\ ~IsRegistered(d, u)' => singletons'[d][u] = "unset"
      BY <1>1, <1>8, <2>1, <3>1 DEF Solo
    <3>4. \A x \in Threads : Adds(x, d, u)' =>
            /\ singletons'[d][u] = "unset"
            /\ IsRegistered(d, u)' <=> adding'[x].at = "kind"
      <4> SUFFICES ASSUME NEW x \in Threads, Adds(x, d, u)'
                   PROVE  /\ singletons'[d][u] = "unset"
                          /\ IsRegistered(d, u)' <=> adding'[x].at = "kind"
        OBVIOUS
      <4>1. Adds(x, d, u) /\ adding'[x] = adding[x]
        BY <1>8, <3>2
      <4>2. singletons[d][u] = "unset" /\ (IsRegistered(d, u) <=> adding[x].at = "kind")
        BY <2>1, <4>1 DEF Solo
      <4> QED
        BY <1>1, <3>1, <4>1, <4>2
    <3>5. u \in factories'[d] /\ instances'[d][u] # None => instances'[d][u].by = "factory"
      BY <1>4, <2>1, <2>2 DEF Solo
    <3> QED
      BY <3>3, <3>4, <3>5 DEF Solo
  <2>3. CASE d = c /\ u = t
    <3>1. Adds(th, c, t)
      BY <1>0, <1>1 DEF Adds
    <3>2. ~IsRegistered(c, t) /\ singletons[c][t] = "unset"
      BY <1>1, <2>1, <2>3, <3>1 DEF Solo
    <3>3. IsRegistered(c, t)'
      BY <1>2, <1>4, InstanceFacts DEF IsRegistered
    <3>4. \A x \in Threads : Adds(x, d, u)' => x = th
      BY <1>8, <2>1, <2>3, <3>1 DEF Solo
    <3>5. t \notin factories'[c] \/ instances'[c][t] = None
      BY <1>4, <3>2 DEF IsRegistered
    <3> QED
      BY <1>1, <1>3, <2>3, <3>2, <3>3, <3>4, <3>5 DEF Solo
  <2> QED
    BY <2>2, <2>3
<1>10. ServicesStay
  <2> SUFFICES ASSUME NEW d \in Containers, NEW u \in Types, instances[d][u] \in Instance
               PROVE  /\ instances'[d][u] \in Instance
                      /\ <<d, u>> \notin contested => instances'[d][u] = instances[d][u]
    BY <1>1 DEF ServicesStay
  <2>1. CASE ~(d = c /\ u = t)
    BY <1>4, <2>1
  <2>2. CASE d = c /\ u = t
    <3>1. IsRegistered(c, t)
      BY <2>2, InstanceFacts DEF IsRegistered
    <3>2. <<c, t>> \in contested
      BY <1>0, <1>1, <1>2, <3>1 DEF ContainerInv, SoloInv, Solo, Adds
    <3> QED
      BY <1>2, <1>4, <2>2, <3>2
  <2> QED
    BY <2>1, <2>2
<1>11. ServicesSettle
  <2>1. th \in Registering(c, t)
    BY <1>0, <1>1 DEF Registering
  <2>2. \A d, u : Registering(d, u)' \subseteq Registering(d, u)
    BY <1>3 DEF Registering
  <2> QED
    BY <1>1, <1>2, <1>4, <2>1, <2>2, SettledByRegistration
<1> QED
  BY <1>0, <1>1, <1>3, <1>4, <1>5, <1>6, <1>7, <1>9, <1>10, <1>11 DEF Keeps, ContainerInv

LEMMA RegisterEndsKeeps ==
  ASSUME ContainerInv, NEW th \in Threads, NEW kind \in {"yes", "no"}, RegisterEnds(th, kind)
  PROVE  /\ Keeps /\ UNCHANGED calls
         /\ \A x \in Threads \ {th} : adding'[x] = adding[x]
         /\ adding'[th] = None
<1>0. PICK c, t : c = adding[th].c /\ t = adding[th].t
  OBVIOUS
<1>1. /\ adding[th] # None /\ adding[th].at = "kind"
      /\ singletons' = [singletons EXCEPT ![c][t] = kind]
      /\ adding' = [adding EXCEPT ![th] = None]
      /\ UNCHANGED <<factories, instances, calls, contested, made, built, raced, lost>>
  BY <1>0 DEF RegisterEnds, histories
<1>2. c \in Containers /\ t \in Types
  BY <1>0, <1>1, AddingType DEF ContainerInv
<1>3. adding'[th] = None /\ \A x \in Threads \ {th} : adding'[x] = adding[x]
  BY <1>1 DEF ContainerInv, ContainerTypeOK
<1>4. /\ singletons' \in [Containers -> [Types -> {"unset", "yes", "no"}]]
      /\ singletons'[c][t] = kind
      /\ \A d \in Containers, u \in Types : ~(d = c /\ u = t) =>
            singletons'[d][u] = singletons[d][u]
  BY <1>1, <1>2 DEF ContainerInv, ContainerTypeOK
<1>5. ContainerTypeOK'
  BY <1>1, <1>4 DEF ContainerInv, ContainerTypeOK
<1>6. MadeByFactories'
  BY <1>1 DEF ContainerInv, MadeByFactories
<1>7. KindFollows'
  <2> SUFFICES ASSUME NEW d \in Containers, NEW u \in Types, u \in factories[d],
                      singletons'[d][u] = "unset"
               PROVE  \E x \in Threads : Adds(x, d, u)' /\ adding'[x].at = "kind"
    BY <1>1 DEF KindFollows
  <2>1. ~(d = c /\ u = t)
    BY <1>4
  <2>2. PICK x \in Threads : Adds(x, d, u) /\ adding[x].at = "kind"
    BY <1>4, <2>1 DEF ContainerInv, KindFollows
  <2>3. x # th
    BY <1>0, <2>1, <2>2 DEF Adds
  <2> QED
    BY <1>3, <2>2, <2>3 DEF Adds
<1>8. SoloInv'
  <2> SUFFICES ASSUME NEW d \in Containers, NEW u \in Types, <<d, u>> \notin contested
               PROVE  Solo(d, u)'
    BY <1>1 DEF SoloInv
  <2>1. Solo(d, u)
    BY DEF ContainerInv, SoloInv
  <2>2. IsRegistered(d, u)' = IsRegistered(d, u)
    BY <1>1 DEF IsRegistered
  <2>3. \A x \in Threads : Adds(x, d, u)' => Adds(x, d, u) /\ x # th /\ adding'[x] = adding[x]
    BY <1>3 DEF Adds
  <2>4. CASE ~(d = c /\ u = t)
    BY <1>1, <1>4, <2>1, <2>2, <2>3, <2>4 DEF Solo
  <2>5. CASE d = c /\ u = t
    <3>1. Adds(th, c, t)
      BY <1>0, <1>1 DEF Adds
    <3>2. IsRegistered(c, t)
      BY <1>1, <2>1, <2>5, <3>1 DEF Solo
    <3>3. \A x \in Threads : ~Adds(x, d, u)'
      BY <2>1, <2>3, <2>5, <3>1 DEF Solo
    <3> QED
      BY <1>1, <2>1, <2>2, <2>5, <3>2, <3>3 DEF Solo
  <2> QED
    BY <2>4, <2>5
<1>9. ServicesStay
  BY <1>1 DEF ServicesStay
<1>10. ServicesSettle
  <2>1. \A d, u : Registering(d, u)' \subseteq Registering(d, u)
    BY <1>3 DEF Registering
  <2> QED
    BY <1>1, <1>2, <2>1, SettledByRegistration
<1> QED
  BY <1>1, <1>3, <1>5, <1>6, <1>7, <1>8, <1>9, <1>10 DEF Keeps, ContainerInv

(* The innermost frame of a thread and those around it.                    *)
LEMMA FramesSplit ==
  ASSUME ContainerTypeOK, NEW th \in Threads, calls[th] # <<>>
  PROVE  /\ Outer(th) \in Seq(Frame)
         /\ Len(calls[th]) \in Nat \ {0}
         /\ Len(Outer(th)) = Len(calls[th]) - 1
         /\ \A i \in DOMAIN Outer(th) : i \in DOMAIN calls[th] /\ Outer(th)[i] = calls[th][i]
         /\ Len(calls[th]) \in DOMAIN calls[th]
         /\ Inner(th) \in Frame
<1>1. calls[th] \in Seq(Frame)
  BY DEF ContainerTypeOK
<1> DEFINE s == calls[th]
<1>2. Len(s) \in Nat \ {0} /\ DOMAIN s = 1..Len(s) /\ \A i \in 1..Len(s) : s[i] \in Frame
  BY <1>1, EmptySeq, LenProperties, ElementOfSeq
<1>3. /\ SubSeq(s, 1, Len(s) - 1) \in Seq(Frame)
      /\ Len(SubSeq(s, 1, Len(s) - 1)) = Len(s) - 1
      /\ \A i \in 1..(Len(s) - 1) : SubSeq(s, 1, Len(s) - 1)[i] = s[i]
  BY <1>1, <1>2, SubSeqProperties
<1> QED
  BY <1>2, <1>3, LenProperties DEF Outer, Inner

(* A step that starts no factory call of the key.                          *)
LEMMA FewerCalls ==
  ASSUME NEW c, NEW t,
         \A x \in Threads : \A i \in DOMAIN calls'[x] :
            calls'[x][i].c = c /\ calls'[x][i].t = t =>
               i \in DOMAIN calls[x] /\ calls[x][i].c = c /\ calls[x][i].t = t
  PROVE  Calling(c, t)' \subseteq Calling(c, t)
BY DEF Calling

(* The frames a look-up leaves with a thread: those of the factories it was*)
(* in, and the one it calls now.                                           *)
SameFrames(frames, th) ==
    \A i \in DOMAIN frames : /\ i \in DOMAIN calls[th]
                             /\ frames[i].c = calls[th][i].c
                             /\ frames[i].t = calls[th][i].t

Missed(c, t) == instances[c][t] = None

LEMMA LookUpFrames ==
  ASSUME ContainerInv, NEW th \in Threads, NEW c \in Containers, NEW t \in Types,
         NEW frames \in Seq(Frame), SameFrames(frames, th), LookUp(th, c, t, frames)
  PROVE  /\ \A x \in Threads \ {th} : calls'[x] = calls[x]
         /\ calls'[th] \in Seq(Frame)
         /\ ~Missed(c, t) => calls'[th] = frames
         /\ \A x \in Threads : \A i \in DOMAIN calls'[x] :
              \/ /\ i \in DOMAIN calls[x]
                 /\ calls'[x][i].c = calls[x][i].c /\ calls'[x][i].t = calls[x][i].t
              \/ /\ Missed(c, t) /\ x = th /\ i = Len(frames) + 1
                 /\ calls'[x][i].c = c /\ calls'[x][i].t = t
<1> DEFINE f == [c |-> c, t |-> t, left |-> Deps[t]]
<1>1. calls' = [calls EXCEPT ![th] = IF Missed(c, t) THEN Append(frames, f) ELSE frames]
  BY Zenon DEF LookUp, Missed
<1>2. /\ f \in Frame /\ f.c = c /\ f.t = t
      /\ DOMAIN frames = 1..Len(frames) /\ Len(frames) \in Nat
  BY ContainerAssumption, LenProperties DEF Frame
<1> HIDE DEF f, Frame
<1>3. /\ Append(frames, f) \in Seq(Frame)
      /\ DOMAIN Append(frames, f) = 1..(Len(frames) + 1)
      /\ \A i \in 1..Len(frames) : Append(frames, f)[i] = frames[i]
      /\ Append(frames, f)[Len(frames) + 1] = f
  BY <1>2, AppendProperties, LenProperties
<1>4. /\ \A x \in Threads \ {th} : calls'[x] = calls[x]
      /\ calls'[th] = IF Missed(c, t) THEN Append(frames, f) ELSE frames
  BY <1>1 DEF ContainerInv, ContainerTypeOK
<1> HIDE DEF Missed
<1>5. ASSUME NEW i \in DOMAIN calls'[th]
      PROVE  \/ /\ i \in DOMAIN calls[th]
                /\ calls'[th][i].c = calls[th][i].c /\ calls'[th][i].t = calls[th][i].t
             \/ /\ Missed(c, t) /\ i = Len(frames) + 1
                /\ calls'[th][i].c = c /\ calls'[th][i].t = t
  <2>1. CASE i \in DOMAIN frames /\ calls'[th][i] = frames[i]
    BY <2>1 DEF SameFrames
  <2>2. CASE Missed(c, t) /\ i = Len(frames) + 1
    BY <1>2, <1>3, <1>4, <2>2
  <2> QED
    BY <1>2, <1>3, <1>4, <1>5, <2>1, <2>2
<1> QED
  BY <1>3, <1>4, <1>5

LEMMA LookUpKeeps ==
  ASSUME ContainerInv, NEW th \in Threads, NEW c \in Containers, NEW t \in Types,
         NEW frames \in Seq(Frame), SameFrames(frames, th), LookUp(th, c, t, frames)
  PROVE  /\ Keeps
         /\ adding' = adding /\ made' = made
         /\ \A x \in Threads \ {th} : calls'[x] = calls[x]
         /\ instances[c][t] # None => calls'[th] = frames
<1>1. /\ UNCHANGED <<factories, singletons, instances, adding, contested, made, built, lost>>
      /\ raced' \in {raced, raced \cup {<<c, t>>}}
  BY DEF LookUp
<1>2. /\ \A x \in Threads \ {th} : calls'[x] = calls[x]
      /\ calls'[th] \in Seq(Frame)
      /\ ~Missed(c, t) => calls'[th] = frames
      /\ \A x \in Threads : \A i \in DOMAIN calls'[x] :
           \/ /\ i \in DOMAIN calls[x]
              /\ calls'[x][i].c = calls[x][i].c /\ calls'[x][i].t = calls[x][i].t
           \/ /\ Missed(c, t) /\ calls'[x][i].c = c /\ calls'[x][i].t = t
  BY LookUpFrames
<1>3. ContainerTypeOK'
  <2>1. calls' \in [Threads -> Seq(Frame)]
    <3>1. DOMAIN calls' = Threads /\ calls' = [x \in Threads |-> calls'[x]]
      BY DEF LookUp, ContainerInv, ContainerTypeOK
    <3>2. \A x \in Threads : calls'[x] \in Seq(Frame)
      BY <1>2 DEF ContainerInv, ContainerTypeOK
    <3> QED
      BY <3>1, <3>2
  <2>2. raced' \in SUBSET (Containers \X Types)
    BY <1>1 DEF ContainerInv, ContainerTypeOK
  <2> QED
    BY <1>1, <2>1, <2>2 DEF ContainerInv, ContainerTypeOK
<1>4. ASSUME NEW d \in Containers, NEW u \in Types, instances[d][u] # None
      PROVE  Calling(d, u)' \subseteq Calling(d, u)
  <2>1. ~(Missed(c, t) /\ d = c /\ u = t)
    BY <1>4 DEF Missed
  <2> QED
    BY <1>2, <2>1, FewerCalls
<1>5. Keeps
  BY <1>1, <1>3, <1>4, CallsChange
<1>6. instances[c][t] # None => ~Missed(c, t)
  BY DEF Missed
<1> QED
  BY <1>1, <1>2, <1>5, <1>6

(* The frames of a factory that resolves what it depends on.               *)
LEMMA ResolvingFrames ==
  ASSUME ContainerInv, NEW th \in Threads, calls[th] # <<>>, NEW d \in Inner(th).left
  PROVE  LET frames == Append(Outer(th), [Inner(th) EXCEPT !.left = @ \ {d}])
         IN  /\ frames \in Seq(Frame) /\ SameFrames(frames, th)
             /\ Inner(th).c \in Containers /\ d \in Types
<1>1. /\ Outer(th) \in Seq(Frame) /\ Inner(th) \in Frame
      /\ Len(calls[th]) \in Nat \ {0} /\ Len(Outer(th)) = Len(calls[th]) - 1
      /\ \A i \in DOMAIN Outer(th) : i \in DOMAIN calls[th] /\ Outer(th)[i] = calls[th][i]
      /\ Len(calls[th]) \in DOMAIN calls[th] /\ Inner(th) = calls[th][Len(calls[th])]
      /\ DOMAIN Outer(th) = 1..Len(Outer(th))
  BY FramesSplit, LenProperties DEF ContainerInv, Inner
<1> DEFINE f == [Inner(th) EXCEPT !.left = @ \ {d}]
<1>2. /\ f \in Frame /\ f.c = Inner(th).c /\ f.t = Inner(th).t
      /\ Inner(th).c \in Containers /\ d \in Types
  BY <1>1 DEF Frame
<1> HIDE DEF f, Frame
<1>3. /\ Append(Outer(th), f) \in Seq(Frame)
      /\ DOMAIN Append(Outer(th), f) = 1..(Len(Outer(th)) + 1)
      /\ \A i \in 1..Len(Outer(th)) : Append(Outer(th), f)[i] = Outer(th)[i]
      /\ Append(Outer(th), f)[Len(Outer(th)) + 1] = f
  BY <1>1, <1>2, AppendProperties, LenProperties
<1>4. ASSUME NEW i \in DOMAIN Append(Outer(th), f)
      PROVE  /\ i \in DOMAIN calls[th]
             /\ Append(Outer(th), f)[i].c = calls[th][i].c
             /\ Append(Outer(th), f)[i].t = calls[th][i].t
  <2>1. CASE i \in 1..Len(Outer(th))
    BY <1>1, <1>3, <2>1
  <2>2. CASE i = Len(Outer(th)) + 1
    BY <1>1, <1>2, <1>3, <2>2
  <2> QED
    BY <1>1, <1>3, <2>1, <2>2
<1> QED
  BY <1>2, <1>3, <1>4 DEF f, SameFrames

(* A factory call that ended.                                              *)
LEMMA CallEnded ==
  ASSUME ContainerInv, NEW th \in Threads, calls[th] # <<>>,
         calls' = [calls EXCEPT ![th] = Outer(th)]
  PROVE  /\ calls' \in [Threads -> Seq(Frame)]
         /\ \A x \in Threads \ {th} : calls'[x] = calls[x]
         /\ \A x \in Threads : \A i \in DOMAIN calls'[x] :
              i \in DOMAIN calls[x] /\ calls'[x][i] = calls[x][i]
              /\ (x = th => i # Len(calls[th]))
         /\ \A c, t : Calling(c, t)' \subseteq Calling(c, t)
<1>1. /\ Outer(th) \in Seq(Frame) /\ Len(calls[th]) \in Nat
      /\ Len(Outer(th)) = Len(calls[th]) - 1
      /\ \A i \in DOMAIN Outer(th) : i \in DOMAIN calls[th] /\ Outer(th)[i] = calls[th][i]
      /\ DOMAIN Outer(th) = 1..Len(Outer(th))
  BY FramesSplit, LenProperties DEF ContainerInv
<1>2. calls'[th] = Outer(th) /\ \A x \in Threads \ {th} : calls'[x] = calls[x]
  BY DEF ContainerInv, ContainerTypeOK
<1>3. calls' \in [Threads -> Seq(Frame)]
  BY <1>1 DEF ContainerInv, ContainerTypeOK
<1>4. \A x \in Threads : \A i \in DOMAIN calls'[x] :
         i \in DOMAIN calls[x] /\ calls'[x][i] = calls[x][i]
         /\ (x = th => i # Len(calls[th]))
  BY <1>1, <1>2
<1>5. \A c, t : Calling(c, t)' \subseteq Calling(c, t)
  BY <1>4, FewerCalls
<1> QED
  BY <1>2, <1>3, <1>4, <1>5

(* The key of the innermost resolve().                                     *)
LEMMA InnerFacts ==
  ASSUME ContainerInv, NEW th \in Threads, calls[th] # <<>>
  PROVE  /\ Inner(th).c \in Containers /\ Inner(th).t \in Types
         /\ th \in Calling(Inner(th).c, Inner(th).t)
         /\ NewInstance \in Instance /\ NewInstance # None /\ NewInstance.by = "factory"
         /\ Result(th) \in {None, NewInstance}
<1>1. /\ Inner(th) \in Frame /\ Len(calls[th]) \in DOMAIN calls[th]
      /\ Inner(th) = calls[th][Len(calls[th])]
  BY FramesSplit DEF ContainerInv, Inner
<1>2. Inner(th).c \in Containers /\ Inner(th).t \in Types
  BY <1>1 DEF Frame
<1>3. th \in Calling(Inner(th).c, Inner(th).t)
  BY <1>1 DEF Calling
<1>4. NewInstance \in Instance /\ NewInstance.by = "factory"
  BY DEF NewInstance, Instance, ContainerInv, ContainerTypeOK
<1> QED
  BY <1>2, <1>3, <1>4, InstanceFacts DEF Result

(* What the innermost factory returns is written to its own key only.      *)
LEMMA FactoryReturnsKeeps ==
  ASSUME ContainerInv, NEW th \in Threads, FactoryReturns(th)
  PROVE  Keeps
<1>0. PICK c, t : c = Inner(th).c /\ t = Inner(th).t
  OBVIOUS
<1>1. /\ calls[th] # <<>> /\ t \in factories[c] /\ made < MaxMade
      /\ made' = made + 1
      /\ instances' = IF singletons[c][t] = "yes"
                      THEN [instances EXCEPT ![c][t] = NewInstance] ELSE instances
      /\ built' = [built EXCEPT ![c][t] = @ \cup {NewInstance}]
      /\ lost' \in {lost, lost \cup {<<c, t>>}}
      /\ calls' = [calls EXCEPT ![th] = Outer(th)]
      /\ UNCHANGED <<factories, singletons, adding, contested, raced>>
  BY <1>0 DEF FactoryReturns, InFactoryOf
<1>2. /\ c \in Containers /\ t \in Types /\ t \in factories[c] /\ th \in Calling(c, t)
      /\ NewInstance \in Instance /\ NewInstance # None /\ NewInstance.by = "factory"
  BY <1>0, <1>1, InnerFacts
<1>3. /\ calls' \in [Threads -> Seq(Frame)]
      /\ \A x \in Threads : \A i \in DOMAIN calls'[x] :
           i \in DOMAIN calls[x] /\ calls'[x][i] = calls[x][i]
      /\ \A d, u : Calling(d, u)' \subseteq Calling(d, u)
  BY <1>1, CallEnded
<1>4. /\ \A d \in Containers, u \in Types : ~(d = c /\ u = t) =>
            instances'[d][u] = instances[d][u] /\ built'[d][u] = built[d][u]
      /\ instances'[c][t] \in {instances[c][t], NewInstance}
  BY <1>1, <1>2 DEF ContainerInv, ContainerTypeOK
<1>5. ContainerTypeOK'
  <2>1. made' \in 0..MaxMade
    BY <1>1, ContainerAssumption DEF ContainerInv, ContainerTypeOK
  <2>2. instances' \in [Containers -> [Types -> Instance \cup {None}]]
    BY <1>1, <1>2 DEF ContainerInv, ContainerTypeOK
  <2>3. built' \in [Containers -> [Types -> SUBSET Instance]]
    BY <1>1, <1>2 DEF ContainerInv, ContainerTypeOK
  <2>4. lost' \in SUBSET (Containers \X Types)
    BY <1>1, <1>2 DEF ContainerInv, ContainerTypeOK
  <2> QED
    BY <1>1, <1>3, <2>1, <2>2, <2>3, <2>4 DEF ContainerInv, ContainerTypeOK
<1>6. MadeByFactories' /\ KindFollows'
  BY <1>1, <1>2, <1>4 DEF ContainerInv, MadeByFactories, KindFollows, Adds
<1>7. SoloInv'
  <2> SUFFICES ASSUME NEW d \in Containers, NEW u \in Types, <<d, u>> \notin contested
               PROVE  Solo(d, u)'
    BY <1>1 DEF SoloInv
  <2>1. Solo(d, u)
    BY DEF ContainerInv, SoloInv
  <2>2. \A x \in Threads : Adds(x, d, u)' = Adds(x, d, u) /\ adding'[x] = adding[x]
    BY <1>1 DEF Adds
  <2>3. IsRegistered(d, u)' = IsRegistered(d, u)
    BY <1>1, <1>2, <1>4 DEF IsRegistered
  <2> QED
    BY <1>1, <1>2, <1>4, <2>1, <2>2, <2>3 DEF Solo
<1>8. ServicesStay
  <2>1. ASSUME NEW d \in Containers, NEW u \in Types, instances[d][u] \in Instance,
               <<d, u>> \notin contested, instances[d][u].by = "boot"
        PROVE  ~(d = c /\ u = t)
    BY <1>2, <2>1, InstanceFacts DEF ContainerInv, SoloInv, Solo
  <2> QED
    BY <1>1, <1>2, <1>4, <2>1 DEF ServicesStay
<1>9. ServicesSettle
  <2>1. \A d, u : Registering(d, u)' = Registering(d, u)
    BY <1>1 DEF Registering
  <2>2. ASSUME NEW d \in Containers, NEW u \in Types, Settled(d, u)
        PROVE  Settled(d, u)' /\ instances'[d][u] = instances[d][u]
    <3>1. ~(d = c /\ u = t)
      BY <1>2, <2>2 DEF Settled
    <3> QED
      BY <1>3, <1>4, <2>1, <2>2, <3>1 DEF Settled
  <2> QED
    BY <2>2 DEF ServicesSettle
<1> QED
  BY <1>5, <1>6, <1>7, <1>8, <1>9 DEF Keeps, ContainerInv

(* A resolve() that ends with an error takes its frame away.               *)
LEMMA FactoryErrorKeeps ==
  ASSUME ContainerInv, NEW th \in Threads, FactoryMissing(th) \/ FactoryRaises(th)
  PROVE  /\ Keeps /\ calls[th] # <<>> /\ adding' = adding
         /\ \A x \in Threads \ {th} : calls'[x] = calls[x]
<1>1. /\ calls[th] # <<>> /\ calls' = [calls EXCEPT ![th] = Outer(th)]
      /\ UNCHANGED <<factories, singletons, instances, adding, contested,
                     made, built, raced, lost>>
  BY DEF FactoryMissing, FactoryRaises, InFactoryOf, histories
<1>2. /\ calls' \in [Threads -> Seq(Frame)]
      /\ \A x \in Threads \ {th} : calls'[x] = calls[x]
      /\ \A c, t : Calling(c, t)' \subseteq Calling(c, t)
  BY <1>1, CallEnded
<1>3. ContainerTypeOK'
  BY <1>1, <1>2 DEF ContainerInv, ContainerTypeOK
<1> QED
  BY <1>1, <1>2, <1>3, CallsChange

FactoryStep(th) ==
    \/ FactoryResolves(th) \/ FactoryMissing(th)
    \/ FactoryReturns(th) \/ FactoryRaises(th)

LEMMA FactoryStepKeeps ==
  ASSUME ContainerInv, NEW th \in Threads, FactoryStep(th)
  PROVE  /\ Keeps /\ calls[th] # <<>> /\ adding' = adding
         /\ \A x \in Threads \ {th} : calls'[x] = calls[x]
         /\ Result(th) \in Instance \cup {None}
<1>1. calls[th] # <<>>
  BY DEF FactoryStep, FactoryResolves, FactoryReturns, FactoryRaises, FactoryMissing,
         InFactoryOf
<1>2. CASE FactoryResolves(th)
  <2>1. PICK d \in Inner(th).left :
           LookUp(th, Inner(th).c, d,
                  Append(Outer(th), [Inner(th) EXCEPT !.left = @ \ {d}]))
    BY <1>2 DEF FactoryResolves
  <2> QED
    BY <1>1, <2>1, ResolvingFrames, LookUpKeeps, InnerFacts
<1>3. CASE FactoryReturns(th)
  <2>1. Keeps
    BY <1>3, FactoryReturnsKeeps
  <2>2. calls' = [calls EXCEPT ![th] = Outer(th)] /\ adding' = adding
    BY <1>3 DEF FactoryReturns
  <2> QED
    BY <1>1, <2>1, <2>2, CallEnded, InnerFacts
<1>4. CASE FactoryMissing(th) \/ FactoryRaises(th)
  BY <1>4, FactoryErrorKeeps, InnerFacts
<1> QED
  BY <1>2, <1>3, <1>4 DEF FactoryStep
-----------------------------------------------------------------------------
(* The calls the threads are in.                                           *)
Pcs == {"none", "register", "claim", "clear", "configure", "explain",
        "stop", "stopped", "running?", "failed?", "report", "done",
        "providers", "tools"}
Read == Instance \cup {None, Unregistered}
Reports == [branch : {"none", "running", "failed", "other"}, state : {"none"} \cup States,
            providers : Read, tools : Read]
Entries == [name : {"none", "boot", "start", "shutdown", "health", "collect"},
            on : {0} \cup Boots, pc : Pcs, got : Reports, moved : BOOLEAN]

(* Which steps each call has.                                              *)
Shape(e) ==
    /\ e.name = "none" => e.pc = "none"
    /\ e.name = "boot" => e.pc = "register"
    /\ e.name = "start" => e.pc \in {"claim", "clear", "configure", "explain"}
    /\ e.name = "shutdown" => e.pc \in {"stop", "stopped"}
    /\ e.name = "health" => e.pc \in {"running?", "failed?", "report", "done"}
    /\ e.name = "collect" =>
          e.pc \in {"providers", "tools", "running?", "failed?", "report", "done"}
    /\ e.name # "none" => e.on \in Boots

Items == ({"tool"} \X {ToolIds[i] : i \in DOMAIN ToolIds}) \cup ({"service"} \X Types)

KernelTypes ==
    /\ boot \in [Boots -> Choices]
    /\ stage \in [Boots -> {"waiting", "registering", "starting", "delivered", "failed"}]
    /\ todo \in Seq(Items)
    /\ toolIds \in [Registries -> SUBSET {ToolIds[i] : i \in DOMAIN ToolIds}]
    /\ state \in [Boots -> States]
    /\ detail \in [Boots -> BOOLEAN]
    /\ op \in [Threads -> Entries]
    /\ \A th \in Threads : Shape(op[th])

(* Only a collect() that resolves, or resolve() itself, looks for a factory*)
(* or is inside one.                                                       *)
CallsInv ==
    \A th \in Threads : calls[th] # <<>> =>
        op[th].pc \in {"none", "providers", "tools"}

(* The one boot in progress, and what it has put in place.                 *)
Assembled(b) ==
    LET items == Registrations(boot[b])
    IN  \A i \in DOMAIN items : InPlace(b, items[i])
InPlaceOrTodo(b) ==
    LET items == Registrations(boot[b])
    IN  \A i \in DOMAIN items :
            InPlace(b, items[i]) \/ \E j \in DOMAIN todo : todo[j] = items[i]
BootInv ==
    /\ \A th \in Threads : op[th].name = "boot" =>
           th = Main /\ stage[op[th].on] = "registering"
    /\ \A th \in Threads : op[th].name = "start" =>
           stage[op[th].on] \in {"starting", "delivered"}
    /\ \A th \in Threads : op[th].name = "collect" => stage[op[th].on] = "delivered"
    /\ \A b \in Boots : stage[b] = "registering" =>
           op[Main].name = "boot" /\ op[Main].on = b /\ InPlaceOrTodo(b)
    /\ \A b \in Boots : stage[b] = "starting" => Assembled(b)
    /\ \A b \in Boots : stage[b] = "delivered" /\ boot[b].by_bootstrap => Assembled(b)

(* A transient state has its writer, and a failure its explanation.        *)
Within(b, pcs) == \E th \in Threads : op[th].on = b /\ op[th].pc \in pcs
QuietInv ==
    \A b \in Boots :
        /\ state[b] = "starting" => Within(b, {"clear", "configure"})
        /\ state[b] = "stopping" => Within(b, {"stopped"})
        /\ state[b] = "failed" => detail[b] \/ Within(b, {"configure", "explain"})

(* What health() and collect() have read so far.                           *)
Told(b) == IF state[b] \in {"running", "failed"} THEN state[b] ELSE "other"
Reading(th) ==
    LET e == op[th]
    IN  /\ ~e.moved =>
              /\ e.pc = "failed?" => state[e.on] # "running"
              /\ e.pc = "report" => e.got.branch = Told(e.on)
              /\ e.pc = "done" =>
                    e.got.branch = IF e.got.state \in {"running", "failed"}
                                   THEN e.got.state ELSE "other"
        /\ e.name = "collect" /\ boot[e.on].by_bootstrap =>
              /\ calls[th] = <<>>
              /\ Its(e.on, ProvidersT, e.got.providers)
              /\ e.pc # "providers" => Its(e.on, ToolsT, e.got.tools)

ReportInv == \A th \in Threads : Reading(th)

(* The registration a boot is about to write is that of its next service.  *)
AddInv ==
    op[Main].name = "boot" /\ adding[Main] # None /\ adding[Main].at = "value" =>
        LET b == op[Main].on
        IN  /\ todo # <<>> /\ Head(todo) = <<"service", adding[Main].t>>
            /\ adding[Main].c = boot[b].home /\ adding[Main].value = Own(b)

KernelInv ==
    /\ ContainerInv /\ KernelTypes /\ CallsInv
    /\ BootInv /\ AddInv /\ QuietInv /\ ReportInv

-----------------------------------------------------------------------------
(* What a boot registers, as items.                                        *)
LEMMA TaggedType ==
  ASSUME NEW kind, NEW S, NEW seq \in Seq(S)
  PROVE  /\ Tagged(kind, seq) \in Seq({kind} \X S)
         /\ DOMAIN Tagged(kind, seq) = DOMAIN seq
         /\ \A i \in DOMAIN seq : Tagged(kind, seq)[i] = <<kind, seq[i]>>
<1>1. DOMAIN seq = 1..Len(seq) /\ Len(seq) \in Nat /\ \A i \in 1..Len(seq) : seq[i] \in S
  BY LenProperties, ElementOfSeq
<1>2. \A i \in 1..Len(seq) : <<kind, seq[i]>> \in {kind} \X S
  BY <1>1
<1>3. Tagged(kind, seq) \in Seq({kind} \X S)
  BY <1>1, <1>2, IsASeq DEF Tagged
<1> QED
  BY <1>1, <1>3 DEF Tagged

LEMMA RegistrationsType ==
  ASSUME NEW cfg \in Choice
  PROVE  /\ Registrations(cfg) \in Seq(Items)
         /\ \A d \in DOMAIN Defaults :
               \E i \in DOMAIN Registrations(cfg) :
                  Registrations(cfg)[i] = <<"service", Defaults[d]>>
<1> DEFINE Ids == {ToolIds[i] : i \in DOMAIN ToolIds}
           head == IF cfg.builtin THEN Tagged("tool", ToolIds) ELSE <<>>
           mid == Tagged("service", Defaults)
           tail == Tagged("service", cfg.extra)
<1>1. head \in Seq(Items)
  <2>1. ToolIds \in Seq(Ids)
    <3>1. DOMAIN ToolIds = 1..Len(ToolIds) /\ Len(ToolIds) \in Nat
          /\ ToolIds = [i \in 1..Len(ToolIds) |-> ToolIds[i]]
      BY KernelAssumption, LenProperties
    <3>2. [i \in 1..Len(ToolIds) |-> ToolIds[i]] \in Seq(Ids)
      BY <3>1, IsASeq
    <3> QED
      BY <3>1, <3>2
  <2>2. Tagged("tool", ToolIds) \in Seq({"tool"} \X Ids)
    BY <2>1, TaggedType
  <2>3. Tagged("tool", ToolIds) \in Seq(Items)
    BY <2>2, SeqMonotonic, Zenon DEF Items
  <2> QED
    BY <2>3, EmptySeq
<1>2. mid \in Seq(Items) /\ tail \in Seq(Items)
  <2>1. Defaults \in Seq(Types) /\ cfg.extra \in Seq(Types)
    BY KernelAssumption DEF Choice
  <2>2. mid \in Seq({"service"} \X Types) /\ tail \in Seq({"service"} \X Types)
    BY <2>1, TaggedType
  <2> HIDE DEF mid, tail
  <2> QED
    BY <2>2, SeqMonotonic, Zenon DEF Items
<1>3. Registrations(cfg) = (head \o mid) \o tail
  BY DEF Registrations
<1>4. \A d \in DOMAIN Defaults : d \in DOMAIN mid /\ mid[d] = <<"service", Defaults[d]>>
  BY KernelAssumption, TaggedType
<1> HIDE DEF head, mid, tail
<1>5. head \o mid \in Seq(Items) /\ (head \o mid) \o tail \in Seq(Items)
  BY <1>1, <1>2, ConcatProperties
<1>6. ASSUME NEW d \in DOMAIN Defaults
      PROVE  \E i \in DOMAIN Registrations(cfg) :
                Registrations(cfg)[i] = <<"service", Defaults[d]>>
  <2>1. d \in 1..Len(mid) /\ Len(mid) \in Nat /\ Len(head) \in Nat /\ Len(tail) \in Nat
    BY <1>1, <1>2, <1>4, LenProperties
  <2>2. /\ Len(head \o mid) = Len(head) + Len(mid)
        /\ (head \o mid)[Len(head) + d] = mid[d]
        /\ Len(head) + d \in 1..Len(head \o mid)
    BY <1>1, <1>2, <2>1, ConcatProperties
  <2>3. /\ ((head \o mid) \o tail)[Len(head) + d] = mid[d]
        /\ Len(head) + d \in 1..Len((head \o mid) \o tail)
    BY <1>2, <1>5, <2>1, <2>2, ConcatProperties
  <2>4. DOMAIN ((head \o mid) \o tail) = 1..Len((head \o mid) \o tail)
    BY <1>5, LenProperties
  <2> QED
    BY <1>3, <1>4, <2>3, <2>4
<1> QED
  BY <1>3, <1>5, <1>6

(* What is in place stays there.                                           *)
LEMMA InPlaceStays ==
  ASSUME ContainerInv, KernelTypes, boot' = boot, ServicesStay,
         \A r \in Registries : toolIds[r] \subseteq toolIds'[r],
         NEW b \in Boots, NEW item \in Items, InPlace(b, item)
  PROVE  InPlace(b, item)'
<1>1. boot[b] \in Choice
  BY KernelAssumption DEF KernelTypes
<1>2. boot[b].home \in Containers /\ boot[b].tools \in Registries
  BY <1>1 DEF Choice
<1>3. CASE item[1] = "tool"
  BY <1>2, <1>3 DEF InPlace
<1>4. CASE item[1] # "tool"
  <2>1. item[2] \in Types
    BY <1>4 DEF Items
  <2>2. Its(b, item[2], instances[boot[b].home][item[2]])
    BY <1>4 DEF InPlace
  <2>3. Own(b) \in Instance /\ Own(b).by = "boot"
    BY KernelAssumption DEF Boots, Own, Instance
  <2>4. instances[boot[b].home][item[2]] \in Instance
    BY <2>2, <2>3 DEF Its
  <2>5. Its(b, item[2], instances[boot[b].home][item[2]])'
    BY <1>2, <2>1, <2>2, <2>3, <2>4 DEF ServicesStay, Its, Own
  <2> QED
    BY <1>4, <2>5 DEF InPlace
<1> QED
  BY <1>3, <1>4

-----------------------------------------------------------------------------
(* Steps that change the call of one thread and leave the kernels as they  *)
(* are.                                                                    *)
LEMMA EnteringType ==
  ASSUME NEW b \in {0} \cup Boots, NEW pc \in Pcs,
         NEW name \in {"none", "boot", "start", "shutdown", "health", "collect"}
  PROVE  Entering(name, b, pc) \in Entries
BY DEF Entering, NoReport, Entries, Reports, Read

LEMMA IdleType ==
  Idle \in Entries /\ Shape(Idle) /\ Idle.name = "none" /\ Idle.pc = "none"
BY EnteringType DEF Idle, Entering, Shape, Pcs

LEMMA SetKeeps ==
  ASSUME KernelTypes, NEW th \in Threads, NEW e \in Entries, Shape(e), Set(th, e)
  PROVE  /\ op' \in [Threads -> Entries] /\ \A x \in Threads : Shape(op'[x])
         /\ op'[th] = e /\ \A x \in Threads \ {th} : op'[x] = op[x]
<1> HIDE DEF Entries, Shape
<1> QED
  BY DEF KernelTypes, Set

LEMMA QuietKeeps ==
  ASSUME QuietInv, UNCHANGED <<state, detail>>, NEW th \in Threads,
         \A x \in Threads \ {th} : op'[x] = op[x],
         \/ op[th].pc \notin {"clear", "configure", "explain", "stopped"}
         \/ op'[th].pc = op[th].pc /\ op'[th].on = op[th].on
  PROVE  QuietInv'
<1>1. ASSUME NEW b \in Boots,
             NEW pcs \in SUBSET {"clear", "configure", "explain", "stopped"}, Within(b, pcs)
      PROVE  Within(b, pcs)'
  BY <1>1 DEF Within
<1>2. \A b \in Boots :
        /\ Within(b, {"clear", "configure"}) => Within(b, {"clear", "configure"})'
        /\ Within(b, {"stopped"}) => Within(b, {"stopped"})'
        /\ Within(b, {"configure", "explain"}) => Within(b, {"configure", "explain"})'
  BY <1>1
<1> HIDE DEF Within
<1> QED
  BY <1>2 DEF QuietInv

LEMMA ReportKeeps ==
  ASSUME ReportInv, UNCHANGED <<state, boot>>, contested \subseteq contested',
         NEW th \in Threads,
         \A x \in Threads \ {th} : op'[x] = op[x] /\ calls'[x] = calls[x],
         Reading(th)'
  PROVE  ReportInv'
<1>1. \A x \in Threads \ {th} : Reading(x)'
  BY DEF ReportInv, Reading, Told, Its, Own
<1> QED
  BY <1>1 DEF ReportInv

LEMMA ServicesStayPut ==
  ASSUME ContainerInv, KernelTypes, boot' = boot, ServicesStay,
         \A r \in Registries : toolIds[r] \subseteq toolIds'[r],
         NEW b \in Boots, Assembled(b)
  PROVE  Assembled(b)'
<1> DEFINE items == Registrations(boot[b])
<1>1. items \in Seq(Items)
  BY KernelAssumption, RegistrationsType DEF KernelTypes
<1>2. \A i \in DOMAIN items : items[i] \in Items
  BY <1>1, ElementOfSeq, LenProperties
<1>3. \A i \in DOMAIN items : InPlace(b, items[i])
  BY DEF Assembled
<1>4. \A i \in DOMAIN items : InPlace(b, items[i])'
  BY <1>2, <1>3, InPlaceStays
<1> HIDE DEF InPlace
<1> QED
  BY <1>4 DEF Assembled

LEMMA BootKeeps ==
  ASSUME ContainerInv, KernelTypes, BootInv, ServicesStay,
         UNCHANGED <<boot, stage, todo, toolIds>>, NEW th \in Threads,
         \A x \in Threads \ {th} : op'[x] = op[x],
         \/ op'[th].name = op[th].name /\ op'[th].on = op[th].on
         \/ /\ op[th].name # "boot" /\ op'[th].name # "boot"
            /\ op'[th].name = "start" => stage[op'[th].on] \in {"starting", "delivered"}
            /\ op'[th].name = "collect" => stage[op'[th].on] = "delivered"
  PROVE  BootInv'
<1>1. \A b \in Boots : Assembled(b) => Assembled(b)'
  BY ServicesStayPut
<1>2. ASSUME NEW b \in Boots, stage'[b] = "starting"
      PROVE  Assembled(b)'
  BY <1>1, <1>2 DEF BootInv
<1>3. ASSUME NEW b \in Boots, stage'[b] = "delivered", boot'[b].by_bootstrap
      PROVE  Assembled(b)'
  BY <1>1, <1>3 DEF BootInv
<1>4. ASSUME NEW b \in Boots, InPlaceOrTodo(b)
      PROVE  InPlaceOrTodo(b)'
  <2> DEFINE items == Registrations(boot[b])
  <2>1. items \in Seq(Items)
    BY KernelAssumption, RegistrationsType DEF KernelTypes
  <2>2. \A i \in DOMAIN items : items[i] \in Items
    BY <2>1, ElementOfSeq, LenProperties
  <2>3. \A i \in DOMAIN items : InPlace(b, items[i]) => InPlace(b, items[i])'
    BY <2>2, InPlaceStays
  <2> HIDE DEF items
  <2>4. \A i \in DOMAIN items :
          InPlace(b, items[i]) \/ \E j \in DOMAIN todo : todo[j] = items[i]
    BY <1>4 DEF InPlaceOrTodo, items
  <2>5. \A i \in DOMAIN items :
          InPlace(b, items[i])' \/ \E j \in DOMAIN todo' : todo'[j] = items[i]
    BY <2>3, <2>4
  <2> QED
    BY <2>5 DEF InPlaceOrTodo, items
<1>5. ASSUME NEW b \in Boots, stage'[b] = "registering"
      PROVE  op'[Main].name = "boot" /\ op'[Main].on = b /\ InPlaceOrTodo(b)'
  <2>1. stage[b] = "registering" /\ op[Main].name = "boot" /\ op[Main].on = b
        /\ InPlaceOrTodo(b)
    BY <1>5 DEF BootInv
  <2>2. op'[Main].name = "boot" /\ op'[Main].on = b
    BY <2>1, KernelAssumption
  <2> QED
    BY <1>4, <2>1, <2>2
<1> HIDE DEF InPlaceOrTodo, InPlace, Assembled
<1>6. /\ \A x \in Threads : op'[x].name = "boot" =>
             x = Main /\ stage'[op'[x].on] = "registering"
      /\ \A x \in Threads : op'[x].name = "start" =>
             stage'[op'[x].on] \in {"starting", "delivered"}
      /\ \A x \in Threads : op'[x].name = "collect" => stage'[op'[x].on] = "delivered"
  BY DEF BootInv
<1> QED
  BY <1>2, <1>3, <1>5, <1>6 DEF BootInv

LEMMA EntryKeeps ==
  ASSUME KernelInv, NEW th \in Threads, NEW e \in Entries, Shape(e), Set(th, e),
         UNCHANGED <<boot, stage, todo, toolIds, state, detail>>,
         ContainerInv', ServicesStay, adding' = adding,
         \A x \in Threads \ {th} : calls'[x] = calls[x],
         calls'[th] # <<>> => e.pc \in {"none", "providers", "tools"},
         \/ e.name = op[th].name /\ e.on = op[th].on
         \/ /\ op[th].name # "boot" /\ e.name # "boot"
            /\ e.name = "start" => stage[e.on] \in {"starting", "delivered"}
            /\ e.name = "collect" => stage[e.on] = "delivered",
         \/ op[th].pc \notin {"clear", "configure", "explain", "stopped"}
         \/ e.pc = op[th].pc /\ e.on = op[th].on,
         Reading(th)'
  PROVE  KernelInv'
<1>1. /\ op' \in [Threads -> Entries] /\ \A x \in Threads : Shape(op'[x])
      /\ op'[th] = e /\ \A x \in Threads \ {th} : op'[x] = op[x]
  BY SetKeeps DEF KernelInv
<1> HIDE DEF Entries, Shape
<1>2. KernelTypes'
  BY <1>1 DEF KernelInv, KernelTypes
<1>3. CallsInv'
  BY <1>1 DEF KernelInv, CallsInv
<1>4. BootInv'
  BY <1>1, BootKeeps DEF KernelInv
<1>5. QuietInv'
  BY <1>1, QuietKeeps DEF KernelInv
<1>6. ReportInv'
  BY <1>1, ReportKeeps DEF KernelInv, ServicesStay
<1>7. AddInv'
  <2>1. op'[Main].name = "boot" => op[Main].name = "boot" /\ op'[Main].on = op[Main].on
    BY <1>1, KernelAssumption
  <2> QED
    BY <2>1 DEF KernelInv, AddInv, Own
<1> QED
  BY <1>2, <1>3, <1>4, <1>5, <1>6, <1>7 DEF KernelInv

LEMMA Untouched ==
  ASSUME ContainerInv, UNCHANGED containerVars
  PROVE  /\ Keeps /\ ContainerInv' /\ ServicesStay
         /\ calls' = calls /\ adding' = adding
<1>1. ContainerTypeOK'
  BY DEF containerVars, histories, ContainerInv, ContainerTypeOK
<1>2. \A c, t : Calling(c, t)' = Calling(c, t)
  BY DEF containerVars, Calling
<1>3. Keeps
  BY <1>1, <1>2, CallsChange DEF containerVars, histories
<1> QED
  BY <1>3 DEF Keeps, containerVars

(* The entries of a thread that is in no call, or asks for a report.       *)
LEMMA IdleThread ==
  ASSUME KernelInv, NEW th \in Threads, IsIdle(th)
  PROVE  /\ op[th] = Idle /\ op[th].name = "none" /\ op[th].pc = "none"
         /\ calls[th] = <<>> /\ adding[th] = None
BY IdleType DEF IsIdle

LEMMA BeginsKeep ==
  ASSUME KernelInv, NEW th \in Threads, NEW b \in Boots, IsIdle(th), stage[b] = "delivered",
         NEW name \in {"start", "shutdown", "health"},
         NEW pc \in {"claim", "stop", "running?"},
         <<name, pc>> \in {<<"start", "claim">>, <<"shutdown", "stop">>, <<"health", "running?">>},
         Set(th, Entering(name, b, pc)),
         UNCHANGED <<containerVars, boot, stage, todo, toolIds, state, detail>>
  PROVE  KernelInv'
<1> DEFINE e == Entering(name, b, pc)
<1>1. e \in Entries /\ Shape(e)
  BY EnteringType DEF Entering, Shape, Pcs
<1>2. e.name = name /\ e.pc = pc /\ e.on = b /\ e.moved = FALSE
  BY DEF Entering
<1>3. ContainerInv' /\ ServicesStay /\ calls' = calls /\ adding' = adding
  BY Untouched DEF KernelInv
<1>4. op[th].name = "none" /\ op[th].pc = "none" /\ calls[th] = <<>>
  BY IdleThread
<1> HIDE DEF e
<1>5. op'[th] = e
  BY <1>1, SetKeeps DEF KernelInv, e
<1>6. Reading(th)'
  BY <1>2, <1>5 DEF Reading
<1> HIDE DEF Entries, Shape
<1> QED
  BY <1>1, <1>2, <1>3, <1>4, <1>6, EntryKeeps DEF e

LEMMA CallsKeep ==
  ASSUME KernelInv, NEW th \in Threads, NEW b \in Boots,
         CallStart(th, b) \/ CallShutdown(th, b) \/ CallHealth(th, b)
  PROVE  KernelInv'
<1>1. CASE CallStart(th, b)
  BY <1>1, BeginsKeep DEF CallStart, Reachable
<1>2. CASE CallShutdown(th, b)
  BY <1>2, BeginsKeep DEF CallShutdown, Reachable
<1>3. CASE CallHealth(th, b)
  BY <1>3, BeginsKeep DEF CallHealth, Reachable
<1> QED
  BY <1>1, <1>2, <1>3

LEMMA HealthStepKeeps ==
  ASSUME KernelInv, NEW th \in Threads, NEW b \in Boots, HealthStep(th, b)
  PROVE  KernelInv'
<1> DEFINE o == op[th]
<1>1. o \in Entries /\ Shape(o) /\ Reading(th) /\ state[b] \in States /\ o.on = b
  BY DEF KernelInv, KernelTypes, ReportInv, HealthStep
<1>2. PICK e \in Entries :
        /\ Set(th, e) /\ Shape(e) /\ e.name = o.name /\ e.on = o.on /\ e.moved = o.moved
        /\ o.pc \in {"running?", "failed?", "report"} /\ e.pc \in {"failed?", "report", "done"}
        /\ e.got.providers = o.got.providers /\ e.got.tools = o.got.tools
        /\ ~o.moved =>
              /\ e.pc = "failed?" => state[b] # "running"
              /\ e.pc = "report" => e.got.branch = Told(b)
              /\ e.pc = "done" =>
                    e.got.branch = IF e.got.state \in {"running", "failed"}
                                   THEN e.got.state ELSE "other"
  <2>1. CASE o.pc = "running?" /\ HealthTests(th, b, "running", "failed?")
    <3> DEFINE e == IF state[b] = "running"
                    THEN [o EXCEPT !.pc = "report", !.got.branch = "running"]
                    ELSE [o EXCEPT !.pc = "failed?"]
    <3>1. Set(th, e)
      <4>1. CASE state[b] = "running"
        BY <2>1, <4>1 DEF HealthTests
      <4>2. CASE state[b] # "running"
        <5>1. [o EXCEPT !.pc = "failed?", !.got.branch = @] = [o EXCEPT !.pc = "failed?"]
          BY <1>1 DEF Entries, Reports
        <5> QED
          BY <2>1, <4>2, <5>1 DEF HealthTests
      <4> QED
        BY <4>1, <4>2
    <3>2. e \in Entries /\ Shape(e)
      BY <1>1, <2>1 DEF Entries, Reports, Shape, Pcs
    <3>3. /\ e.name = o.name /\ e.on = o.on /\ e.moved = o.moved
          /\ e.got.providers = o.got.providers /\ e.got.tools = o.got.tools
          /\ e.pc = "failed?" => state[b] # "running"
          /\ e.pc = "report" => e.got.branch = Told(b)
          /\ e.pc \in {"failed?", "report"}
      BY <1>1, <2>1 DEF Entries, Reports, Told
    <3> QED
      BY <2>1, <3>1, <3>2, <3>3
  <2>2. CASE o.pc = "failed?" /\ HealthTests(th, b, "failed", "report")
    <3> DEFINE e == IF state[b] = "failed"
                    THEN [o EXCEPT !.pc = "report", !.got.branch = "failed"]
                    ELSE [o EXCEPT !.pc = "report", !.got.branch = "other"]
    <3>1. Set(th, e)
      BY <2>2 DEF HealthTests
    <3>2. e \in Entries /\ Shape(e)
      BY <1>1, <2>2 DEF Entries, Reports, Shape, Pcs
    <3>3. /\ e.name = o.name /\ e.on = o.on /\ e.moved = o.moved
          /\ e.got.providers = o.got.providers /\ e.got.tools = o.got.tools
          /\ e.pc = "report" /\ (~o.moved => e.got.branch = Told(b))
      BY <1>1, <2>2 DEF Entries, Reports, Told, Reading
    <3> QED
      BY <2>2, <3>1, <3>2, <3>3
  <2>3. CASE o.pc = "report" /\ Set(th, [o EXCEPT !.pc = "done", !.got.state = state[b]])
    <3> DEFINE e == [o EXCEPT !.pc = "done", !.got.state = state[b]]
    <3>2. e \in Entries /\ Shape(e)
      BY <1>1, <2>3 DEF Entries, Reports, Shape, Pcs
    <3>3. /\ e.name = o.name /\ e.on = o.on /\ e.moved = o.moved
          /\ e.got.providers = o.got.providers /\ e.got.tools = o.got.tools
          /\ e.pc = "done"
          /\ ~o.moved => e.got.branch = IF e.got.state \in {"running", "failed"}
                                        THEN e.got.state ELSE "other"
      BY <1>1, <2>3 DEF Entries, Reports, Told, Reading
    <3> QED
      BY <2>3, <3>2, <3>3
  <2> QED
    BY <2>1, <2>2, <2>3 DEF HealthStep
<1>3. ContainerInv' /\ ServicesStay /\ calls' = calls /\ adding' = adding
      /\ UNCHANGED <<boot, stage, todo, toolIds, state, detail>>
  <2>1. UNCHANGED containerVars /\ UNCHANGED <<boot, stage, todo, toolIds, state, detail>>
    BY DEF HealthStep
  <2> QED
    BY <2>1, Untouched DEF KernelInv
<1>4. op'[th] = e
  BY <1>2, SetKeeps DEF KernelInv
<1>5. calls[th] = <<>>
  BY <1>2 DEF KernelInv, CallsInv
<1>6. Reading(th)'
  <2> HIDE DEF Entries, Shape
  <2> QED
    BY <1>1, <1>2, <1>3, <1>4 DEF Reading, Told, Its, Own, ServicesStay
<1> HIDE DEF Entries, Shape
<1> QED
  BY <1>1, <1>2, <1>3, <1>5, <1>6, EntryKeeps

(* What a bootstrapped runtime finds when it looks up its registries.      *)
LEMMA DefaultsHeld ==
  ASSUME KernelInv, NEW b \in Boots, stage[b] = "delivered", boot[b].by_bootstrap,
         NEW t \in {ProvidersT, ToolsT}
  PROVE  /\ t \in Types /\ Its(b, t, instances[boot[b].home][t])
         /\ instances[boot[b].home][t] # None
<1>1. boot[b] \in Choice
  BY KernelAssumption DEF KernelInv, KernelTypes
<1>2. PICK d \in DOMAIN Defaults : Defaults[d] = t
  BY KernelAssumption
<1>3. t \in Types
  BY <1>2, KernelAssumption, ElementOfSeq, LenProperties
<1>4. PICK i \in DOMAIN Registrations(boot[b]) : Registrations(boot[b])[i] = <<"service", t>>
  BY <1>1, <1>2, RegistrationsType
<1>5. InPlace(b, <<"service", t>>)
  BY <1>4 DEF KernelInv, BootInv, Assembled
<1>6. Its(b, t, instances[boot[b].home][t])
  BY <1>5 DEF InPlace
<1>7. Own(b) \in Instance
  BY KernelAssumption DEF Own, Instance, Boots
<1>8. instances[boot[b].home][t] # None
  BY <1>6, <1>7, InstanceFacts DEF Its
<1> QED
  BY <1>3, <1>6, <1>8

LEMMA HeldType ==
  ASSUME KernelInv, NEW c \in Containers, NEW t \in Types
  PROVE  instances[c][t] \in Read
BY DEF KernelInv, ContainerInv, ContainerTypeOK, Read

LEMMA RegistryTypes == ProvidersT \in Types /\ ToolsT \in Types
BY KernelAssumption, ElementOfSeq, LenProperties

LEMMA EmptyFrames ==
  ASSUME NEW th \in Threads
  PROVE  <<>> \in Seq(Frame) /\ SameFrames(<<>>, th)
BY EmptySeq, LenProperties DEF SameFrames

LEMMA CallCollectKeeps ==
  ASSUME KernelInv, NEW th \in Threads, NEW b \in Boots, CallCollect(th, b)
  PROVE  KernelInv'
<1> DEFINE got == instances[boot[b].home][ProvidersT]
           e == [Entering("collect", b, "providers") EXCEPT !.got.providers = got]
<1>1. /\ IsIdle(th) /\ stage[b] = "delivered"
      /\ LookUp(th, boot[b].home, ProvidersT, <<>>) /\ Set(th, e)
      /\ UNCHANGED <<boot, stage, todo, toolIds, state, detail>>
  BY DEF CallCollect, Reachable
<1>2. boot[b].home \in Containers
  BY KernelAssumption DEF KernelInv, KernelTypes, Choice
<1>3. /\ ContainerInv' /\ ServicesStay /\ adding' = adding
      /\ \A x \in Threads \ {th} : calls'[x] = calls[x]
      /\ got # None => calls'[th] = <<>>
  BY <1>1, <1>2, LookUpKeeps, RegistryTypes, EmptyFrames DEF KernelInv, Keeps
<1>4. got \in Read
  BY <1>2, HeldType, RegistryTypes
<1>5. boot[b].by_bootstrap => Its(b, ProvidersT, got) /\ got # None
  BY <1>1, DefaultsHeld
<1> HIDE DEF got
<1>6. /\ e \in Entries /\ Shape(e) /\ e.name = "collect" /\ e.on = b /\ e.pc = "providers"
      /\ e.got.providers = got
  <2>1. Entering("collect", b, "providers") \in Entries
    BY EnteringType DEF Pcs
  <2> QED
    BY <1>4, <2>1 DEF Entries, Reports, Shape, Entering
<1>7. op[th].name = "none" /\ op[th].pc = "none"
  BY <1>1, IdleThread
<1> HIDE DEF e
<1>8. op'[th] = e
  BY <1>1, <1>6, SetKeeps DEF KernelInv
<1>9. Reading(th)'
  BY <1>1, <1>3, <1>5, <1>6, <1>8 DEF Reading, Its, Own, ServicesStay
<1> HIDE DEF Entries, Shape
<1> QED
  BY <1>1, <1>3, <1>6, <1>7, <1>9, EntryKeeps

LEMMA CollectProvidersKeeps ==
  ASSUME KernelInv, NEW th \in Threads, NEW b \in Boots, CollectProviders(th, b)
  PROVE  KernelInv'
<1>1. /\ op[th].name = "collect" /\ op[th].pc = "providers" /\ op[th].on = b
      /\ calls[th] = <<>> /\ UNCHANGED <<boot, stage, todo, toolIds, state, detail>>
  BY DEF CollectProviders, At
<1>2. op[th] \in Entries /\ Shape(op[th]) /\ stage[b] = "delivered" /\ Reading(th)
  BY <1>1 DEF KernelInv, KernelTypes, BootInv, ReportInv
<1>3. CASE op[th].got.providers = None
  <2>1. Set(th, Idle) /\ UNCHANGED containerVars
    BY <1>3 DEF CollectProviders
  <2>2. ContainerInv' /\ ServicesStay /\ calls' = calls /\ adding' = adding
    BY <2>1, Untouched DEF KernelInv
  <2>3. op'[th] = Idle
    BY <2>1, IdleType, SetKeeps DEF KernelInv
  <2>4. Reading(th)'
    BY <2>3, IdleType DEF Reading
  <2> HIDE DEF Entries, Shape
  <2> QED
    BY <1>1, <2>1, <2>2, <2>4, IdleType, EntryKeeps
<1>4. CASE op[th].got.providers # None
  <2> DEFINE got == instances[boot[b].home][ToolsT]
             e == [op[th] EXCEPT !.pc = "tools", !.got.tools = got]
  <2>1. LookUp(th, boot[b].home, ToolsT, <<>>) /\ Set(th, e)
    BY <1>4 DEF CollectProviders
  <2>2. boot[b].home \in Containers
    BY KernelAssumption DEF KernelInv, KernelTypes, Choice
  <2>3. /\ ContainerInv' /\ ServicesStay /\ adding' = adding
        /\ \A x \in Threads \ {th} : calls'[x] = calls[x]
        /\ got # None => calls'[th] = <<>>
    BY <2>1, <2>2, LookUpKeeps, RegistryTypes, EmptyFrames DEF KernelInv, Keeps
  <2>4. got \in Read
    BY <2>2, HeldType, RegistryTypes
  <2>5. boot[b].by_bootstrap => Its(b, ToolsT, got) /\ got # None
    BY <1>2, DefaultsHeld
  <2> HIDE DEF got
  <2>6. /\ e \in Entries /\ Shape(e) /\ e.name = "collect" /\ e.on = b /\ e.pc = "tools"
        /\ e.got.providers = op[th].got.providers /\ e.got.tools = got
    BY <1>1, <1>2, <2>4 DEF Entries, Reports, Shape, Pcs
  <2> HIDE DEF e
  <2>8. op'[th] = e
    BY <2>1, <2>6, SetKeeps DEF KernelInv
  <2>9. Reading(th)'
    BY <1>1, <1>2, <2>3, <2>5, <2>6, <2>8 DEF Reading, Its, Own, ServicesStay
  <2> HIDE DEF Entries, Shape
  <2> QED
    BY <1>1, <2>1, <2>3, <2>6, <2>9, EntryKeeps
<1> QED
  BY <1>3, <1>4

LEMMA CollectToolsKeeps ==
  ASSUME KernelInv, NEW th \in Threads, NEW b \in Boots, CollectTools(th, b)
  PROVE  KernelInv'
<1> DEFINE e == IF op[th].got.tools = None THEN Idle
                ELSE [op[th] EXCEPT !.pc = "running?", !.moved = FALSE]
<1>1. /\ op[th].name = "collect" /\ op[th].pc = "tools" /\ op[th].on = b
      /\ calls[th] = <<>> /\ Set(th, e)
      /\ UNCHANGED containerVars /\ UNCHANGED <<boot, stage, todo, toolIds, state, detail>>
  BY DEF CollectTools, At
<1>2. op[th] \in Entries /\ Shape(op[th]) /\ Reading(th)
  BY <1>1 DEF KernelInv, KernelTypes, ReportInv
<1>3. ContainerInv' /\ ServicesStay /\ calls' = calls /\ adding' = adding
  BY <1>1, Untouched DEF KernelInv
<1>4. e \in Entries /\ Shape(e) /\ e.name \in {"none", "collect"}
  BY <1>1, <1>2, IdleType DEF Entries, Shape, Pcs
<1>5. \/ e = Idle
      \/ /\ e.name = op[th].name /\ e.on = op[th].on /\ e.pc = "running?"
         /\ e.got = op[th].got
  BY <1>1, <1>2 DEF Entries
<1> HIDE DEF e
<1>6. op'[th] = e
  BY <1>1, <1>4, SetKeeps DEF KernelInv
<1>7. Reading(th)'
  BY <1>1, <1>2, <1>3, <1>5, <1>6, IdleType DEF Reading, Its, Own, ServicesStay
<1> HIDE DEF Entries, Shape
<1> QED
  BY <1>1, <1>3, <1>4, <1>5, <1>7, IdleType, EntryKeeps

LEMMA ReportReadKeeps ==
  ASSUME KernelInv, NEW th \in Threads, ReportRead(th)
  PROVE  KernelInv'
<1>1. /\ op[th].pc = "done" /\ Set(th, Idle) /\ UNCHANGED containerVars
      /\ UNCHANGED <<boot, stage, todo, toolIds, state, detail>>
  BY DEF ReportRead
<1>2. op[th].name # "boot" /\ calls[th] = <<>>
  BY <1>1 DEF KernelInv, KernelTypes, Shape, CallsInv
<1>3. ContainerInv' /\ ServicesStay /\ calls' = calls /\ adding' = adding
  BY <1>1, Untouched DEF KernelInv
<1>4. op'[th] = Idle
  BY <1>1, IdleType, SetKeeps DEF KernelInv
<1>5. Reading(th)'
  BY <1>4, IdleType DEF Reading
<1> HIDE DEF Entries, Shape
<1> QED
  BY <1>1, <1>2, <1>3, <1>5, IdleType, EntryKeeps

LEMMA SameEntry ==
  ASSUME KernelInv, NEW th \in Threads, op' = op
  PROVE  Set(th, op[th]) /\ op[th] \in Entries /\ Shape(op[th])
<1> HIDE DEF Entries, Shape
<1> QED
  BY DEF KernelInv, KernelTypes, Set

LEMMA ResolveKeeps ==
  ASSUME KernelInv, NEW th \in Threads, NEW c \in Containers, NEW t \in Types,
         Resolve(th, c, t)
  PROVE  KernelInv'
<1>1. /\ IsIdle(th) /\ LookUp(th, c, t, <<>>) /\ op' = op
      /\ UNCHANGED <<boot, stage, todo, toolIds, state, detail>>
  BY DEF Resolve, kernelVars
<1>2. /\ ContainerInv' /\ ServicesStay /\ adding' = adding
      /\ \A x \in Threads \ {th} : calls'[x] = calls[x]
  BY <1>1, LookUpKeeps, EmptyFrames DEF KernelInv, Keeps
<1>3. op[th].name = "none" /\ op[th].pc = "none"
  BY <1>1, IdleThread
<1>4. Reading(th)'
  BY <1>1, <1>3 DEF Reading
<1>5. Set(th, op[th]) /\ op[th] \in Entries /\ Shape(op[th])
  BY <1>1, SameEntry
<1> HIDE DEF Entries, Shape
<1> QED
  BY <1>1, <1>2, <1>3, <1>4, <1>5, EntryKeeps

LEMMA GoOnResolvingKeeps ==
  ASSUME KernelInv, NEW th \in Threads, GoOnResolving(th)
  PROVE  KernelInv'
<1>1. FactoryStep(th) /\ UNCHANGED <<boot, stage, todo, toolIds, state, detail>>
  BY DEF GoOnResolving, FactoryStep
<1>2. /\ ContainerInv' /\ ServicesStay /\ adding' = adding
      /\ calls[th] # <<>>
      /\ \A x \in Threads \ {th} : calls'[x] = calls[x]
      /\ Result(th) \in Instance \cup {None}
  BY <1>1, FactoryStepKeeps DEF KernelInv, Keeps
<1>3. /\ op[th] \in Entries /\ Shape(op[th]) /\ Reading(th)
      /\ op[th].pc \in {"none", "providers", "tools"}
  BY <1>2 DEF KernelInv, KernelTypes, CallsInv, ReportInv
<1>4. ~(op[th].name = "collect" /\ boot[op[th].on].by_bootstrap)
  BY <1>2, <1>3 DEF Reading
<1>5. PICK got \in Read :
         \/ op' = op
         \/ op[th].name = "collect" /\ op' = [op EXCEPT ![th].got[op[th].pc] = got]
  <2>1. ASSUME NEW got \in Read, Came(th, got)
        PROVE  \/ op' = op
               \/ op[th].name = "collect" /\ op' = [op EXCEPT ![th].got[op[th].pc] = got]
    BY <2>1 DEF Came
  <2>2. Result(th) \in Read /\ None \in Read /\ Unregistered \in Read
    BY <1>2 DEF Read
  <2>3. op' = op \/ \E got \in Read : Came(th, got)
    BY <2>2 DEF GoOnResolving
  <2> QED
    BY <2>1, <2>2, <2>3
<1>6. PICK e : /\ Set(th, e) /\ e \in Entries /\ Shape(e)
               /\ e.name = op[th].name /\ e.on = op[th].on /\ e.pc = op[th].pc
  <2>1. CASE op' = op
    BY <2>1, SameEntry
  <2>2. CASE op[th].name = "collect" /\ op' = [op EXCEPT ![th].got[op[th].pc] = got]
    <3> DEFINE f == [op[th] EXCEPT !.got[op[th].pc] = got]
    <3>1. op[th].pc \in {"providers", "tools"}
      BY <1>3, <2>2 DEF Shape
    <3>2. /\ f \in Entries /\ Shape(f)
          /\ f.name = op[th].name /\ f.on = op[th].on /\ f.pc = op[th].pc
      BY <1>3, <2>2, <3>1 DEF Entries, Reports, Shape
    <3>3. Set(th, f)
      BY <2>2 DEF Set
    <3> QED
      BY <3>2, <3>3
  <2> QED
    BY <1>5, <2>1, <2>2
<1> HIDE DEF Entries, Shape
<1>7. op'[th] = e
  BY <1>6, SetKeeps DEF KernelInv
<1>8. Reading(th)'
  BY <1>1, <1>3, <1>4, <1>6, <1>7 DEF Reading
<1> QED
  BY <1>1, <1>2, <1>3, <1>6, <1>8, EntryKeeps

(* A registration of the application changes the container only.           *)
LEMMA RegistrationKeeps ==
  ASSUME KernelInv, UNCHANGED kernelVars, Keeps, calls' = calls, AddInv'
  PROVE  KernelInv'
<1>0. UNCHANGED <<boot, stage, todo, toolIds, state, detail, op>>
  BY DEF kernelVars
<1>1. Main \in Threads /\ ContainerInv' /\ ServicesStay
  BY KernelAssumption DEF Keeps
<1> HIDE DEF Entries, Shape
<1>2. KernelTypes' /\ CallsInv'
  BY <1>0 DEF KernelInv, KernelTypes, CallsInv
<1>3. BootInv'
  BY <1>0, <1>1, BootKeeps DEF KernelInv
<1>4. QuietInv'
  BY <1>0, <1>1, QuietKeeps DEF KernelInv
<1>5. Reading(Main)'
  <2>1. Reading(Main)
    BY <1>1 DEF KernelInv, ReportInv
  <2> QED
    BY <1>0, <1>1, <2>1 DEF Reading, Told, Its, Own, ServicesStay
<1>6. ReportInv'
  BY <1>0, <1>1, <1>5, ReportKeeps DEF KernelInv, ServicesStay
<1> QED
  BY <1>1, <1>2, <1>3, <1>4, <1>6 DEF KernelInv

LEMMA RegisterKeeps ==
  ASSUME KernelInv, NEW th \in Threads, NEW c \in Containers, NEW t \in Types,
         Register(th, c, t)
  PROVE  KernelInv'
<1>1. IsIdle(th) /\ UNCHANGED kernelVars
  BY DEF Register
<1>2. PICK value \in Instance \cup {None} : RegisterBegins(th, c, t, value)
  <2>1. Given(th) \in Instance
    BY DEF Given, Instance
  <2> QED
    BY <2>1 DEF Register
<1>3. Keeps /\ calls' = calls /\ \A x \in Threads \ {th} : adding'[x] = adding[x]
  BY <1>2, RegisterBeginsKeeps DEF KernelInv
<1>4. AddInv'
  <2>1. CASE th = Main
    <3>1. op[Main].name = "none" /\ op' = op
      BY <1>1, <2>1, IdleThread DEF kernelVars
    <3> QED
      BY <3>1 DEF AddInv
  <2>2. CASE th # Main
    <3>1. adding'[Main] = adding[Main] /\ UNCHANGED <<op, boot, todo>>
      BY <1>1, <1>3, <2>2, KernelAssumption DEF kernelVars
    <3> QED
      BY <3>1 DEF KernelInv, AddInv, Own
  <2> QED
    BY <2>1, <2>2
<1> QED
  BY <1>1, <1>3, <1>4, RegistrationKeeps

LEMMA GoOnRegisteringKeeps ==
  ASSUME KernelInv, NEW th \in Threads, GoOnRegistering(th)
  PROVE  KernelInv'
<1>1. UNCHANGED kernelVars
  BY DEF GoOnRegistering
<1>2. /\ Keeps /\ calls' = calls /\ \A x \in Threads \ {th} : adding'[x] = adding[x]
      /\ adding'[th] = None \/ adding'[th].at = "kind"
  <2>1. CASE RegisterWrites(th)
    BY <2>1, RegisterWritesKeeps DEF KernelInv
  <2>2. CASE \E kind \in {"yes", "no"} : RegisterEnds(th, kind)
    BY <2>2, RegisterEndsKeeps DEF KernelInv
  <2> QED
    BY <2>1, <2>2 DEF GoOnRegistering
<1>3. AddInv'
  <2>1. CASE th = Main
    BY <1>2, <2>1 DEF AddInv
  <2>2. CASE th # Main
    <3>1. adding'[Main] = adding[Main] /\ UNCHANGED <<op, boot, todo>>
      BY <1>1, <1>2, <2>2, KernelAssumption DEF kernelVars
    <3> QED
      BY <3>1 DEF KernelInv, AddInv, Own
  <2> QED
    BY <2>1, <2>2
<1> QED
  BY <1>1, <1>2, <1>3, RegistrationKeeps

-----------------------------------------------------------------------------
(* The steps of start() and shutdown(): they write the state of a kernel,  *)
(* under the eyes of the threads that are reading it.                      *)
Lives(th, b) == op[th].name \in {"start", "shutdown"} /\ op[th].on = b

LEMMA LivesOn ==
  ASSUME KernelInv, NEW th \in Threads, NEW b \in Boots, Lives(th, b)
  PROVE  /\ op[th] \in Entries /\ Shape(op[th]) /\ calls[th] = <<>>
         /\ op[th].pc \in {"claim", "clear", "configure", "explain", "stop", "stopped"}
         /\ op[th].name = "start" => stage[b] \in {"starting", "delivered"}
<1>1. op[th] \in Entries /\ Shape(op[th])
  BY DEF KernelInv, KernelTypes
<1>2. op[th].pc \in {"claim", "clear", "configure", "explain", "stop", "stopped"}
  BY <1>1 DEF Lives, Shape
<1> QED
  BY <1>1, <1>2 DEF Lives, KernelInv, CallsInv, BootInv

(* The next entry of such a thread.                                        *)
Onward(th, b, e) ==
    /\ e \in Entries /\ Shape(e) /\ e.moved = FALSE
    /\ e.name \in {"none", op[th].name}
    /\ e.name # "none" => e.on = b

LEMMA OnwardType ==
  ASSUME KernelInv, NEW th \in Threads, NEW b \in Boots, Lives(th, b)
  PROVE  /\ Onward(th, b, Idle)
         /\ op[th].name = "start" =>
               \A pc \in {"clear", "configure", "explain"} : Onward(th, b, Entering("start", b, pc))
         /\ op[th].name = "shutdown" => Onward(th, b, Entering("shutdown", b, "stopped"))
<1>1. Onward(th, b, Idle)
  BY IdleType DEF Onward, Idle, Entering
<1>2. ASSUME NEW pc \in {"clear", "configure", "explain"}, op[th].name = "start"
      PROVE  Onward(th, b, Entering("start", b, pc))
  <2>1. Entering("start", b, pc) \in Entries
    BY EnteringType DEF Pcs
  <2> QED
    BY <1>2, <2>1 DEF Onward, Entering, Shape
<1>3. ASSUME op[th].name = "shutdown"
      PROVE  Onward(th, b, Entering("shutdown", b, "stopped"))
  <2>1. Entering("shutdown", b, "stopped") \in Entries
    BY EnteringType DEF Pcs
  <2> QED
    BY <1>3, <2>1 DEF Onward, Entering, Shape
<1> QED
  BY <1>1, <1>2, <1>3

(* What the step does to the other threads: a reader may be told.          *)
Watched(x) ==
    /\ op'[x] \in Entries /\ Shape(op'[x])
    /\ op'[x].name = op[x].name /\ op'[x].on = op[x].on /\ op'[x].pc = op[x].pc
    /\ op'[x].got = op[x].got /\ (op[x].moved => op'[x].moved)

LEMMA WriteStateKeeps ==
  ASSUME KernelInv, NEW th \in Threads, NEW b \in Boots, NEW e, Lives(th, b),
         Onward(th, b, e), NEW value \in States, WriteState(th, b, value, e)
  PROVE  /\ op' \in [Threads -> Entries] /\ op'[th] = e
         /\ state' \in [Boots -> States] /\ state'[b] = value
         /\ \A y \in Boots \ {b} : state'[y] = state[y]
         /\ \A x \in Threads \ {th} : Watched(x)
         /\ \A x \in Threads \ {th} :
               op[x].on = b /\ op[x].name \in {"health", "collect"} => op'[x].moved
<1>1. /\ state' = [state EXCEPT ![b] = value]
      /\ op' = [x \in Threads |->
                 IF x = th THEN e
                 ELSE IF op[x].on = b /\ op[x].name \in {"health", "collect"}
                      THEN [op[x] EXCEPT !.moved = TRUE] ELSE op[x]]
  BY DEF WriteState
<1>2. \A x \in Threads : op[x] \in Entries /\ Shape(op[x])
  BY DEF KernelInv, KernelTypes
<1>3. ASSUME NEW x \in Threads
      PROVE  /\ [op[x] EXCEPT !.moved = TRUE] \in Entries
             /\ Shape([op[x] EXCEPT !.moved = TRUE])
             /\ [op[x] EXCEPT !.moved = TRUE].name = op[x].name
             /\ [op[x] EXCEPT !.moved = TRUE].on = op[x].on
             /\ [op[x] EXCEPT !.moved = TRUE].pc = op[x].pc
             /\ [op[x] EXCEPT !.moved = TRUE].got = op[x].got
             /\ [op[x] EXCEPT !.moved = TRUE].moved
  BY <1>2 DEF Entries, Shape
<1>4. e \in Entries
  BY DEF Onward
<1> HIDE DEF Entries, Shape
<1>5. op' \in [Threads -> Entries] /\ op'[th] = e
  BY <1>1, <1>2, <1>3, <1>4
<1>6. ASSUME NEW x \in Threads \ {th}
      PROVE  /\ Watched(x)
             /\ op[x].on = b /\ op[x].name \in {"health", "collect"} => op'[x].moved
  <2>1. CASE op[x].on = b /\ op[x].name \in {"health", "collect"}
    <3>1. op'[x] = [op[x] EXCEPT !.moved = TRUE]
      BY <1>1, <2>1
    <3> QED
      BY <1>3, <3>1 DEF Watched
  <2>2. CASE ~(op[x].on = b /\ op[x].name \in {"health", "collect"})
    <3>1. op'[x] = op[x]
      BY <1>1, <2>2
    <3> QED
      BY <1>2, <2>2, <3>1 DEF Watched
  <2> QED
    BY <2>1, <2>2
<1>7. /\ state' \in [Boots -> States] /\ state'[b] = value
      /\ \A y \in Boots \ {b} : state'[y] = state[y]
  BY <1>1 DEF KernelInv, KernelTypes
<1> QED
  BY <1>5, <1>6, <1>7

LEMMA SetWatched ==
  ASSUME KernelInv, NEW th \in Threads, NEW b \in Boots, NEW e, Onward(th, b, e), Set(th, e)
  PROVE  /\ op' \in [Threads -> Entries] /\ op'[th] = e
         /\ \A x \in Threads \ {th} : Watched(x)
<1>1. e \in Entries /\ Shape(e)
  BY DEF Onward
<1> HIDE DEF Entries, Shape
<1>2. /\ op' \in [Threads -> Entries] /\ \A x \in Threads : Shape(op'[x])
      /\ op'[th] = e /\ \A x \in Threads \ {th} : op'[x] = op[x]
  BY <1>1, SetKeeps DEF KernelInv
<1> QED
  BY <1>2 DEF Watched

(* Everything but QuietInv, which is about what the step itself writes.    *)
LEMMA LifeKeeps ==
  ASSUME KernelInv, NEW th \in Threads, NEW b \in Boots, NEW e, Lives(th, b),
         Onward(th, b, e), op' \in [Threads -> Entries], op'[th] = e,
         \A x \in Threads \ {th} : Watched(x),
         state' \in [Boots -> States], detail' \in [Boots -> BOOLEAN],
         \A y \in Boots \ {b} : state'[y] = state[y],
         state' = state \/ \A x \in Threads \ {th} :
               op[x].on = b /\ op[x].name \in {"health", "collect"} => op'[x].moved,
         \/ stage' = stage
         \/ op[th].name = "start" /\ stage' = [stage EXCEPT ![b] = "delivered"],
         UNCHANGED <<containerVars, boot, todo, toolIds>>
  PROVE  /\ ContainerInv' /\ KernelTypes' /\ CallsInv' /\ BootInv' /\ ReportInv'
         /\ AddInv'
<1>1. ContainerInv' /\ ServicesStay /\ calls' = calls /\ adding' = adding
  BY Untouched DEF KernelInv
<1>2. /\ op[th] \in Entries /\ calls[th] = <<>>
      /\ op[th].name = "start" => stage[b] \in {"starting", "delivered"}
      /\ op[th].name \in {"start", "shutdown"} /\ op[th].on = b
  BY LivesOn DEF Lives
<1>3. e \in Entries /\ Shape(e) /\ e.moved = FALSE
      /\ e.name \in {"none", op[th].name} /\ (e.name # "none" => e.on = b)
  BY DEF Onward
<1>4. /\ stage' \in [Boots -> {"waiting", "registering", "starting", "delivered", "failed"}]
      /\ \A y \in Boots \ {b} : stage'[y] = stage[y]
      /\ stage'[b] = stage[b]
            \/ (stage[b] \in {"starting", "delivered"} /\ stage'[b] = "delivered")
  <2>1. stage \in [Boots -> {"waiting", "registering", "starting", "delivered", "failed"}]
    BY DEF KernelInv, KernelTypes
  <2>2. CASE stage' = stage
    BY <2>1, <2>2
  <2>3. CASE op[th].name = "start" /\ stage' = [stage EXCEPT ![b] = "delivered"]
    BY <1>2, <2>1, <2>3
  <2> QED
    BY <2>2, <2>3
<1>5. KernelTypes'
  <2>1. \A x \in Threads : Shape(op'[x])
    BY <1>3 DEF Watched
  <2> HIDE DEF Entries, Shape
  <2> QED
    BY <1>4, <2>1 DEF KernelInv, KernelTypes
<1>6. CallsInv'
  BY <1>1, <1>2 DEF KernelInv, CallsInv, Watched
<1>7. BootInv'
  <2>1. \A x \in Threads \ {th} : op'[x].name = op[x].name /\ op'[x].on = op[x].on
    BY DEF Watched
  <2>2. \A y \in Boots : Assembled(y) => Assembled(y)'
    BY <1>1, ServicesStayPut DEF KernelInv
  <2>3. ASSUME NEW y \in Boots, InPlaceOrTodo(y)
        PROVE  InPlaceOrTodo(y)'
    BY <2>3 DEF InPlaceOrTodo, InPlace, Its, Own, containerVars
  <2>4. \A x \in Threads : op'[x].name = "boot" => x = Main /\ stage'[op'[x].on] = "registering"
    <3>1. ASSUME NEW x \in Threads, op'[x].name = "boot"
          PROVE  x = Main /\ stage'[op'[x].on] = "registering"
      <4>1. x # th /\ op[x].name = "boot" /\ op'[x].on = op[x].on
        BY <1>2, <1>3, <2>1, <3>1
      <4>2. x = Main /\ stage[op[x].on] = "registering" /\ op[x].on \in Boots
        BY <4>1 DEF KernelInv, BootInv, KernelTypes, Shape
      <4> QED
        BY <1>4, <4>1, <4>2
    <3> QED
      BY <3>1
  <2>5. \A x \in Threads : op'[x].name = "start" => stage'[op'[x].on] \in {"starting", "delivered"}
    BY <1>2, <1>3, <1>4, <2>1 DEF KernelInv, BootInv, KernelTypes, Shape
  <2>6. \A x \in Threads : op'[x].name = "collect" => stage'[op'[x].on] = "delivered"
    BY <1>2, <1>3, <1>4, <2>1 DEF KernelInv, BootInv, KernelTypes, Shape
  <2>7. ASSUME NEW y \in Boots, stage'[y] = "registering"
        PROVE  op'[Main].name = "boot" /\ op'[Main].on = y /\ InPlaceOrTodo(y)'
    <3>1. stage[y] = "registering"
      BY <1>4, <2>7
    <3>2. op[Main].name = "boot" /\ op[Main].on = y /\ InPlaceOrTodo(y)
      BY <3>1 DEF KernelInv, BootInv
    <3>3. op'[Main].name = "boot" /\ op'[Main].on = y
      BY <1>2, <2>1, <3>2, KernelAssumption
    <3> QED
      BY <2>3, <3>2, <3>3
  <2>8. ASSUME NEW y \in Boots, stage'[y] = "starting"
        PROVE  Assembled(y)'
    BY <1>4, <2>2, <2>8 DEF KernelInv, BootInv
  <2>9. ASSUME NEW y \in Boots, stage'[y] = "delivered", boot'[y].by_bootstrap
        PROVE  Assembled(y)'
    BY <1>4, <2>2, <2>9 DEF KernelInv, BootInv
  <2> QED
    BY <2>4, <2>5, <2>6, <2>7, <2>8, <2>9 DEF BootInv
<1>8. ReportInv'
  <2>1. ASSUME NEW x \in Threads \ {th}
        PROVE  Reading(x)'
    <3>1. Reading(x) /\ Shape(op[x])
      BY DEF KernelInv, ReportInv, KernelTypes
    <3>2. /\ op'[x].name = op[x].name /\ op'[x].on = op[x].on /\ op'[x].pc = op[x].pc
          /\ op'[x].got = op[x].got /\ (op[x].moved => op'[x].moved)
      BY DEF Watched
    <3>3. ASSUME ~op'[x].moved, op[x].pc \in {"failed?", "report"}
          PROVE  state'[op[x].on] = state[op[x].on] /\ ~op[x].moved
      <4>1. op[x].name \in {"health", "collect"} /\ op[x].on \in Boots
        <5>1. op[x] \in Entries
          BY DEF KernelInv, KernelTypes
        <5>2. op[x].name \in {"none", "boot", "start", "shutdown", "health", "collect"}
          BY <5>1 DEF Entries
        <5> QED
          BY <3>1, <3>3, <5>2 DEF Shape
      <4> QED
        BY <3>2, <3>3, <4>1
    <3>4. ~op'[x].moved =>
            /\ op'[x].pc = "failed?" => state'[op'[x].on] # "running"
            /\ op'[x].pc = "report" =>
                 op'[x].got.branch = IF state'[op'[x].on] \in {"running", "failed"}
                                     THEN state'[op'[x].on] ELSE "other"
            /\ op'[x].pc = "done" =>
                 op'[x].got.branch = IF op'[x].got.state \in {"running", "failed"}
                                     THEN op'[x].got.state ELSE "other"
      <4>1. ~op'[x].moved /\ op'[x].pc = "failed?" => state'[op'[x].on] # "running"
        BY <3>1, <3>2, <3>3 DEF Reading
      <4>2. ~op'[x].moved /\ op'[x].pc = "report" =>
               op'[x].got.branch = IF state'[op'[x].on] \in {"running", "failed"}
                                   THEN state'[op'[x].on] ELSE "other"
        BY <3>1, <3>2, <3>3 DEF Reading, Told
      <4>3. ~op'[x].moved /\ op'[x].pc = "done" =>
               op'[x].got.branch = IF op'[x].got.state \in {"running", "failed"}
                                   THEN op'[x].got.state ELSE "other"
        BY <3>1, <3>2 DEF Reading
      <4> QED
        BY <4>1, <4>2, <4>3
    <3>5. op'[x].name = "collect" /\ boot'[op'[x].on].by_bootstrap =>
            /\ calls'[x] = <<>>
            /\ Its(op[x].on, ProvidersT, op[x].got.providers)'
            /\ op'[x].pc # "providers" => Its(op[x].on, ToolsT, op[x].got.tools)'
      BY <1>1, <3>1, <3>2 DEF Reading, Its, Own, containerVars
    <3> QED
      BY <3>4, <3>5 DEF Reading, Its, Own, Told
  <2>2. Reading(th)'
    <3>1. e.name \in {"none", "start", "shutdown"}
      BY <1>2, <1>3
    <3>2. e.pc \notin {"failed?", "report", "done"}
      BY <1>3, <3>1 DEF Shape
    <3> QED
      BY <3>1, <3>2 DEF Reading
  <2> QED
    BY <2>1, <2>2 DEF ReportInv
<1>9. AddInv'
  <2>1. op'[Main].name = "boot" => op[Main].name = "boot" /\ op'[Main].on = op[Main].on
    BY <1>2, <1>3, KernelAssumption DEF Watched
  <2> QED
    BY <1>1, <2>1 DEF KernelInv, AddInv, Own
<1> QED
  BY <1>1, <1>5, <1>6, <1>7, <1>8, <1>9

(* QuietInv for the kernels that the step does not write, and for b.       *)
LEMMA QuietFrom ==
  ASSUME QuietInv, NEW th \in Threads, NEW b \in Boots, op[th].on = b,
         \A x \in Threads \ {th} : Watched(x),
         \A y \in Boots \ {b} : state'[y] = state[y] /\ (detail[y] => detail'[y]),
         state'[b] = "starting" => Within(b, {"clear", "configure"})',
         state'[b] = "stopping" => Within(b, {"stopped"})',
         state'[b] = "failed" => detail'[b] \/ Within(b, {"configure", "explain"})'
  PROVE  QuietInv'
<1>1. ASSUME NEW y \in Boots \ {b}, NEW pcs, Within(y, pcs)
      PROVE  Within(y, pcs)'
  <2>1. PICK x \in Threads : op[x].on = y /\ op[x].pc \in pcs
    BY <1>1 DEF Within
  <2>2. x \in Threads \ {th}
    BY <2>1
  <2>3. op'[x].on = y /\ op'[x].pc \in pcs
    BY <2>1, <2>2 DEF Watched
  <2> QED
    BY <2>3 DEF Within
<1>2. ASSUME NEW y \in Boots \ {b}
      PROVE  /\ state'[y] = "starting" => Within(y, {"clear", "configure"})'
             /\ state'[y] = "stopping" => Within(y, {"stopped"})'
             /\ state'[y] = "failed" => detail'[y] \/ Within(y, {"configure", "explain"})'
  BY <1>1 DEF QuietInv
<1> HIDE DEF Within
<1> QED
  BY <1>2 DEF QuietInv

(* A witness for b other than the thread that takes the step.              *)
LEMMA WithinOthers ==
  ASSUME NEW th \in Threads, NEW b \in Boots, NEW pcs, Within(b, pcs),
         op[th].pc \notin pcs, \A x \in Threads \ {th} : Watched(x)
  PROVE  Within(b, pcs)'
<1>1. PICK x \in Threads : op[x].on = b /\ op[x].pc \in pcs
  BY DEF Within
<1>2. x \in Threads \ {th}
  BY <1>1
<1>3. op'[x].on = b /\ op'[x].pc \in pcs
  BY <1>1, <1>2 DEF Watched
<1> QED
  BY <1>3 DEF Within

LEMMA WithinSelf ==
  ASSUME NEW th \in Threads, NEW b \in Boots, NEW pcs, op'[th].on = b, op'[th].pc \in pcs
  PROVE  Within(b, pcs)'
BY DEF Within

LEMMA WritersKeep ==
  ASSUME KernelInv, NEW th \in Threads, NEW b \in Boots, NEW e, Lives(th, b),
         Onward(th, b, e), NEW value \in States, WriteState(th, b, value, e),
         detail' = detail,
         \/ stage' = stage
         \/ op[th].name = "start" /\ stage' = [stage EXCEPT ![b] = "delivered"],
         UNCHANGED <<containerVars, boot, todo, toolIds>>,
         value = "starting" => e.on = b /\ e.pc \in {"clear", "configure"},
         value = "stopping" => e.on = b /\ e.pc \in {"stopped"},
         value = "failed" => e.on = b /\ e.pc \in {"configure", "explain"}
  PROVE  KernelInv'
<1>1. /\ op' \in [Threads -> Entries] /\ op'[th] = e
      /\ state' \in [Boots -> States] /\ state'[b] = value
      /\ \A y \in Boots \ {b} : state'[y] = state[y]
      /\ \A x \in Threads \ {th} : Watched(x)
      /\ \A x \in Threads \ {th} :
            op[x].on = b /\ op[x].name \in {"health", "collect"} => op'[x].moved
  BY WriteStateKeeps
<1>2. detail' \in [Boots -> BOOLEAN]
  BY DEF KernelInv, KernelTypes
<1>3. /\ ContainerInv' /\ KernelTypes' /\ CallsInv' /\ BootInv' /\ ReportInv'
      /\ AddInv'
  BY <1>1, <1>2, LifeKeeps
<1>4. QuietInv'
  <2>1. op[th].on = b /\ QuietInv
    BY DEF Lives, KernelInv
  <2>2. /\ state'[b] = "starting" => Within(b, {"clear", "configure"})'
        /\ state'[b] = "stopping" => Within(b, {"stopped"})'
        /\ state'[b] = "failed" => Within(b, {"configure", "explain"})'
    BY <1>1, WithinSelf
  <2> QED
    BY <1>1, <2>1, <2>2, QuietFrom
<1> QED
  BY <1>3, <1>4 DEF KernelInv

LEMMA StatesWritten ==
  ASSUME KernelInv, NEW th \in Threads, NEW b \in Boots,
         \/ StartClaims(th, b) \/ StartConfigures(th, b)
         \/ ShutdownStops(th, b) \/ ShutdownEnds(th, b)
  PROVE  KernelInv'
<1>0. {"starting", "running", "failed", "stopping", "stopped"} \subseteq States
  BY DEF States, Startable
<1>i. Idle.pc = "none"
  BY IdleType
<1>e. \A name, pc : Entering(name, b, pc).on = b /\ Entering(name, b, pc).pc = pc
  BY DEF Entering
<1>1. CASE StartClaims(th, b)
  <2> DEFINE e == Entering("start", b, "clear")
  <2>1. /\ op[th].name = "start" /\ Lives(th, b)
        /\ WriteState(th, b, "starting", e)
        /\ UNCHANGED <<containerVars, boot, stage, todo, toolIds, detail>>
    BY <1>1 DEF StartClaims, At, Lives
  <2>2. Onward(th, b, e) /\ e.on = b /\ e.pc = "clear"
    BY <1>e, <2>1, OnwardType
  <2> HIDE DEF e
  <2> QED
    BY <1>0, <2>1, <2>2, WritersKeep
<1>2. CASE StartConfigures(th, b)
  <2> DEFINE e == Entering("start", b, "explain")
  <2>1. /\ op[th].name = "start" /\ Lives(th, b)
        /\ WriteState(th, b, "running", Idle) \/ WriteState(th, b, "failed", e)
        /\ stage' = [stage EXCEPT ![b] = "delivered"]
        /\ UNCHANGED <<containerVars, boot, todo, toolIds, detail>>
    BY <1>2 DEF StartConfigures, At, Lives
  <2>2. Onward(th, b, e) /\ e.on = b /\ e.pc = "explain" /\ Onward(th, b, Idle)
    BY <1>e, <2>1, OnwardType
  <2> HIDE DEF e
  <2>3. CASE WriteState(th, b, "running", Idle)
    BY <1>0, <2>1, <2>2, <2>3, WritersKeep
  <2>4. CASE WriteState(th, b, "failed", e)
    BY <1>0, <2>1, <2>2, <2>4, WritersKeep
  <2> QED
    BY <2>1, <2>3, <2>4
<1>3. CASE ShutdownStops(th, b)
  <2> DEFINE e == Entering("shutdown", b, "stopped")
  <2>1. /\ op[th].name = "shutdown" /\ Lives(th, b)
        /\ WriteState(th, b, "stopping", e)
        /\ UNCHANGED <<containerVars, boot, stage, todo, toolIds, detail>>
    BY <1>3 DEF ShutdownStops, At, Lives
  <2>2. Onward(th, b, e) /\ e.on = b /\ e.pc = "stopped"
    BY <1>e, <2>1, OnwardType
  <2> HIDE DEF e
  <2> QED
    BY <1>0, <2>1, <2>2, WritersKeep
<1>4. CASE ShutdownEnds(th, b)
  <2>1. /\ Lives(th, b) /\ WriteState(th, b, "stopped", Idle)
        /\ UNCHANGED <<containerVars, boot, stage, todo, toolIds, detail>>
    BY <1>4 DEF ShutdownEnds, At, Lives
  <2>2. Onward(th, b, Idle)
    BY <2>1, OnwardType
  <2> QED
    BY <1>0, <2>1, <2>2, WritersKeep
<1> QED
  BY <1>1, <1>2, <1>3, <1>4

LEMMA DetailsWritten ==
  ASSUME KernelInv, NEW th \in Threads, NEW b \in Boots,
         StartClears(th, b) \/ StartExplains(th, b)
  PROVE  KernelInv'
<1>1. PICK e \in Entries :
        /\ op[th].name = "start" /\ Lives(th, b) /\ Onward(th, b, e) /\ Set(th, e)
        /\ UNCHANGED <<containerVars, boot, stage, todo, toolIds, state>>
        /\ \/ /\ op[th].pc = "clear" /\ e.on = b /\ e.pc = "configure"
              /\ detail' = [detail EXCEPT ![b] = FALSE]
           \/ op[th].pc = "explain" /\ detail' = [detail EXCEPT ![b] = TRUE]
  <2>1. CASE StartClears(th, b)
    <3> DEFINE e == Entering("start", b, "configure")
    <3>1. /\ op[th].name = "start" /\ Lives(th, b) /\ Set(th, e) /\ op[th].pc = "clear"
          /\ detail' = [detail EXCEPT ![b] = FALSE]
          /\ UNCHANGED <<containerVars, boot, stage, todo, toolIds, state>>
      BY <2>1 DEF StartClears, At, Lives
    <3>2. Onward(th, b, e)
      BY <3>1, OnwardType
    <3>3. e.on = b /\ e.pc = "configure"
      BY DEF Entering
    <3>4. e \in Entries
      BY <3>2 DEF Onward
    <3> HIDE DEF e
    <3> QED
      BY <3>1, <3>2, <3>3, <3>4
  <2>2. CASE StartExplains(th, b)
    <3>1. /\ op[th].name = "start" /\ Lives(th, b) /\ Set(th, Idle) /\ op[th].pc = "explain"
          /\ detail' = [detail EXCEPT ![b] = TRUE]
          /\ UNCHANGED <<containerVars, boot, stage, todo, toolIds, state>>
      BY <2>2 DEF StartExplains, At, Lives
    <3>2. Onward(th, b, Idle)
      BY <3>1, OnwardType
    <3> QED
      BY <3>1, <3>2, IdleType
  <2> QED
    BY <2>1, <2>2
<1>2. /\ op' \in [Threads -> Entries] /\ op'[th] = e
      /\ \A x \in Threads \ {th} : Watched(x)
  BY <1>1, SetWatched
<1>3. /\ detail' \in [Boots -> BOOLEAN] /\ (op[th].pc = "explain" => detail'[b])
      /\ \A y \in Boots \ {b} : detail'[y] = detail[y]
      /\ state' \in [Boots -> States]
  BY <1>1 DEF KernelInv, KernelTypes
<1>4. /\ ContainerInv' /\ KernelTypes' /\ CallsInv' /\ BootInv' /\ ReportInv'
      /\ AddInv'
  BY <1>1, <1>2, <1>3, LifeKeeps
<1>5. QuietInv'
  <2>1. op[th].on = b /\ QuietInv
    BY <1>1 DEF Lives, KernelInv
  <2>2. state'[b] = "starting" => Within(b, {"clear", "configure"})'
    <3>1. CASE op[th].pc = "clear"
      BY <1>1, <1>2, <3>1, WithinSelf
    <3>2. CASE op[th].pc = "explain"
      BY <1>1, <1>2, <2>1, <3>2, WithinOthers DEF QuietInv
    <3> QED
      BY <1>1, <3>1, <3>2
  <2>3. state'[b] = "stopping" => Within(b, {"stopped"})'
    BY <1>1, <1>2, <2>1, WithinOthers DEF QuietInv
  <2>4. detail'[b] \/ Within(b, {"configure", "explain"})'
    <3>1. CASE op[th].pc = "clear"
      BY <1>1, <1>2, <3>1, WithinSelf
    <3>2. CASE op[th].pc = "explain"
      BY <1>3, <3>2
    <3> QED
      BY <1>1, <3>1, <3>2
  <2> QED
    BY <1>1, <1>2, <1>3, <2>1, <2>2, <2>3, <2>4, QuietFrom
<1> QED
  BY <1>4, <1>5 DEF KernelInv

-----------------------------------------------------------------------------
(* The steps of the assembly, which leave every kernel as it is.           *)
LEMMA BootStepKeeps ==
  ASSUME KernelInv, ContainerInv', ServicesStay, AddInv', calls' = calls,
         UNCHANGED <<boot, state, detail>>,
         NEW e \in Entries, Shape(e), Set(Main, e), e.name \in {"none", "boot", "start"},
         op[Main].name \in {"none", "boot"}, calls[Main] = <<>>,
         todo' \in Seq(Items),
         stage' \in [Boots -> {"waiting", "registering", "starting", "delivered", "failed"}],
         toolIds' \in [Registries -> SUBSET {ToolIds[i] : i \in DOMAIN ToolIds}],
         BootInv'
  PROVE  KernelInv'
<1>1. Main \in Threads
  BY KernelAssumption
<1>2. /\ op' \in [Threads -> Entries] /\ \A x \in Threads : Shape(op'[x])
      /\ op'[Main] = e /\ \A x \in Threads \ {Main} : op'[x] = op[x]
  BY <1>1, SetKeeps DEF KernelInv
<1>3. op[Main].pc \notin {"clear", "configure", "explain", "stopped"}
  BY <1>1 DEF KernelInv, KernelTypes, Shape
<1>4. e.pc \notin {"failed?", "report", "done"}
  BY DEF Shape
<1> HIDE DEF Entries, Shape
<1>5. KernelTypes'
  BY <1>2 DEF KernelInv, KernelTypes
<1>6. CallsInv'
  BY <1>2 DEF KernelInv, CallsInv
<1>7. QuietInv'
  BY <1>1, <1>2, <1>3, QuietKeeps DEF KernelInv
<1>8. Reading(Main)'
  BY <1>2, <1>4 DEF Reading
<1>9. ReportInv'
  BY <1>1, <1>2, <1>8, ReportKeeps DEF KernelInv, ServicesStay
<1> QED
  BY <1>5, <1>6, <1>7, <1>9 DEF KernelInv

(* A boot is not in the middle of a registration.                          *)
LEMMA NoneAdded ==
  ASSUME adding[Main] = None, adding' = adding
  PROVE  AddInv'
BY DEF AddInv

(* While the main thread assembles b, or nothing, no other boot does.      *)
LEMMA OnlyBoot ==
  ASSUME KernelInv
  PROVE  /\ Main \in Threads /\ op[Main] \in Entries /\ Shape(op[Main])
         /\ \A x \in Threads : op[x].name = "boot" => x = Main
         /\ \A y \in Boots : stage[y] = "registering" =>
               op[Main].name = "boot" /\ op[Main].on = y
         /\ op[Main].name = "boot" => stage[op[Main].on] = "registering"
         /\ \A x \in Threads : op[x].name \in {"start", "collect"} => op[x].on \in Boots
BY KernelAssumption DEF KernelInv, KernelTypes, BootInv, Shape

LEMMA BootBeginsKeeps ==
  ASSUME KernelInv, NEW b \in Boots, BootBegins(b)
  PROVE  KernelInv'
<1>1. /\ IsIdle(Main) /\ stage[b] = "waiting"
      /\ UNCHANGED containerVars /\ UNCHANGED <<boot, toolIds, state, detail>>
  BY DEF BootBegins
<1>2. /\ Main \in Threads /\ op[Main].name = "none" /\ calls[Main] = <<>>
      /\ adding[Main] = None
  BY <1>1, KernelAssumption, IdleThread
<1>3. ContainerInv' /\ ServicesStay /\ calls' = calls /\ adding' = adding
  BY <1>1, Untouched DEF KernelInv
<1>4. \A y \in Boots : Assembled(y) => Assembled(y)'
  BY <1>1, <1>3, ServicesStayPut DEF KernelInv
<1>a. AddInv'
  BY <1>2, <1>3, NoneAdded
<1>5. /\ \A x \in Threads : op[x].name # "boot"
      /\ \A y \in Boots : stage[y] # "registering"
  BY <1>2, OnlyBoot
<1>6. CASE boot[b].by_bootstrap
  <2> DEFINE e == Entering("boot", b, "register")
  <2>1. /\ stage' = [stage EXCEPT ![b] = "registering"]
        /\ todo' = Registrations(boot[b]) /\ Set(Main, e)
    BY <1>6 DEF BootBegins
  <2>2. e \in Entries /\ Shape(e) /\ e.name = "boot" /\ e.on = b
    BY EnteringType DEF Entering, Shape, Pcs
  <2> HIDE DEF e
  <2>3. op'[Main] = e /\ \A x \in Threads \ {Main} : op'[x] = op[x]
    BY <1>2, <2>1, <2>2, SetKeeps DEF KernelInv
  <2>4. /\ stage' \in [Boots -> {"waiting", "registering", "starting", "delivered", "failed"}]
        /\ stage'[b] = "registering" /\ \A y \in Boots \ {b} : stage'[y] = stage[y]
    BY <2>1 DEF KernelInv, KernelTypes
  <2>5. todo' \in Seq(Items)
    BY <2>1, RegistrationsType, KernelAssumption DEF KernelInv, KernelTypes
  <2>6. InPlaceOrTodo(b)'
    BY <1>1, <2>1 DEF InPlaceOrTodo
  <2>7. BootInv'
    <3>1. \A x \in Threads : op'[x].name = "boot" => x = Main /\ stage'[op'[x].on] = "registering"
      BY <1>5, <2>2, <2>3, <2>4
    <3>2. \A x \in Threads : op'[x].name = "start" => stage'[op'[x].on] \in {"starting", "delivered"}
      BY <1>1, <2>2, <2>3, <2>4, OnlyBoot DEF KernelInv, BootInv
    <3>3. \A x \in Threads : op'[x].name = "collect" => stage'[op'[x].on] = "delivered"
      BY <1>1, <2>2, <2>3, <2>4, OnlyBoot DEF KernelInv, BootInv
    <3>4. ASSUME NEW y \in Boots, stage'[y] = "registering"
          PROVE  op'[Main].name = "boot" /\ op'[Main].on = y /\ InPlaceOrTodo(y)'
      <4>1. y = b
        BY <1>5, <2>4, <3>4
      <4> QED
        BY <2>2, <2>3, <2>6, <4>1
    <3>5. ASSUME NEW y \in Boots, stage'[y] = "starting"
          PROVE  Assembled(y)'
      BY <1>4, <2>4, <3>5 DEF KernelInv, BootInv
    <3>6. ASSUME NEW y \in Boots, stage'[y] = "delivered", boot'[y].by_bootstrap
          PROVE  Assembled(y)'
      BY <1>1, <1>4, <2>4, <3>6 DEF KernelInv, BootInv
    <3> QED
      BY <3>1, <3>2, <3>3, <3>4, <3>5, <3>6 DEF BootInv
  <2>8. toolIds' \in [Registries -> SUBSET {ToolIds[i] : i \in DOMAIN ToolIds}]
    BY <1>1 DEF KernelInv, KernelTypes
  <2> HIDE DEF Entries, Shape
  <2>9. KernelInv'
    BY <1>1, <1>2, <1>3, <2>1, <2>2, <2>4, <2>5, <2>7, <2>8, <1>a, BootStepKeeps
  <2> QED
    BY <1>3, <2>9
<1>7. CASE ~boot[b].by_bootstrap
  <2>1. /\ stage' = [stage EXCEPT ![b] = "delivered"] /\ UNCHANGED <<todo, op>>
    BY <1>7 DEF BootBegins
  <2>2. /\ stage' \in [Boots -> {"waiting", "registering", "starting", "delivered", "failed"}]
        /\ stage'[b] = "delivered" /\ \A y \in Boots \ {b} : stage'[y] = stage[y]
    BY <2>1 DEF KernelInv, KernelTypes
  <2>3. BootInv'
    <3>1. \A x \in Threads : op'[x].name # "boot"
      BY <1>5, <2>1
    <3>2. \A x \in Threads : op'[x].name = "start" => stage'[op'[x].on] \in {"starting", "delivered"}
      BY <2>1, <2>2, OnlyBoot DEF KernelInv, BootInv
    <3>3. \A x \in Threads : op'[x].name = "collect" => stage'[op'[x].on] = "delivered"
      BY <2>1, <2>2, OnlyBoot DEF KernelInv, BootInv
    <3>4. \A y \in Boots : stage'[y] # "registering"
      BY <1>5, <2>2
    <3>5. ASSUME NEW y \in Boots, stage'[y] = "starting"
          PROVE  Assembled(y)'
      BY <1>4, <2>2, <3>5 DEF KernelInv, BootInv
    <3>6. ASSUME NEW y \in Boots, stage'[y] = "delivered", boot'[y].by_bootstrap
          PROVE  Assembled(y)'
      BY <1>1, <1>4, <1>7, <2>2, <3>6 DEF KernelInv, BootInv
    <3> QED
      BY <3>1, <3>2, <3>3, <3>4, <3>5, <3>6 DEF BootInv
  <2>4. Set(Main, op[Main]) /\ op[Main] \in Entries /\ Shape(op[Main])
    BY <1>2, <2>1, SameEntry
  <2>5. todo' \in Seq(Items)
        /\ toolIds' \in [Registries -> SUBSET {ToolIds[i] : i \in DOMAIN ToolIds}]
    BY <1>1, <2>1 DEF KernelInv, KernelTypes
  <2> HIDE DEF Entries, Shape
  <2>6. KernelInv'
    BY <1>1, <1>2, <1>3, <2>2, <2>3, <2>4, <2>5, <1>a, BootStepKeeps
  <2> QED
    BY <1>3, <2>6
<1> QED
  BY <1>6, <1>7

(* A step of the boot b: what is about other boots stays as it was.        *)
LEMMA AssemblyKeeps ==
  ASSUME KernelInv, ContainerInv', ServicesStay, AddInv', calls' = calls,
         UNCHANGED <<boot, state, detail>>, NEW b \in Boots,
         op[Main].name = "boot", op[Main].on = b,
         NEW e \in Entries, Shape(e), Set(Main, e), e.name \in {"none", "boot", "start"},
         todo' \in Seq(Items),
         toolIds' \in [Registries -> SUBSET {ToolIds[i] : i \in DOMAIN ToolIds}],
         \A r \in Registries : toolIds[r] \subseteq toolIds'[r],
         stage' \in [Boots -> {"waiting", "registering", "starting", "delivered", "failed"}],
         \A y \in Boots \ {b} : stage'[y] = stage[y],
         e.name = "boot" => e.on = b /\ stage'[b] = "registering",
         e.name = "start" => e.on = b /\ stage'[b] = "starting",
         stage'[b] = "registering" => e.name = "boot" /\ InPlaceOrTodo(b)',
         stage'[b] \in {"starting", "delivered"} => Assembled(b)'
  PROVE  KernelInv'
<1>1. /\ Main \in Threads /\ stage[b] = "registering"
      /\ \A x \in Threads : op[x].name = "boot" => x = Main
      /\ \A y \in Boots \ {b} : stage[y] # "registering"
      /\ \A x \in Threads : op[x].name \in {"start", "collect"} => op[x].on \in Boots
  BY OnlyBoot
<1>2. op'[Main] = e /\ \A x \in Threads \ {Main} : op'[x] = op[x]
  BY <1>1, SetKeeps DEF KernelInv
<1>3. \A y \in Boots : Assembled(y) => Assembled(y)'
  BY ServicesStayPut DEF KernelInv
<1>4. calls[Main] = <<>>
  BY <1>1 DEF KernelInv, KernelTypes, Shape, CallsInv
<1>5. BootInv'
  <2>1. \A x \in Threads : op'[x].name = "boot" => x = Main /\ stage'[op'[x].on] = "registering"
    BY <1>1, <1>2
  <2>2. \A x \in Threads : op'[x].name = "start" => stage'[op'[x].on] \in {"starting", "delivered"}
    BY <1>1, <1>2 DEF KernelInv, BootInv
  <2>3. \A x \in Threads : op'[x].name = "collect" => stage'[op'[x].on] = "delivered"
    BY <1>1, <1>2 DEF KernelInv, BootInv
  <2>4. ASSUME NEW y \in Boots, stage'[y] = "registering"
        PROVE  op'[Main].name = "boot" /\ op'[Main].on = y /\ InPlaceOrTodo(y)'
    <3>1. y = b
      BY <1>1, <2>4
    <3> QED
      BY <1>2, <2>4, <3>1
  <2>5. ASSUME NEW y \in Boots, stage'[y] = "starting"
        PROVE  Assembled(y)'
    BY <1>3, <2>5 DEF KernelInv, BootInv
  <2>6. ASSUME NEW y \in Boots, stage'[y] = "delivered", boot'[y].by_bootstrap
        PROVE  Assembled(y)'
    BY <1>3, <2>6 DEF KernelInv, BootInv
  <2> QED
    BY <2>1, <2>2, <2>3, <2>4, <2>5, <2>6 DEF BootInv
<1> HIDE DEF Entries, Shape
<1> QED
  BY <1>4, <1>5, BootStepKeeps

LEMMA BootFailsKeeps ==
  ASSUME KernelInv, NEW b \in Boots, op[Main].name = "boot", op[Main].on = b,
         adding[Main] = None, BootFails(b),
         UNCHANGED containerVars, UNCHANGED <<boot, toolIds, state, detail>>
  PROVE  KernelInv'
<1>1. /\ stage' = [stage EXCEPT ![b] = "failed"] /\ todo' = <<>> /\ Set(Main, Idle)
  BY DEF BootFails
<1>2. ContainerInv' /\ ServicesStay /\ calls' = calls /\ adding' = adding
  BY Untouched DEF KernelInv
<1>3. /\ stage' \in [Boots -> {"waiting", "registering", "starting", "delivered", "failed"}]
      /\ stage'[b] = "failed" /\ \A y \in Boots \ {b} : stage'[y] = stage[y]
      /\ toolIds' \in [Registries -> SUBSET {ToolIds[i] : i \in DOMAIN ToolIds}]
      /\ \A r \in Registries : toolIds[r] \subseteq toolIds'[r]
  BY <1>1 DEF KernelInv, KernelTypes
<1>4. todo' \in Seq(Items)
  BY <1>1, EmptySeq
<1>5. Idle \in Entries /\ Shape(Idle) /\ Idle.name = "none"
  BY IdleType
<1> HIDE DEF Entries, Shape
<1>6. KernelInv'
  BY <1>1, <1>2, <1>3, <1>4, <1>5, NoneAdded, AssemblyKeeps
<1> QED
  BY <1>2, <1>6

(* A boot registers the next item, which is then in place.                 *)
LEMMA ItemRegistered ==
  ASSUME KernelInv, NEW b \in Boots, op[Main].name = "boot", op[Main].on = b,
         ContainerInv', ServicesStay, AddInv', calls' = calls,
         UNCHANGED <<boot, stage, op, state, detail>>,
         toolIds' \in [Registries -> SUBSET {ToolIds[i] : i \in DOMAIN ToolIds}],
         \A r \in Registries : toolIds[r] \subseteq toolIds'[r],
         todo # <<>>, todo' = Tail(todo),
         NEW item, item = Head(todo), InPlace(b, item)'
  PROVE  KernelInv'
<1>1. todo \in Seq(Items) /\ stage[b] = "registering" /\ InPlaceOrTodo(b)
  BY OnlyBoot DEF KernelInv, KernelTypes, BootInv
<1>2. /\ Tail(todo) \in Seq(Items) /\ Len(Tail(todo)) = Len(todo) - 1 /\ Len(todo) \in Nat
      /\ DOMAIN todo = 1..Len(todo) /\ DOMAIN Tail(todo) = 1..(Len(todo) - 1)
      /\ \A i \in 1..(Len(todo) - 1) : Tail(todo)[i] = todo[i + 1]
      /\ Head(todo) = todo[1]
  BY <1>1, LenProperties, HeadTailProperties
<1> DEFINE items == Registrations(boot[b])
<1>3. items \in Seq(Items) /\ \A i \in DOMAIN items : items[i] \in Items
  <2>1. items \in Seq(Items)
    BY KernelAssumption, RegistrationsType DEF KernelInv, KernelTypes
  <2> QED
    BY <2>1, ElementOfSeq, LenProperties
<1>4. \A i \in DOMAIN items : InPlace(b, items[i]) => InPlace(b, items[i])'
  BY <1>3, InPlaceStays DEF KernelInv
<1>5. \A i \in DOMAIN items :
        InPlace(b, items[i]) \/ \E j \in DOMAIN todo : todo[j] = items[i]
  BY <1>1 DEF InPlaceOrTodo
<1> HIDE DEF items
<1>6. ASSUME NEW i \in DOMAIN items
      PROVE  InPlace(b, items[i])' \/ \E j \in DOMAIN todo' : todo'[j] = items[i]
  <2>1. CASE InPlace(b, items[i])
    BY <1>4, <2>1
  <2>2. ASSUME NEW j \in DOMAIN todo, todo[j] = items[i]
        PROVE  InPlace(b, items[i])' \/ \E k \in DOMAIN todo' : todo'[k] = items[i]
    <3>1. CASE j = 1
      <4>1. item = items[i]
        BY <1>2, <2>2, <3>1
      <4>2. items'[i] = items[i]
        BY DEF items
      <4> QED
        BY <4>1, <4>2 DEF InPlace, Its, Own
    <3>2. CASE j # 1
      <4>1. j - 1 \in 1..(Len(todo) - 1) /\ todo[(j - 1) + 1] = todo[j]
        BY <1>2, <3>2
      <4>2. j - 1 \in DOMAIN todo' /\ todo'[j - 1] = items[i]
        BY <1>2, <2>2, <4>1
      <4> QED
        BY <4>2
    <3> QED
      BY <3>1, <3>2
  <2> QED
    BY <1>5, <2>1, <2>2
<1>7. InPlaceOrTodo(b)'
  BY <1>6 DEF InPlaceOrTodo, items
<1>8. Main \in Threads
  BY KernelAssumption
<1>9. Set(Main, op[Main]) /\ op[Main] \in Entries /\ Shape(op[Main])
  BY <1>8, SameEntry
<1>10. /\ stage' \in [Boots -> {"waiting", "registering", "starting", "delivered", "failed"}]
       /\ todo' \in Seq(Items)
  BY <1>2 DEF KernelInv, KernelTypes
<1> HIDE DEF Entries, Shape
<1> QED
  BY <1>1, <1>7, <1>9, <1>10, AssemblyKeeps

LEMMA BootRegistersToolKeeps ==
  ASSUME KernelInv, NEW b \in Boots, BootRegistersTool(b)
  PROVE  KernelInv'
<1>0. PICK item : item = Head(todo)
  OBVIOUS
<1> DEFINE r == boot[b].tools
           id == item[2]
<1>1. /\ op[Main].name = "boot" /\ op[Main].on = b /\ todo # <<>> /\ item[1] = "tool"
      /\ adding[Main] = None
      /\ UNCHANGED containerVars /\ UNCHANGED <<boot, state, detail>>
  BY <1>0 DEF BootRegistersTool, At
<1>2. CASE id \in toolIds[r]
  <2>1. BootFails(b) /\ UNCHANGED toolIds
    BY <1>0, <1>2 DEF BootRegistersTool
  <2> QED
    BY <1>1, <2>1, BootFailsKeeps
<1>3. CASE id \notin toolIds[r]
  <2>1. /\ toolIds' = [toolIds EXCEPT ![r] = @ \cup {id}]
        /\ todo' = Tail(todo) /\ UNCHANGED <<stage, op>>
    BY <1>0, <1>3 DEF BootRegistersTool
  <2>2. ContainerInv' /\ ServicesStay /\ calls' = calls /\ adding' = adding
    BY <1>1, Untouched DEF KernelInv
  <2>3. r \in Registries
    BY KernelAssumption DEF KernelInv, KernelTypes, Choice
  <2>4. id \in {ToolIds[i] : i \in DOMAIN ToolIds}
    <3>1. item \in Items
      BY <1>0, <1>1, HeadTailProperties DEF KernelInv, KernelTypes
    <3> QED
      BY <1>1, <3>1 DEF Items
  <2> HIDE DEF id, r
  <2>5. /\ toolIds' \in [Registries -> SUBSET {ToolIds[i] : i \in DOMAIN ToolIds}]
        /\ \A x \in Registries : toolIds[x] \subseteq toolIds'[x]
        /\ id \in toolIds'[r]
    BY <2>1, <2>3, <2>4 DEF KernelInv, KernelTypes
  <2>6. InPlace(b, item)'
    BY <1>1, <2>5 DEF InPlace, id, r
  <2>7. KernelInv'
    BY <1>0, <1>1, <2>1, <2>2, <2>5, <2>6, NoneAdded, ItemRegistered
  <2> QED
    BY <2>2, <2>7
<1> QED
  BY <1>2, <1>3

(* register_instance() of the next service, up to its write ...            *)
LEMMA BootChecksServiceKeeps ==
  ASSUME KernelInv, NEW b \in Boots, BootChecksService(b)
  PROVE  KernelInv'
<1>0. PICK item, c, t : item = Head(todo) /\ c = boot[b].home /\ t = item[2]
  OBVIOUS
<1>1. /\ op[Main].name = "boot" /\ op[Main].on = b /\ todo # <<>> /\ item[1] = "service"
      /\ adding[Main] = None /\ UNCHANGED <<boot, toolIds, state, detail>>
  BY <1>0 DEF BootChecksService, At
<1>2. CASE IsRegistered(c, t)
  <2>1. BootFails(b) /\ UNCHANGED containerVars
    BY <1>0, <1>2 DEF BootChecksService
  <2> QED
    BY <1>1, <2>1, BootFailsKeeps
<1>3. CASE ~IsRegistered(c, t)
  <2>1. RegisterBegins(Main, c, t, Own(b)) /\ UNCHANGED <<stage, todo, op>>
    BY <1>0, <1>3 DEF BootChecksService
  <2>2. c \in Containers /\ Main \in Threads
    BY <1>0, KernelAssumption DEF KernelInv, KernelTypes, Choice
  <2>3. item \in Items
    BY <1>0, <1>1, HeadTailProperties DEF KernelInv, KernelTypes
  <2>4. t \in Types /\ item = <<"service", t>>
    BY <1>0, <1>1, <2>3 DEF Items
  <2>5. Own(b) \in Instance
    BY KernelAssumption DEF Own, Instance, Boots
  <2>6. /\ Keeps /\ calls' = calls
        /\ Adds(Main, c, t)' /\ adding'[Main].value = Own(b)
    <3>1. ContainerInv
      BY DEF KernelInv
    <3> QED
      BY <2>1, <2>2, <2>4, <2>5, <3>1, RegisterBeginsKeeps
  <2>7. AddInv'
    BY <1>0, <1>1, <2>1, <2>4, <2>6 DEF AddInv, Adds, Own
  <2>8. UNCHANGED kernelVars
    BY <1>1, <2>1 DEF kernelVars
  <2> QED
    BY <2>6, <2>7, <2>8, RegistrationKeeps
<1> QED
  BY <1>2, <1>3

(* ... and its write, which puts the boot's own instance in place.         *)
LEMMA BootWritesServiceKeeps ==
  ASSUME KernelInv, BootWritesService
  PROVE  KernelInv'
<1>0. PICK item, b : item = Head(todo) /\ b = op[Main].on
  OBVIOUS
<1>1. /\ op[Main].name = "boot" /\ RegisterWrites(Main) /\ todo' = Tail(todo)
      /\ UNCHANGED <<boot, stage, op, toolIds, state, detail>>
  BY DEF BootWritesService, At
<1>2. b \in Boots /\ Main \in Threads
  BY <1>0, <1>1, KernelAssumption DEF KernelInv, KernelTypes, Shape
<1>3. /\ Keeps /\ calls' = calls
      /\ adding[Main] # None /\ adding[Main].at = "value" /\ adding'[Main].at = "kind"
      /\ adding[Main].value # None =>
            instances'[adding[Main].c][adding[Main].t] = adding[Main].value
  BY <1>1, <1>2, RegisterWritesKeeps DEF KernelInv
<1>4. /\ todo # <<>> /\ item = <<"service", adding[Main].t>>
      /\ adding[Main].c = boot[b].home /\ adding[Main].value = Own(b)
  BY <1>0, <1>1, <1>3 DEF KernelInv, AddInv
<1>5. Own(b) # None
  <2>1. Own(b) \in Instance
    BY <1>2, KernelAssumption DEF Own, Instance, Boots
  <2> QED
    BY <2>1, InstanceFacts
<1>6. InPlace(b, item)'
  <2>1. instances'[boot'[b].home][item[2]] = Own(b) /\ item[1] = "service"
    BY <1>1, <1>3, <1>4, <1>5
  <2> QED
    BY <2>1 DEF InPlace, Its, Own
<1>7. AddInv'
  BY <1>3 DEF AddInv
<1>8. /\ toolIds' \in [Registries -> SUBSET {ToolIds[i] : i \in DOMAIN ToolIds}]
      /\ \A x \in Registries : toolIds[x] \subseteq toolIds'[x]
  BY <1>1 DEF KernelInv, KernelTypes
<1>9. ContainerInv' /\ ServicesStay
  BY <1>3 DEF Keeps
<1> QED
  BY <1>0, <1>1, <1>2, <1>3, <1>4, <1>6, <1>7, <1>8, <1>9, ItemRegistered

LEMMA BootStartsKeeps ==
  ASSUME KernelInv, NEW b \in Boots, BootStarts(b)
  PROVE  KernelInv'
<1> DEFINE e == Entering("start", b, "claim")
<1>1. /\ op[Main].name = "boot" /\ op[Main].on = b /\ todo = <<>> /\ adding[Main] = None
      /\ stage' = [stage EXCEPT ![b] = "starting"] /\ Set(Main, e)
      /\ UNCHANGED containerVars /\ UNCHANGED <<boot, todo, toolIds, state, detail>>
  BY DEF BootStarts, At
<1>2. ContainerInv' /\ ServicesStay /\ calls' = calls /\ adding' = adding
  BY <1>1, Untouched DEF KernelInv
<1>3. Assembled(b)'
  <2>1. InPlaceOrTodo(b)
    BY <1>1, OnlyBoot DEF KernelInv, BootInv
  <2>2. DOMAIN todo = {}
    <3>1. DOMAIN todo = 1..Len(todo) /\ Len(todo) = 0
      BY <1>1, EmptySeq, LenProperties
    <3> QED
      BY <3>1
  <2>3. Assembled(b)
    BY <2>1, <2>2 DEF InPlaceOrTodo, Assembled
  <2> QED
    BY <1>1, <1>2, <2>3, ServicesStayPut DEF KernelInv
<1>4. e \in Entries /\ Shape(e) /\ e.name = "start" /\ e.on = b
  BY EnteringType DEF Entering, Shape, Pcs
<1> HIDE DEF e
<1>5. /\ stage' \in [Boots -> {"waiting", "registering", "starting", "delivered", "failed"}]
      /\ stage'[b] = "starting" /\ \A y \in Boots \ {b} : stage'[y] = stage[y]
      /\ todo' \in Seq(Items)
      /\ toolIds' \in [Registries -> SUBSET {ToolIds[i] : i \in DOMAIN ToolIds}]
      /\ \A r \in Registries : toolIds[r] \subseteq toolIds'[r]
  BY <1>1 DEF KernelInv, KernelTypes
<1> HIDE DEF Entries, Shape
<1>6. KernelInv'
  BY <1>1, <1>2, <1>3, <1>4, <1>5, NoneAdded, AssemblyKeeps
<1> QED
  BY <1>2, <1>6

-----------------------------------------------------------------------------
(* The invariant of the whole.                                             *)
LEMMA InitKernelInv == Init => KernelInv
<1> SUFFICES ASSUME Init PROVE KernelInv
  OBVIOUS
<1> USE DEF Init
<1>1. ContainerInv
  <2>1. calls \in [Threads -> Seq(Frame)]
    BY EmptySeq DEF ContainerInit
  <2>2. ContainerTypeOK
    BY <2>1, ContainerAssumption DEF ContainerInit, ContainerTypeOK
  <2>3. MadeByFactories /\ KindFollows
    <3>1. \A th \in Threads : DOMAIN calls[th] = {}
      BY EmptySeq, LenProperties DEF ContainerInit
    <3> QED
      BY <3>1 DEF ContainerInit, MadeByFactories, KindFollows
  <2>4. SoloInv
    BY DEF ContainerInit, SoloInv, Solo, Adds, IsRegistered
  <2> QED
    BY <2>2, <2>3, <2>4 DEF ContainerInv
<1>2. op \in [Threads -> Entries] /\ \A th \in Threads : op[th] = Idle /\ Shape(op[th])
  <2> HIDE DEF Entries, Shape
  <2> QED
    BY IdleType
<1>3. KernelTypes
  <2>1. todo \in Seq(Items)
    BY EmptySeq
  <2>2. /\ state \in [Boots -> States] /\ detail \in [Boots -> BOOLEAN]
        /\ stage \in [Boots -> {"waiting", "registering", "starting", "delivered", "failed"}]
        /\ toolIds \in [Registries -> SUBSET {ToolIds[i] : i \in DOMAIN ToolIds}]
    BY DEF States, Startable
  <2> HIDE DEF Entries, Shape
  <2> QED
    BY <1>2, <2>1, <2>2 DEF KernelTypes
<1>4. CallsInv
  BY DEF CallsInv, ContainerInit
<1>5. BootInv
  BY <1>2, IdleType DEF BootInv
<1>6. QuietInv
  BY DEF QuietInv
<1>7. ReportInv
  BY <1>2, IdleType DEF ReportInv, Reading
<1>8. AddInv
  BY KernelAssumption DEF AddInv, ContainerInit
<1> QED
  BY <1>1, <1>3, <1>4, <1>5, <1>6, <1>7, <1>8 DEF KernelInv

LEMMA AssembleKeeps ==
  ASSUME KernelInv, Assemble
  PROVE  KernelInv'
<1>1. ASSUME NEW b \in Boots,
             \/ BootBegins(b) \/ BootRegistersTool(b)
             \/ BootChecksService(b) \/ BootStarts(b)
      PROVE  KernelInv'
  BY <1>1, BootBeginsKeeps, BootRegistersToolKeeps, BootChecksServiceKeeps,
     BootStartsKeeps
<1>2. CASE BootWritesService
  BY <1>2, BootWritesServiceKeeps
<1> QED
  BY <1>1, <1>2 DEF Assemble

LEMMA LifecycleKeeps ==
  ASSUME KernelInv, NEW th \in Threads, NEW b \in Boots, Lifecycle(th, b)
  PROVE  KernelInv'
BY CallsKeep, StatesWritten, DetailsWritten DEF Lifecycle

LEMMA ReportStepKeeps ==
  ASSUME KernelInv, NEW th \in Threads, NEW b \in Boots, Report(th, b)
  PROVE  KernelInv'
BY CallsKeep, HealthStepKeeps, CallCollectKeeps, CollectProvidersKeeps, CollectToolsKeeps
   DEF Report

LEMMA StutterKeeps ==
  ASSUME KernelInv, UNCHANGED vars
  PROVE  KernelInv'
<1>1. UNCHANGED containerVars /\ UNCHANGED <<boot, stage, todo, toolIds, state, detail, op>>
  BY DEF vars, kernelVars
<1>2. ContainerInv' /\ ServicesStay /\ calls' = calls /\ adding' = adding
  BY <1>1, Untouched DEF KernelInv
<1>3. Main \in Threads
  BY KernelAssumption
<1>4. Set(Main, op[Main]) /\ op[Main] \in Entries /\ Shape(op[Main])
  BY <1>1, <1>3, SameEntry
<1>5. Reading(Main)'
  <2>1. Reading(Main)
    BY <1>3 DEF KernelInv, ReportInv
  <2> QED
    BY <1>1, <1>2, <2>1 DEF Reading, Told, Its, Own, ServicesStay
<1>6. calls'[Main] # <<>> => op[Main].pc \in {"none", "providers", "tools"}
  BY <1>2, <1>3 DEF KernelInv, CallsInv
<1> HIDE DEF Entries, Shape
<1> QED
  BY <1>1, <1>2, <1>3, <1>4, <1>5, <1>6, EntryKeeps

LEMMA NextKernelInv == KernelInv /\ [Next]_vars => KernelInv'
<1> SUFFICES ASSUME KernelInv, [Next]_vars PROVE KernelInv'
  OBVIOUS
<1>1. CASE Assemble
  BY <1>1, AssembleKeeps
<1>2. ASSUME NEW th \in Threads, NEW b \in Boots, Lifecycle(th, b) \/ Report(th, b)
      PROVE  KernelInv'
  BY <1>2, LifecycleKeeps, ReportStepKeeps
<1>3. ASSUME NEW th \in Threads, NEW c \in Containers, NEW t \in Types,
             Resolve(th, c, t) \/ Register(th, c, t)
      PROVE  KernelInv'
  BY <1>3, ResolveKeeps, RegisterKeeps
<1>4. ASSUME NEW th \in Threads, GoOnRegistering(th) \/ GoOnResolving(th) \/ ReportRead(th)
      PROVE  KernelInv'
  BY <1>4, GoOnRegisteringKeeps, GoOnResolvingKeeps, ReportReadKeeps
<1>5. CASE UNCHANGED vars
  BY <1>5, StutterKeeps
<1> QED
  BY <1>1, <1>2, <1>3, <1>4, <1>5 DEF Next

LEMMA KernelInvariance == Spec => []KernelInv
BY InitKernelInv, NextKernelInv, PTL DEF Spec

(* Types, for any number of threads, containers and boots: health() never  *)
(* meets a state that KernelState does not have.                           *)
THEOREM KernelTypeCorrect == Spec => []TypeOK
<1>1. KernelInv => TypeOK
  <2> SUFFICES ASSUME KernelInv PROVE TypeOK
    OBVIOUS
  <2>1. Items \subseteq {"tool", "service"} \X (Types \cup STRING)
    <3>1. \A i \in DOMAIN ToolIds : ToolIds[i] \in STRING
      BY KernelAssumption, ElementOfSeq, LenProperties
    <3> QED
      BY <3>1 DEF Items
  <2>2. todo \in Seq({"tool", "service"} \X (Types \cup STRING))
    <3>1. todo \in Seq(Items)
      BY DEF KernelInv, KernelTypes
    <3> QED
      BY <2>1, <3>1, SeqMonotonic, Zenon
  <2>3. \A th \in Threads :
          /\ op[th].name \in {"none", "boot", "start", "shutdown", "health", "collect"}
          /\ op[th].on \in {0} \cup Boots
          /\ op[th].got.providers \in Instance \cup {None, Unregistered}
          /\ op[th].got.tools \in Instance \cup {None, Unregistered}
    <3>1. \A th \in Threads : op[th] \in Entries
      BY DEF KernelInv, KernelTypes
    <3> QED
      BY <3>1 DEF Entries, Reports, Read
  <2>4. ContainerTypeOK
    BY DEF KernelInv, ContainerInv
  <2> QED
    BY <2>2, <2>3, <2>4 DEF KernelInv, KernelTypes, TypeOK, KernelTypeOK
<1> QED
  BY <1>1, KernelInvariance, PTL

(* A delivered runtime keeps its services and tools, however many boots    *)
(* share its container or registry and wherever they fail.                 *)
THEOREM ServicesOfARuntimeStay == Spec => []RuntimeServicesStay
<1>1. KernelInv => RuntimeServicesStay
  BY DEF KernelInv, BootInv, Assembled, RuntimeServicesStay
<1> QED
  BY <1>1, KernelInvariance, PTL

(* A report of the system-info plugin is about the runtime it was asked of,*)
(* and of one moment unless the kernel moved while it was read.            *)
THEOREM ReportsAreOfOneRuntime == Spec => []ReportsTellOneRuntime
<1>1. KernelInv => ReportsTellOneRuntime
  <2> SUFFICES ASSUME KernelInv, NEW th \in Threads, op[th].pc = "done"
               PROVE  /\ ~op[th].moved =>
                            op[th].got.branch =
                               IF op[th].got.state \in {"running", "failed"}
                               THEN op[th].got.state ELSE "other"
                      /\ op[th].name = "collect" /\ boot[op[th].on].by_bootstrap =>
                            /\ Its(op[th].on, ProvidersT, op[th].got.providers)
                            /\ Its(op[th].on, ToolsT, op[th].got.tools)
    BY DEF ReportsTellOneRuntime
  <2> QED
    BY DEF KernelInv, ReportInv, Reading
<1> QED
  BY <1>1, KernelInvariance, PTL

(* Nobody starts or stops the kernel: it is in no transient state, and a   *)
(* failed one explains itself, however many such calls overlapped.         *)
THEOREM KernelsAreQuiet == Spec => []QuietKernel
<1>1. KernelInv => QuietKernel
  <2> SUFFICES ASSUME KernelInv, NEW b \in Boots,
                      \A th \in Threads : op[th].on = b => op[th].name \notin {"start", "shutdown"}
               PROVE  /\ state[b] \in Startable \cup {"running"}
                      /\ state[b] = "failed" => detail[b]
    BY DEF QuietKernel
  <2>1. \A pcs \in SUBSET {"clear", "configure", "explain", "stopped"} : ~Within(b, pcs)
    <3>1. ASSUME NEW th \in Threads, op[th].on = b,
                 op[th].pc \in {"clear", "configure", "explain", "stopped"}
          PROVE  FALSE
      <4>1. op[th] \in Entries /\ Shape(op[th])
        BY DEF KernelInv, KernelTypes
      <4> QED
        BY <3>1, <4>1 DEF Entries, Shape
    <3> QED
      BY <3>1 DEF Within
  <2>2. state[b] \in States
    BY DEF KernelInv, KernelTypes
  <2>3. /\ state[b] # "starting" /\ state[b] # "stopping"
        /\ state[b] = "failed" => detail[b]
    BY <2>1 DEF KernelInv, QuietInv
  <2> QED
    BY <2>2, <2>3 DEF States
<1> QED
  BY <1>1, KernelInvariance, PTL

-----------------------------------------------------------------------------
(* Whatever a thread does to a container is a step of an operation of the  *)
(* container.                                                              *)
ContainerStep ==
    \/ UNCHANGED containerVars
    \/ \E th \in Threads :
          \/ \E c \in Containers, t \in Types : calls[th] = <<>> /\ LookUp(th, c, t, <<>>)
          \/ FactoryStep(th)
          \/ \E c \in Containers, t \in Types, value \in Instance \cup {None} :
                RegisterBegins(th, c, t, value)
          \/ RegisterWrites(th)
          \/ \E kind \in {"yes", "no"} : RegisterEnds(th, kind)

LEMMA AssembleOnContainers ==
  ASSUME KernelInv, Assemble
  PROVE  ContainerStep
<1>0. Main \in Threads
  BY KernelAssumption
<1>1. ASSUME NEW b \in Boots, BootBegins(b) \/ BootRegistersTool(b) \/ BootStarts(b)
      PROVE  UNCHANGED containerVars
  BY <1>1 DEF BootBegins, BootRegistersTool, BootStarts
<1>2. ASSUME NEW b \in Boots, BootChecksService(b)
      PROVE  ContainerStep
  <2>0. PICK t : t = Head(todo)[2]
    OBVIOUS
  <2>1. CASE IsRegistered(boot[b].home, t)
    BY <1>2, <2>0, <2>1 DEF BootChecksService, ContainerStep
  <2>2. CASE ~IsRegistered(boot[b].home, t)
    <3>1. RegisterBegins(Main, boot[b].home, t, Own(b))
      BY <1>2, <2>0, <2>2 DEF BootChecksService
    <3>2. boot[b].home \in Containers /\ Own(b) \in Instance
      <4>1. boot[b].home \in Containers
        BY KernelAssumption DEF KernelInv, KernelTypes, Choice
      <4>2. Own(b) \in Instance
        BY KernelAssumption DEF Own, Instance, Boots
      <4> QED
        BY <4>1, <4>2
    <3>3. t \in Types
      <4>1. todo # <<>> /\ Head(todo)[1] = "service"
        BY <1>2 DEF BootChecksService
      <4>2. Head(todo) \in Items
        BY <4>1, HeadTailProperties DEF KernelInv, KernelTypes
      <4> QED
        BY <2>0, <4>1, <4>2 DEF Items
    <3> QED
      BY <1>0, <3>1, <3>2, <3>3 DEF ContainerStep
  <2> QED
    BY <2>1, <2>2
<1>3. CASE BootWritesService
  BY <1>0, <1>3 DEF BootWritesService, ContainerStep
<1> QED
  BY <1>1, <1>2, <1>3 DEF Assemble, ContainerStep

LEMMA CallsOnContainers ==
  ASSUME KernelInv, NEW th \in Threads, NEW b \in Boots, Lifecycle(th, b) \/ Report(th, b)
  PROVE  ContainerStep
<1>0. boot[b].home \in Containers /\ ProvidersT \in Types /\ ToolsT \in Types
  BY RegistryTypes, KernelAssumption DEF KernelInv, KernelTypes, Choice
<1>1. CASE Lifecycle(th, b)
  <2>1. UNCHANGED containerVars
    BY <1>1 DEF Lifecycle, CallStart, StartClaims, StartClears, StartConfigures,
       StartExplains, CallShutdown, ShutdownStops, ShutdownEnds
  <2> QED
    BY <2>1 DEF ContainerStep
<1>2. CASE CallHealth(th, b) \/ HealthStep(th, b) \/ CollectTools(th, b)
  <2>1. UNCHANGED containerVars
    BY <1>2 DEF CallHealth, HealthStep, CollectTools
  <2> QED
    BY <2>1 DEF ContainerStep
<1>3. CASE CallCollect(th, b)
  <2>1. calls[th] = <<>> /\ LookUp(th, boot[b].home, ProvidersT, <<>>)
    BY <1>3 DEF CallCollect, IsIdle
  <2> QED
    BY <1>0, <2>1 DEF ContainerStep
<1>4. CASE CollectProviders(th, b)
  <2>1. \/ UNCHANGED containerVars
        \/ calls[th] = <<>> /\ LookUp(th, boot[b].home, ToolsT, <<>>)
    BY <1>4 DEF CollectProviders
  <2> QED
    BY <1>0, <2>1 DEF ContainerStep
<1> QED
  BY <1>1, <1>2, <1>3, <1>4 DEF Report

LEMMA NextOnContainers == KernelInv /\ [Next]_vars => ContainerStep
<1> SUFFICES ASSUME KernelInv, [Next]_vars PROVE ContainerStep
  OBVIOUS
<1>1. CASE UNCHANGED vars
  BY <1>1 DEF vars, ContainerStep
<1>2. ASSUME NEW th \in Threads, NEW c \in Containers, NEW t \in Types, Resolve(th, c, t)
      PROVE  ContainerStep
  BY <1>2 DEF Resolve, IsIdle, ContainerStep
<1>3. ASSUME NEW th \in Threads, NEW c \in Containers, NEW t \in Types, Register(th, c, t)
      PROVE  ContainerStep
  <2>1. Given(th) \in Instance
    BY DEF Given, Instance
  <2>2. PICK value \in Instance \cup {None} : RegisterBegins(th, c, t, value)
    BY <1>3, <2>1 DEF Register
  <2> QED
    BY <2>2 DEF ContainerStep
<1>4. ASSUME NEW th \in Threads, GoOnRegistering(th)
      PROVE  ContainerStep
  BY <1>4 DEF GoOnRegistering, ContainerStep
<1>5. ASSUME NEW th \in Threads, GoOnResolving(th) \/ ReportRead(th)
      PROVE  ContainerStep
  BY <1>5 DEF GoOnResolving, FactoryStep, ReportRead, ContainerStep
<1> QED
  BY <1>1, <1>2, <1>3, <1>4, <1>5, AssembleOnContainers, CallsOnContainers DEF Next

(* What a container holds once the overlapping resolve()s that missed a key*)
(* and the overlapping registrations of it ended, it holds for good.       *)
THEOREM ContainersSettle == Spec => ServicesStaySettled
<1>1. KernelInv /\ [Next]_vars => [ServicesSettle]_containerVars
  <2> SUFFICES ASSUME KernelInv, [Next]_vars
               PROVE  ServicesSettle \/ UNCHANGED containerVars
    OBVIOUS
  <2>1. ContainerInv /\ ContainerStep
    BY NextOnContainers DEF KernelInv
  <2>2. ASSUME NEW th \in Threads, NEW c \in Containers, NEW t \in Types,
               calls[th] = <<>>, LookUp(th, c, t, <<>>)
        PROVE  Keeps
    BY <2>1, <2>2, LookUpKeeps, EmptyFrames
  <2>3. ASSUME NEW th \in Threads, NEW c \in Containers, NEW t \in Types,
               NEW value \in Instance \cup {None}, RegisterBegins(th, c, t, value)
        PROVE  Keeps
    BY <2>1, <2>3, RegisterBeginsKeeps
  <2>4. ASSUME NEW th \in Threads,
               \/ FactoryStep(th) \/ RegisterWrites(th)
               \/ \E kind \in {"yes", "no"} : RegisterEnds(th, kind)
        PROVE  Keeps
    BY <2>1, <2>4, FactoryStepKeeps, RegisterWritesKeeps, RegisterEndsKeeps
  <2> QED
    BY <2>1, <2>2, <2>3, <2>4 DEF ContainerStep, Keeps
<1> QED
  BY <1>1, KernelInvariance, PTL DEF Spec, ServicesStaySettled

-----------------------------------------------------------------------------
(* One instance for each singleton.  A key nobody raced for has at most one*)
(* resolve() in progress that missed it, over all threads and depths, and  *)
(* what its factory returned is what the container holds.                  *)
SameKey(f, c, t) == f.c = c /\ f.t = t

OneFrame(c, t) ==
    \A x, y \in Threads : \A i \in DOMAIN calls[x], j \in DOMAIN calls[y] :
        SameKey(calls[x][i], c, t) /\ SameKey(calls[y][j], c, t) => x = y /\ i = j

Held(c, t) ==
    /\ built[c][t] \subseteq {instances[c][t]}
    /\ t \in factories[c] /\ Calling(c, t) # {} => instances[c][t] = None

Single(c, t) ==
    OneFrame(c, t) /\ (<<c, t>> \notin lost /\ singletons[c][t] # "no" => Held(c, t))

SingleInv ==
    \A c \in Containers, t \in Types : <<c, t>> \notin raced \cup contested => Single(c, t)

(* A step that starts no factory call.                                     *)
LEMMA FewerFrames ==
  ASSUME NEW c, NEW t,
         \A x \in Threads : \A i \in DOMAIN calls'[x] :
            SameKey(calls'[x][i], c, t) => i \in DOMAIN calls[x] /\ SameKey(calls[x][i], c, t)
  PROVE  (OneFrame(c, t) => OneFrame(c, t)') /\ Calling(c, t)' \subseteq Calling(c, t)
<1>1. OneFrame(c, t) => OneFrame(c, t)'
  BY DEF OneFrame
<1>2. Calling(c, t)' \subseteq Calling(c, t)
  BY DEF Calling, SameKey
<1> QED
  BY <1>1, <1>2

LEMMA NothingBuilt ==
  ASSUME ContainerInv, NEW c \in Containers, NEW t \in Types,
         t \notin factories[c] \/ (Held(c, t) /\ instances[c][t] = None)
  PROVE  built[c][t] = {}
<1>1. built[c][t] \subseteq Instance
  BY DEF ContainerInv, ContainerTypeOK
<1>2. CASE t \notin factories[c]
  BY <1>2 DEF ContainerInv, MadeByFactories
<1>3. CASE Held(c, t) /\ instances[c][t] = None
  BY <1>1, <1>3, InstanceFacts DEF Held
<1> QED
  BY <1>2, <1>3

(* A step that leaves the calls and what the key holds as they are.        *)
LEMMA SameSingle ==
  ASSUME NEW c \in Containers, NEW t \in Types, Single(c, t), UNCHANGED <<calls, built, lost>>,
         singletons[c][t] # "no" \/ singletons'[c][t] = "no",
         t \in factories'[c] => t \in factories[c],
         instances'[c][t] = instances[c][t]
  PROVE  Single(c, t)'
<1>1. OneFrame(c, t)' = OneFrame(c, t) /\ Calling(c, t)' = Calling(c, t)
  BY DEF OneFrame, Calling
<1> QED
  BY <1>1 DEF Single, Held

LEMMA LookUpOnce ==
  ASSUME ContainerInv, SingleInv, NEW th \in Threads, NEW c \in Containers,
         NEW t \in Types, NEW frames \in Seq(Frame), SameFrames(frames, th),
         LookUp(th, c, t, frames)
  PROVE  SingleInv'
<1>1. /\ UNCHANGED <<factories, singletons, instances, contested, built, lost>>
      /\ raced' = IF Missed(c, t) /\ Calling(c, t) # {}
                  THEN raced \cup {<<c, t>>} ELSE raced
  BY DEF LookUp, Missed
<1>2. \A x \in Threads : \A i \in DOMAIN calls'[x] :
        \/ /\ i \in DOMAIN calls[x]
           /\ calls'[x][i].c = calls[x][i].c /\ calls'[x][i].t = calls[x][i].t
        \/ /\ Missed(c, t) /\ x = th /\ i = Len(frames) + 1
           /\ calls'[x][i].c = c /\ calls'[x][i].t = t
  BY LookUpFrames
<1>3. ASSUME NEW d \in Containers, NEW u \in Types, <<d, u>> \notin raced' \cup contested'
      PROVE  Single(d, u)'
  <2>1. Single(d, u)
    BY <1>1, <1>3 DEF SingleInv
  <2>2. CASE ~(Missed(c, t) /\ d = c /\ u = t)
    <3>1. \A x \in Threads : \A i \in DOMAIN calls'[x] :
            SameKey(calls'[x][i], d, u) => i \in DOMAIN calls[x] /\ SameKey(calls[x][i], d, u)
      BY <1>2, <2>2 DEF SameKey
    <3>2. (OneFrame(d, u) => OneFrame(d, u)') /\ Calling(d, u)' \subseteq Calling(d, u)
      BY <3>1, FewerFrames
    <3> QED
      BY <1>1, <2>1, <3>2 DEF Single, Held
  <2>3. CASE Missed(c, t) /\ d = c /\ u = t
    <3>1. Calling(c, t) = {}
      BY <1>1, <1>3, <2>3
    <3>2. \A x \in Threads : \A i \in DOMAIN calls'[x] :
            SameKey(calls'[x][i], c, t) => x = th /\ i = Len(frames) + 1
      BY <1>2, <3>1 DEF SameKey, Calling
    <3>3. OneFrame(d, u)'
      BY <2>3, <3>2 DEF OneFrame
    <3>4. instances'[c][t] = None
      BY <1>1, <2>3 DEF Missed
    <3> QED
      BY <1>1, <2>1, <2>3, <3>3, <3>4 DEF Single, Held
  <2> QED
    BY <2>2, <2>3
<1> QED
  BY <1>3 DEF SingleInv

LEMMA FactoryEndsOnce ==
  ASSUME ContainerInv, SingleInv, NEW th \in Threads,
         FactoryReturns(th) \/ FactoryMissing(th) \/ FactoryRaises(th)
  PROVE  SingleInv'
<1>0. calls[th] # <<>> /\ calls' = [calls EXCEPT ![th] = Outer(th)]
  BY DEF FactoryReturns, FactoryMissing, FactoryRaises, InFactoryOf
<1>1. \A x \in Threads : \A i \in DOMAIN calls'[x] :
         i \in DOMAIN calls[x] /\ calls'[x][i] = calls[x][i]
         /\ (x = th => i # Len(calls[th]))
  BY <1>0, CallEnded
<1>2. \A d, u : (OneFrame(d, u) => OneFrame(d, u)') /\ Calling(d, u)' \subseteq Calling(d, u)
  <2> SUFFICES ASSUME NEW d, NEW u
               PROVE  /\ OneFrame(d, u) => OneFrame(d, u)'
                      /\ Calling(d, u)' \subseteq Calling(d, u)
    OBVIOUS
  <2>1. \A x \in Threads : \A i \in DOMAIN calls'[x] :
           SameKey(calls'[x][i], d, u) => i \in DOMAIN calls[x] /\ SameKey(calls[x][i], d, u)
    BY <1>1
  <2> QED
    BY <2>1, FewerFrames
<1>3. CASE FactoryMissing(th) \/ FactoryRaises(th)
  <2>1. UNCHANGED <<factories, singletons, instances, contested, built, raced, lost>>
    BY <1>3 DEF FactoryMissing, FactoryRaises, histories
  <2> QED
    BY <1>2, <2>1 DEF SingleInv, Single, Held
<1>4. CASE FactoryReturns(th)
  <2>0. PICK c, t : c = Inner(th).c /\ t = Inner(th).t
    OBVIOUS
  <2>1. /\ instances' = IF singletons[c][t] = "yes"
                        THEN [instances EXCEPT ![c][t] = NewInstance] ELSE instances
        /\ built' = [built EXCEPT ![c][t] = @ \cup {NewInstance}]
        /\ lost' = IF Result(th) = None THEN lost \cup {<<c, t>>} ELSE lost
        /\ UNCHANGED <<factories, singletons, contested, raced>>
    BY <1>4, <2>0 DEF FactoryReturns
  <2>2. c \in Containers /\ t \in Types /\ th \in Calling(c, t) /\ t \in factories[c]
    BY <1>0, <1>4, <2>0, InnerFacts DEF FactoryReturns, InFactoryOf
  <2>3. singletons[c][t] = "unset" => <<c, t>> \in lost'
    BY <2>0, <2>1 DEF Result
  <2>4. \A d \in Containers, u \in Types : ~(d = c /\ u = t) =>
           instances'[d][u] = instances[d][u] /\ built'[d][u] = built[d][u]
    BY <2>1, <2>2 DEF ContainerInv, ContainerTypeOK
  <2>5. /\ singletons[c][t] = "yes" => instances'[c][t] = NewInstance
        /\ built'[c][t] = built[c][t] \cup {NewInstance}
    BY <2>1, <2>2 DEF ContainerInv, ContainerTypeOK
  <2>6. Len(calls[th]) \in DOMAIN calls[th] /\ SameKey(calls[th][Len(calls[th])], c, t)
    BY <1>0, <2>0, FramesSplit DEF ContainerInv, SameKey, Inner
  <2>7. ASSUME NEW d \in Containers, NEW u \in Types, <<d, u>> \notin raced' \cup contested'
        PROVE  Single(d, u)'
    <3>1. Single(d, u)
      BY <2>1, <2>7 DEF SingleInv
    <3>2. CASE ~(d = c /\ u = t)
      <4>1. <<d, u>> \notin lost' => <<d, u>> \notin lost
        BY <2>1
      <4> QED
        BY <1>2, <2>1, <2>4, <3>1, <3>2, <4>1 DEF Single, Held
    <3>3. CASE d = c /\ u = t
      <4>1. Calling(c, t)' = {}
        <5>1. ASSUME NEW x \in Threads, NEW i \in DOMAIN calls'[x],
                     calls'[x][i].c = c, calls'[x][i].t = t
              PROVE  FALSE
          <6>1. SameKey(calls[x][i], c, t) /\ i \in DOMAIN calls[x]
                /\ (x = th => i # Len(calls[th]))
            BY <1>1, <5>1 DEF SameKey
          <6> QED
            BY <2>6, <3>1, <3>3, <6>1 DEF Single, OneFrame
        <5> QED
          BY <5>1 DEF Calling
      <4>2. ASSUME singletons[c][t] # "no", <<c, t>> \notin lost'
            PROVE  built'[c][t] \subseteq {instances'[c][t]}
        <5>1. <<c, t>> \notin lost
          BY <2>1, <4>2
        <5>2. Held(c, t) /\ instances[c][t] = None
          BY <2>2, <3>1, <3>3, <4>2, <5>1 DEF Single, Held
        <5>3. built[c][t] = {}
          BY <2>2, <5>2, NothingBuilt
        <5>4. singletons[c][t] = "yes"
          BY <2>2, <2>3, <4>2 DEF ContainerInv, ContainerTypeOK
        <5> QED
          BY <2>5, <5>3, <5>4
      <4> QED
        BY <1>2, <2>1, <3>1, <3>3, <4>1, <4>2 DEF Single, Held
    <3> QED
      BY <3>2, <3>3
  <2> QED
    BY <2>7 DEF SingleInv
<1> QED
  BY <1>3, <1>4

LEMMA FactoryOnce ==
  ASSUME ContainerInv, SingleInv, NEW th \in Threads, FactoryStep(th)
  PROVE  SingleInv'
<1>1. CASE FactoryResolves(th)
  <2>1. calls[th] # <<>>
    BY <1>1 DEF FactoryResolves, InFactoryOf
  <2>2. PICK d \in Inner(th).left :
           LookUp(th, Inner(th).c, d,
                  Append(Outer(th), [Inner(th) EXCEPT !.left = @ \ {d}]))
    BY <1>1 DEF FactoryResolves
  <2> QED
    BY <2>1, <2>2, ResolvingFrames, LookUpOnce
<1> QED
  BY <1>1, FactoryEndsOnce DEF FactoryStep

LEMMA RegistrationOnce ==
  ASSUME ContainerInv, SingleInv, NEW th \in Threads,
         \/ \E c \in Containers, t \in Types, value \in Instance \cup {None} :
               RegisterBegins(th, c, t, value)
         \/ RegisterWrites(th)
         \/ \E kind \in {"yes", "no"} : RegisterEnds(th, kind)
  PROVE  SingleInv'
<1>1. UNCHANGED <<calls, built, raced, lost>> /\ contested \subseteq contested'
  BY DEF RegisterBegins, RegisterWrites, RegisterEnds, histories
<1> SUFFICES ASSUME NEW c \in Containers, NEW t \in Types,
                    <<c, t>> \notin raced' \cup contested'
             PROVE  Single(c, t)'
  BY DEF SingleInv
<1>2. Single(c, t) /\ Solo(c, t)
  BY <1>1 DEF SingleInv, ContainerInv, SoloInv
<1>3. CASE \E d \in Containers, u \in Types, value \in Instance \cup {None} :
              RegisterBegins(th, d, u, value)
  <2>1. UNCHANGED <<factories, singletons, instances>>
    BY <1>3 DEF RegisterBegins
  <2> QED
    BY <1>1, <1>2, <2>1, SameSingle
<1>4. CASE RegisterWrites(th)
  <2>1. /\ adding[th] # None /\ adding[th].at = "value" /\ singletons' = singletons
        /\ \/ /\ factories' = [factories EXCEPT ![adding[th].c] = @ \cup {adding[th].t}]
              /\ instances' = instances
           \/ /\ factories' = factories
              /\ instances' =
                    [instances EXCEPT ![adding[th].c][adding[th].t] = adding[th].value]
    BY <1>4 DEF RegisterWrites
  <2>2. CASE ~Adds(th, c, t)
    <3>1. instances'[c][t] = instances[c][t] /\ (t \in factories'[c] => t \in factories[c])
      BY <2>1, <2>2 DEF Adds, ContainerInv, ContainerTypeOK
    <3> QED
      BY <1>1, <1>2, <2>1, <3>1, SameSingle
  <2>3. CASE Adds(th, c, t)
    <3>1. t \notin factories[c] /\ instances[c][t] = None
      BY <1>2, <2>1, <2>3 DEF Solo, IsRegistered
    <3>2. built[c][t] = {}
      BY <3>1, NothingBuilt
    <3>3. t \notin factories'[c] \/ instances'[c][t] = None
      BY <2>1, <3>1
    <3>4. OneFrame(c, t)' = OneFrame(c, t)
      BY <1>1 DEF OneFrame
    <3> QED
      BY <1>1, <1>2, <3>2, <3>3, <3>4 DEF Single, Held
  <2> QED
    BY <2>2, <2>3
<1>5. CASE \E kind \in {"yes", "no"} : RegisterEnds(th, kind)
  <2>1. PICK kind \in {"yes", "no"} : RegisterEnds(th, kind)
    BY <1>5
  <2>2. /\ adding[th] # None /\ UNCHANGED <<factories, instances>>
        /\ singletons' = [singletons EXCEPT ![adding[th].c][adding[th].t] = kind]
    BY <2>1 DEF RegisterEnds
  <2>3. singletons[c][t] # "no" \/ singletons'[c][t] = "no"
    <3>1. CASE ~Adds(th, c, t)
      BY <2>2, <3>1 DEF Adds, ContainerInv, ContainerTypeOK
    <3>2. CASE Adds(th, c, t)
      BY <1>2, <3>2 DEF Solo
    <3> QED
      BY <3>1, <3>2
  <2> QED
    BY <1>1, <1>2, <2>2, <2>3, SameSingle
<1> QED
  BY <1>3, <1>4, <1>5

LEMMA SingleInvariance == Spec => []SingleInv
<1>1. Init => SingleInv
  <2> SUFFICES ASSUME Init PROVE SingleInv
    OBVIOUS
  <2>1. \A th \in Threads : DOMAIN calls[th] = {}
    BY EmptySeq, LenProperties DEF Init, ContainerInit
  <2> QED
    BY <2>1 DEF SingleInv, Single, OneFrame, Held, Calling, Init, ContainerInit
<1>2. KernelInv /\ SingleInv /\ [Next]_vars => SingleInv'
  <2> SUFFICES ASSUME KernelInv, SingleInv, [Next]_vars PROVE SingleInv'
    OBVIOUS
  <2>1. ContainerInv /\ ContainerStep
    BY NextOnContainers DEF KernelInv
  <2>2. CASE UNCHANGED containerVars
    <3>1. /\ UNCHANGED <<raced, contested>> /\ UNCHANGED <<calls, built, lost>>
          /\ UNCHANGED <<factories, singletons, instances>>
      BY <2>2 DEF containerVars, histories
    <3> QED
      BY <3>1, SameSingle DEF SingleInv
  <2>3. ASSUME NEW th \in Threads, NEW c \in Containers, NEW t \in Types,
               calls[th] = <<>>, LookUp(th, c, t, <<>>)
        PROVE  SingleInv'
    BY <2>1, <2>3, LookUpOnce, EmptyFrames
  <2>4. ASSUME NEW th \in Threads,
               \/ \E c \in Containers, t \in Types, value \in Instance \cup {None} :
                     RegisterBegins(th, c, t, value)
               \/ RegisterWrites(th)
               \/ \E kind \in {"yes", "no"} : RegisterEnds(th, kind)
        PROVE  SingleInv'
    BY <2>1, <2>4, RegistrationOnce
  <2>5. ASSUME NEW th \in Threads, FactoryStep(th)
        PROVE  SingleInv'
    BY <2>1, <2>5, FactoryOnce
  <2> QED
    BY <2>1, <2>2, <2>3, <2>4, <2>5 DEF ContainerStep
<1> QED
  BY <1>1, <1>2, KernelInvariance, PTL DEF Spec

(* The factory of a singleton returned one instance, and the container     *)
(* holds it, unless two resolve()s missed it at once, two registrations    *)
(* found the key free, or an instance was lost to a kind not yet written.  *)
THEOREM SingletonsAreSingle == Spec => []SingletonUnlessDisturbed
<1>1. KernelInv /\ SingleInv => SingletonUnlessDisturbed
  <2> SUFFICES ASSUME KernelInv, SingleInv, NEW c \in Containers, NEW t \in Types
               PROVE  /\ singletons[c][t] = "yes" /\ Undisturbed(c, t)
                            => built[c][t] \subseteq {instances[c][t]}
                      /\ singletons[c][t] = "unset" /\ t \in factories[c]
                            => \E th \in Threads : /\ adding[th] # None /\ adding[th].at = "kind"
                                                   /\ adding[th].c = c /\ adding[th].t = t
    BY DEF SingletonUnlessDisturbed
  <2>1. singletons[c][t] = "yes" /\ Undisturbed(c, t) => built[c][t] \subseteq {instances[c][t]}
    BY DEF SingleInv, Single, Held, Undisturbed
  <2> QED
    BY <2>1 DEF KernelInv, ContainerInv, KindFollows, Adds
<1> QED
  BY <1>1, KernelInvariance, SingleInvariance, PTL
=============================================================================
