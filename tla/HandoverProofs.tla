--------------------------- MODULE HandoverProofs --------------------------
(***************************************************************************)
(* Proofs about Handover: the ownership of the frame slots, for any number *)
(* of slots and of sessions that share them, what the engine reads while   *)
(* frames are published, and the order of the events.                      *)
(***************************************************************************)
EXTENDS Handover, TLAPS

-----------------------------------------------------------------------------
(* What a port carries.                                                    *)

InPort(s) == Range(port[s])

\* A frame added to a port is one more slot; a port that had it not stays free
\* of repetitions.
LEMMA AppendRange ==
  ASSUME NEW S, NEW q \in Seq(S), NEW i \in S
  PROVE  /\ Append(q, i) \in Seq(S)
         /\ Range(Append(q, i)) = Range(q) \cup {i}
         /\ IsInjective(q) /\ i \notin Range(q) => IsInjective(Append(q, i))
<1> DEFINE r == Append(q, i)
<1>1. r \in Seq(S) /\ DOMAIN r = 1 .. Len(q) + 1 /\ DOMAIN q = 1 .. Len(q) /\ Len(q) \in Nat
  OBVIOUS
<1>2. r[Len(q) + 1] = i /\ \A k \in 1 .. Len(q) : r[k] = q[k]
  OBVIOUS
<1> HIDE DEF r
<1>3. Range(r) = Range(q) \cup {i}
  <2>1. \A x \in Range(r) : x \in Range(q) \cup {i}
    BY <1>1, <1>2 DEF Range
  <2>2. \A x \in Range(q) : x \in Range(r)
    BY <1>1, <1>2 DEF Range
  <2>3. i \in Range(r)
    BY <1>1, <1>2 DEF Range
  <2> QED BY <2>1, <2>2, <2>3
<1>4. ASSUME IsInjective(q), i \notin Range(q) PROVE IsInjective(r)
  <2> SUFFICES ASSUME NEW j \in DOMAIN r, NEW k \in DOMAIN r, r[j] = r[k] PROVE j = k
    BY DEF IsInjective
  <2>1. \A l \in 1 .. Len(q) : q[l] # i
    BY <1>1, <1>4 DEF Range
  <2>2. CASE j \in 1 .. Len(q) /\ k \in 1 .. Len(q)
    BY <1>1, <1>2, <1>4, <2>2 DEF IsInjective
  <2>3. CASE j = Len(q) + 1 \/ k = Len(q) + 1
    BY <1>1, <1>2, <2>1, <2>3
  <2> QED BY <1>1, <2>2, <2>3
<1> QED BY <1>1, <1>3, <1>4 DEF r

\* The frame at the head of a port leaves it, and with it its slot.
LEMMA TailRange ==
  ASSUME NEW S, NEW q \in Seq(S), q # <<>>, IsInjective(q)
  PROVE  /\ Head(q) \in Range(q) /\ Head(q) \in S
         /\ Tail(q) \in Seq(S)
         /\ Range(Tail(q)) = Range(q) \ {Head(q)}
         /\ IsInjective(Tail(q))
<1> DEFINE r == Tail(q)
<1>1. /\ r \in Seq(S) /\ DOMAIN r = 1 .. Len(q) - 1
      /\ DOMAIN q = 1 .. Len(q) /\ Len(q) \in Nat /\ Len(q) > 0
  OBVIOUS
<1>2. Head(q) = q[1] /\ \A k \in 1 .. Len(q) - 1 : r[k] = q[k + 1]
  OBVIOUS
<1> HIDE DEF r
<1>3. \A j, k \in 1 .. Len(q) : q[j] = q[k] => j = k
  BY <1>1 DEF IsInjective
<1>4. Head(q) \in Range(q) /\ Head(q) \in S
  <2>1. 1 \in DOMAIN q
    BY <1>1
  <2> QED BY <1>2, <2>1 DEF Range
<1>5. Range(r) = Range(q) \ {Head(q)}
  <2>1. \A x \in Range(r) : x \in Range(q) \ {Head(q)}
    <3> SUFFICES ASSUME NEW k \in 1 .. Len(q) - 1 PROVE r[k] \in Range(q) /\ r[k] # q[1]
      BY <1>1, <1>2 DEF Range
    <3>1. k + 1 \in 1 .. Len(q) /\ 1 \in 1 .. Len(q) /\ k + 1 # 1
      BY <1>1
    <3> QED BY <1>1, <1>2, <1>3, <3>1 DEF Range
  <2>2. \A x \in Range(q) \ {Head(q)} : x \in Range(r)
    <3> SUFFICES ASSUME NEW k \in 1 .. Len(q), k # 1 PROVE q[k] \in Range(r)
      BY <1>1, <1>2 DEF Range
    <3>1. k - 1 \in 1 .. Len(q) - 1 /\ (k - 1) + 1 = k
      BY <1>1
    <3>2. r[k - 1] = q[k]
      BY <1>2, <3>1
    <3> QED BY <1>1, <3>1, <3>2 DEF Range
  <2> QED BY <2>1, <2>2
<1>6. IsInjective(r)
  <2> SUFFICES ASSUME NEW j \in 1 .. Len(q) - 1, NEW k \in 1 .. Len(q) - 1, r[j] = r[k] PROVE j = k
    BY <1>1 DEF IsInjective
  <2>1. j + 1 \in 1 .. Len(q) /\ k + 1 \in 1 .. Len(q) /\ q[j + 1] = q[k + 1]
    BY <1>1, <1>2
  <2>2. j + 1 = k + 1
    BY <1>3, <2>1
  <2> QED BY <2>2
<1> QED BY <1>1, <1>4, <1>5, <1>6 DEF r
-----------------------------------------------------------------------------
(* The ring.                                                               *)

RingType ==
  /\ states \in [Slot -> {"free", "rust", "dart"}]
  /\ writer \in [Session -> Slot \cup {NONE}]
  /\ decoding \in [Session -> Slot \cup {NONE}]
  /\ port \in [Session -> Seq(Slot)]
  /\ lost \subseteq Slot

\* A slot has one holder: a writer, a decode, one place in one port, or nobody
\* any more.
Exclusive ==
  /\ \A s, t \in Session : s # t /\ writer[s] # NONE => writer[s] # writer[t]
  /\ \A s, t \in Session : s # t /\ decoding[s] # NONE => decoding[s] # decoding[t]
  /\ \A s, t \in Session : s # t => InPort(s) \cap InPort(t) = {}
  /\ \A s, t \in Session : writer[s] # NONE => writer[s] # decoding[t]
  /\ \A s, t \in Session : writer[s] \notin InPort(t)
  /\ \A s, t \in Session : decoding[s] \notin InPort(t)
  /\ \A s \in Session : writer[s] \notin lost /\ decoding[s] \notin lost /\ InPort(s) \cap lost = {}
  /\ \A s \in Session : IsInjective(port[s])

\* The mark of a slot tells its holder.
Marked ==
  /\ \A s \in Session : writer[s] # NONE => states[writer[s]] \in {"rust", "dart"}
  /\ \A s \in Session : decoding[s] # NONE => states[decoding[s]] = "dart"
  /\ \A s \in Session : \A i \in InPort(s) : states[i] = "dart"
  /\ \A i \in lost : states[i] = "dart"
  /\ \A i \in Slot : states[i] # "free" =>
       i \in lost \/ \E s \in Session : writer[s] = i \/ decoding[s] = i \/ i \in InPort(s)

RingInv == RingType /\ Exclusive /\ Marked

LEMMA NoneIsNoSlot == NONE \notin Slot
BY HandoverAssumption DEF NONE, Slot

LEMMA PortOfSlots == RingType => \A s \in Session : InPort(s) \subseteq Slot
BY DEF RingType, InPort, Range

\* A slot that is claimed has had no holder.
LEMMA ClaimStep == ASSUME RingInv, NEW s \in Session, Claim(s) PROVE RingInv'
<1>1. PICK i \in Slot : /\ states[i] = "free"
                        /\ states' = [states EXCEPT ![i] = "rust"]
                        /\ writer' = [writer EXCEPT ![s] = i]
  BY DEF Claim, At
<1>2. writer[s] = NONE /\ UNCHANGED <<port, decoding, lost>>
  BY DEF Claim
<1>3. \A t \in Session : InPort(t)' = InPort(t)
  BY <1>2 DEF InPort
<1>4. i \notin lost /\ \A t \in Session : writer[t] # i /\ decoding[t] # i /\ i \notin InPort(t)
  <2>1. i \notin lost /\ \A t \in Session : i \notin InPort(t)
    BY <1>1 DEF RingInv, Marked
  <2>2. \A t \in Session : writer[t] # i /\ decoding[t] # i
    BY <1>1, NoneIsNoSlot DEF RingInv, Marked
  <2> QED BY <2>1, <2>2
<1>5. RingType'
  BY <1>1, <1>2 DEF RingInv, RingType
<1>6. \A t \in Session : writer'[t] = IF t = s THEN i ELSE writer[t]
  BY <1>1 DEF RingInv, RingType
<1>7. \A j \in Slot : states'[j] = IF j = i THEN "rust" ELSE states[j]
  BY <1>1 DEF RingInv, RingType
<1>8. Exclusive'
  BY <1>2, <1>3, <1>4, <1>6, NoneIsNoSlot DEF RingInv, Exclusive
<1>9. Marked'
  <2>1. \A t \in Session : writer'[t] # NONE => states'[writer'[t]] \in {"rust", "dart"}
    BY <1>1, <1>2, <1>3, <1>4, <1>6, <1>7, NoneIsNoSlot DEF RingInv, RingType, Marked
  <2>2. \A t \in Session : decoding'[t] # NONE => states'[decoding'[t]] = "dart"
    BY <1>1, <1>2, <1>3, <1>4, <1>6, <1>7, NoneIsNoSlot DEF RingInv, RingType, Marked
  <2>3. \A t \in Session : \A j \in InPort(t)' : states'[j] = "dart"
    BY <1>1, <1>2, <1>3, <1>4, <1>6, <1>7, PortOfSlots DEF RingInv, Marked
  <2>4. \A j \in lost' : states'[j] = "dart"
    BY <1>1, <1>2, <1>3, <1>4, <1>6, <1>7 DEF RingInv, RingType, Marked
  <2>5. \A j \in Slot : states'[j] # "free" =>
            j \in lost' \/ \E t \in Session : writer'[t] = j \/ decoding'[t] = j \/ j \in InPort(t)'
    BY <1>1, <1>2, <1>3, <1>4, <1>6, <1>7, NoneIsNoSlot DEF RingInv, Marked
  <2> QED BY <2>1, <2>2, <2>3, <2>4, <2>5 DEF Marked
<1> QED BY <1>5, <1>8, <1>9 DEF RingInv

\* What a writer gives up, to the listener or to nobody, was its alone.
LEMMA WriterStep ==
  ASSUME RingInv, NEW s \in Session, TooLarge(s) \/ Publish(s) \/ PushFrame(s)
  PROVE  RingInv'
<1> DEFINE i == writer[s]
<1>1. i # NONE /\ i \in Slot
  BY DEF TooLarge, Publish, PushFrame, RingInv, RingType
<1>2. UNCHANGED decoding
  BY DEF TooLarge, Publish, PushFrame
<1>3. /\ i \notin lost
      /\ \A t \in Session : decoding[t] # i /\ i \notin InPort(t) /\ (t # s => writer[t] # i)
  BY <1>1 DEF RingInv, Exclusive
<1>4. CASE writer' = [writer EXCEPT ![s] = NONE] /\ Release(i) /\ UNCHANGED <<port, lost>>
  <2>1. \A t \in Session : InPort(t)' = InPort(t)
    BY <1>4 DEF InPort
  <2>2. \A t \in Session : writer'[t] = IF t = s THEN NONE ELSE writer[t]
    BY <1>4 DEF RingInv, RingType
  <2>3. \A j \in Slot : states'[j] = IF j = i THEN "free" ELSE states[j]
    BY <1>4 DEF Release, RingInv, RingType
  <2>4. RingType'
    BY <1>1, <1>2, <1>4 DEF Release, RingInv, RingType
  <2>5. Exclusive'
    BY <1>2, <1>4, <2>1, <2>2, PortOfSlots, NoneIsNoSlot DEF RingInv, Exclusive, RingType
  <2>6. Marked'
    BY <1>1, <1>2, <1>3, <1>4, <2>1, <2>2, <2>3, PortOfSlots, NoneIsNoSlot DEF RingInv, RingType, Marked
  <2> QED BY <2>4, <2>5, <2>6 DEF RingInv
<1>5. CASE states' = [states EXCEPT ![i] = "dart"] /\ UNCHANGED <<writer, port, lost>>
  <2>1. \A t \in Session : InPort(t)' = InPort(t)
    BY <1>5 DEF InPort
  <2>2. \A j \in Slot : states'[j] = IF j = i THEN "dart" ELSE states[j]
    BY <1>5 DEF RingInv, RingType
  <2>3. RingType'
    BY <1>1, <1>2, <1>5 DEF RingInv, RingType
  <2>4. Exclusive'
    BY <1>2, <1>5, <2>1 DEF RingInv, Exclusive
  <2>5. Marked'
    BY <1>1, <1>2, <1>3, <1>5, <2>1, <2>2, PortOfSlots, NoneIsNoSlot DEF RingInv, RingType, Marked
  <2> QED BY <2>3, <2>4, <2>5 DEF RingInv
<1>6. CASE /\ writer' = [writer EXCEPT ![s] = NONE] /\ states[i] = "dart"
           /\ port' = [port EXCEPT ![s] = Append(port[s], i)] /\ UNCHANGED <<states, lost>>
  <2>1. /\ Append(port[s], i) \in Seq(Slot)
        /\ Range(Append(port[s], i)) = InPort(s) \cup {i}
        /\ IsInjective(Append(port[s], i))
    BY <1>1, <1>3, AppendRange DEF RingInv, RingType, Exclusive, InPort
  <2>2. RingType'
    BY <1>2, <1>6, <2>1 DEF RingInv, RingType
  <2>3. \A t \in Session : writer'[t] = IF t = s THEN NONE ELSE writer[t]
    BY <1>6 DEF RingInv, RingType
  <2>4. \A t \in Session : InPort(t)' = IF t = s THEN InPort(s) \cup {i} ELSE InPort(t)
    BY <1>6, <2>1 DEF RingInv, RingType, InPort
  <2>5. \A t \in Session : IsInjective(port'[t])
    BY <1>6, <2>1 DEF RingInv, RingType, Exclusive
  <2>6. Exclusive'
    <3>1. /\ \A t, u \in Session : t # u /\ writer'[t] # NONE => writer'[t] # writer'[u]
          /\ \A t, u \in Session : t # u /\ decoding'[t] # NONE => decoding'[t] # decoding'[u]
          /\ \A t, u \in Session : writer'[t] # NONE => writer'[t] # decoding'[u]
      BY <1>1, <1>2, <1>3, <1>6, <2>3, <2>4, <2>5 DEF RingInv, Exclusive
    <3>2. \A t, u \in Session : t # u => InPort(t)' \cap InPort(u)' = {}
      BY <1>1, <1>2, <1>3, <1>6, <2>3, <2>4, <2>5 DEF RingInv, Exclusive
    <3>3. \A t, u \in Session : writer'[t] \notin InPort(u)' /\ decoding'[t] \notin InPort(u)'
      BY <1>1, <1>2, <1>3, <1>6, <2>3, <2>4, <2>5, PortOfSlots, NoneIsNoSlot DEF RingInv, Exclusive
    <3>4. \A t \in Session : writer'[t] \notin lost' /\ decoding'[t] \notin lost' /\ InPort(t)' \cap lost' = {}
      BY <1>1, <1>2, <1>3, <1>6, <2>3, <2>4, <2>5, NoneIsNoSlot DEF RingInv, RingType, Exclusive
    <3>5. \A t \in Session : IsInjective(port'[t])
      BY <1>1, <1>2, <1>3, <1>6, <2>3, <2>4, <2>5 DEF RingInv, Exclusive
    <3> QED BY <3>1, <3>2, <3>3, <3>4, <3>5 DEF Exclusive
  <2>7. Marked'
    BY <1>1, <1>2, <1>6, <2>3, <2>4, NoneIsNoSlot DEF RingInv, Marked
  <2> QED BY <2>2, <2>6, <2>7 DEF RingInv
<1>7. CASE /\ writer' = [writer EXCEPT ![s] = NONE] /\ states[i] = "dart"
           /\ lost' = lost \cup {i} /\ UNCHANGED <<states, port>>
  <2>1. \A t \in Session : InPort(t)' = InPort(t)
    BY <1>7 DEF InPort
  <2>2. \A t \in Session : writer'[t] = IF t = s THEN NONE ELSE writer[t]
    BY <1>7 DEF RingInv, RingType
  <2>3. RingType'
    BY <1>1, <1>2, <1>7 DEF RingInv, RingType
  <2>4. Exclusive'
    <3>1. /\ \A t, u \in Session : t # u /\ writer'[t] # NONE => writer'[t] # writer'[u]
          /\ \A t, u \in Session : t # u /\ decoding'[t] # NONE => decoding'[t] # decoding'[u]
          /\ \A t, u \in Session : writer'[t] # NONE => writer'[t] # decoding'[u]
      BY <1>1, <1>2, <1>3, <1>7, <2>1, <2>2 DEF RingInv, Exclusive
    <3>2. \A t, u \in Session : t # u => InPort(t)' \cap InPort(u)' = {}
      BY <1>1, <1>2, <1>3, <1>7, <2>1, <2>2 DEF RingInv, Exclusive
    <3>3. \A t, u \in Session : writer'[t] \notin InPort(u)' /\ decoding'[t] \notin InPort(u)'
      BY <1>1, <1>2, <1>3, <1>7, <2>1, <2>2, PortOfSlots, NoneIsNoSlot DEF RingInv, Exclusive
    <3>4. \A t \in Session : writer'[t] \notin lost' /\ decoding'[t] \notin lost' /\ InPort(t)' \cap lost' = {}
      BY <1>1, <1>2, <1>3, <1>7, <2>1, <2>2, NoneIsNoSlot DEF RingInv, RingType, Exclusive
    <3>5. \A t \in Session : IsInjective(port'[t])
      BY <1>1, <1>2, <1>3, <1>7, <2>1, <2>2 DEF RingInv, Exclusive
    <3> QED BY <3>1, <3>2, <3>3, <3>4, <3>5 DEF Exclusive
  <2>5. Marked'
    BY <1>1, <1>2, <1>7, <2>1, <2>2, NoneIsNoSlot DEF RingInv, Marked
  <2> QED BY <2>3, <2>4, <2>5 DEF RingInv
<1>8. CASE TooLarge(s)
  BY <1>4, <1>8 DEF TooLarge, At
<1>9. CASE Publish(s)
  BY <1>5, <1>9 DEF Publish
<1>10. CASE PushFrame(s)
  <2>1. writer' = [writer EXCEPT ![s] = NONE] /\ states[i] = "dart"
    BY <1>10 DEF PushFrame, At
  <2>2. \/ Release(i) /\ UNCHANGED <<port, lost>>
        \/ port' = [port EXCEPT ![s] = Append(port[s], i)] /\ UNCHANGED <<states, lost>>
        \/ lost' = lost \cup {i} /\ UNCHANGED <<states, port>>
    BY <1>10 DEF PushFrame, At
  <2> QED BY <1>4, <1>6, <1>7, <2>1, <2>2
<1> QED BY <1>8, <1>9, <1>10

\* The slot at the head of a port goes to the decode, or back to the ring.
LEMMA DeliverStep == ASSUME RingInv, NEW s \in Session, Deliver(s) PROVE RingInv'
<1> DEFINE i == Head(port[s])
<1>1. UNCHANGED <<writer, lost>> /\ port' = [port EXCEPT ![s] = Tail(port[s])] /\ port[s] # <<>>
  BY DEF Deliver, At
<1>2. /\ i \in InPort(s) /\ i \in Slot
      /\ Tail(port[s]) \in Seq(Slot)
      /\ Range(Tail(port[s])) = InPort(s) \ {i}
      /\ IsInjective(Tail(port[s]))
  BY <1>1, TailRange DEF RingInv, RingType, Exclusive, InPort
<1>3. \A t \in Session : InPort(t)' = IF t = s THEN InPort(s) \ {i} ELSE InPort(t)
  BY <1>1, <1>2 DEF RingInv, RingType, InPort
<1>4. \A t \in Session : IsInjective(port'[t])
  BY <1>1, <1>2 DEF RingInv, RingType, Exclusive
<1>5. /\ i \notin lost /\ states[i] = "dart"
      /\ \A t \in Session : writer[t] # i /\ decoding[t] # i /\ (t # s => i \notin InPort(t))
  BY <1>2 DEF RingInv, Exclusive, Marked
<1>6. port' \in [Session -> Seq(Slot)]
  BY <1>1, <1>2 DEF RingInv, RingType
<1> HIDE DEF i
<1>7. CASE decoding' = [decoding EXCEPT ![s] = i] /\ decoding[s] = NONE /\ UNCHANGED states
  <2>1. RingType'
    BY <1>1, <1>2, <1>6, <1>7 DEF RingInv, RingType
  <2>2. \A t \in Session : decoding'[t] = IF t = s THEN i ELSE decoding[t]
    BY <1>7 DEF RingInv, RingType
  <2>3. Exclusive'
    BY <1>1, <1>2, <1>3, <1>4, <1>5, <2>2, NoneIsNoSlot DEF RingInv, Exclusive
  <2>4. Marked'
    BY <1>1, <1>2, <1>3, <1>5, <1>7, <2>2, NoneIsNoSlot DEF RingInv, Marked
  <2> QED BY <2>1, <2>3, <2>4 DEF RingInv
<1>8. CASE Release(i) /\ UNCHANGED decoding
  <2>1. RingType'
    BY <1>1, <1>2, <1>6, <1>8 DEF RingInv, RingType, Release
  <2>2. \A j \in Slot : states'[j] = IF j = i THEN "free" ELSE states[j]
    BY <1>8 DEF Release, RingInv, RingType
  <2>3. Exclusive'
    BY <1>1, <1>3, <1>4, <1>8 DEF RingInv, Exclusive
  <2>4. Marked'
    <3>1. \A t \in Session : writer'[t] # NONE => states'[writer'[t]] \in {"rust", "dart"}
      BY <1>1, <1>2, <1>3, <1>5, <1>8, <2>2, NoneIsNoSlot DEF RingInv, RingType, Marked
    <3>2. \A t \in Session : decoding'[t] # NONE => states'[decoding'[t]] = "dart"
      BY <1>1, <1>2, <1>3, <1>5, <1>8, <2>2, NoneIsNoSlot DEF RingInv, RingType, Marked
    <3>3. \A t \in Session : \A j \in InPort(t)' : states'[j] = "dart"
      BY <1>1, <1>2, <1>3, <1>5, <1>8, <2>2, PortOfSlots DEF RingInv, Marked
    <3>4. \A j \in lost' : states'[j] = "dart"
      BY <1>1, <1>2, <1>3, <1>5, <1>8, <2>2 DEF RingInv, RingType, Marked
    <3>5. \A j \in Slot : states'[j] # "free" =>
              j \in lost' \/ \E t \in Session : writer'[t] = j \/ decoding'[t] = j \/ j \in InPort(t)'
      BY <1>1, <1>2, <1>3, <1>5, <1>8, <2>2, NoneIsNoSlot DEF RingInv, Marked
    <3> QED BY <3>1, <3>2, <3>3, <3>4, <3>5 DEF Marked
  <2> QED BY <2>1, <2>3, <2>4 DEF RingInv
<1> QED BY <1>7, <1>8 DEF Deliver, Shown, At, i

\* A decode that ends gives back the slot it alone has had.
LEMMA DecodedStep == ASSUME RingInv, NEW s \in Session, Decoded(s) PROVE RingInv'
<1> DEFINE i == decoding[s]
<1>1. /\ i # NONE /\ Release(i) /\ decoding' = [decoding EXCEPT ![s] = NONE]
      /\ UNCHANGED <<writer, port, lost>>
  BY DEF Decoded, GiveBack, At
<1>2. i \in Slot
  BY <1>1 DEF RingInv, RingType
<1>3. \A t \in Session : InPort(t)' = InPort(t)
  BY <1>1 DEF InPort
<1>4. /\ i \notin lost
      /\ \A t \in Session : writer[t] # i /\ i \notin InPort(t) /\ (t # s => decoding[t] # i)
  BY <1>1, <1>2, NoneIsNoSlot DEF RingInv, Exclusive
<1>5. RingType'
  BY <1>1, <1>2 DEF RingInv, RingType, Release
<1>6. \A t \in Session : decoding'[t] = IF t = s THEN NONE ELSE decoding[t]
  BY <1>1 DEF RingInv, RingType
<1>7. \A j \in Slot : states'[j] = IF j = i THEN "free" ELSE states[j]
  BY <1>1 DEF Release, RingInv, RingType
<1>8. Exclusive'
  BY <1>1, <1>3, <1>6, PortOfSlots, NoneIsNoSlot DEF RingInv, Exclusive, RingType
<1>9. Marked'
  BY <1>1, <1>2, <1>3, <1>4, <1>6, <1>7, PortOfSlots, NoneIsNoSlot DEF RingInv, RingType, Marked
<1> QED BY <1>5, <1>8, <1>9 DEF RingInv

\* A cancelled subscription loses what was in its port, and nothing else.
LEMMA CancelStep == ASSUME RingInv, NEW s \in Session, CancelVideo(s) PROVE RingInv'
<1>1. /\ UNCHANGED <<writer, decoding, states>>
      /\ port' = [port EXCEPT ![s] = <<>>]
      /\ lost' = lost \cup InPort(s)
  BY DEF CancelVideo, At, InPort
<1>2. <<>> \in Seq(Slot) /\ Range(<<>>) = {} /\ IsInjective(<<>>)
  BY DEF Range, IsInjective
<1>3. \A t \in Session : InPort(t)' = IF t = s THEN {} ELSE InPort(t)
  BY <1>1, <1>2 DEF RingInv, RingType, InPort
<1>4. \A t \in Session : IsInjective(port'[t])
  BY <1>1, <1>2 DEF RingInv, RingType, Exclusive
<1>5. RingType'
  BY <1>1, <1>2, PortOfSlots DEF RingInv, RingType
<1>6. Exclusive'
  BY <1>1, <1>3, <1>4 DEF RingInv, Exclusive
<1>7. Marked'
  BY <1>1, <1>3 DEF RingInv, Marked
<1> QED BY <1>5, <1>6, <1>7 DEF RingInv

LEMMA RingStep == RingInv /\ [Next]_vars => RingInv'
<1> SUFFICES ASSUME RingInv, [Next]_vars PROVE RingInv'
  OBVIOUS
<1>1. CASE UNCHANGED <<states, writer, port, decoding, lost>>
  BY <1>1 DEF RingInv, RingType, Exclusive, Marked, InPort
<1>2. ASSUME NEW s \in Session, ListenVideo(s) \/ SetVideoSink(s) \/ ToggleView(s) \/ CloseVideo(s)
      PROVE  UNCHANGED <<states, writer, port, decoding, lost>>
  BY <1>2 DEF ListenVideo, SetVideoSink, ToggleView, CloseVideo
<1>3. \/ WriteRear \/ Flip \/ LookUp \/ Uploaded
      \/ PushEvent \/ TakeBuffer \/ Forward \/ SetSink \/ DropSink
      \/ UNCHANGED vars
      => UNCHANGED <<states, writer, port, decoding, lost>>
  BY DEF WriteRear, Flip, LookUp, Uploaded, PushEvent, TakeBuffer, Forward, SetSink, DropSink, OnTexture, OnEvents,
         vars, ring
<1> QED BY <1>1, <1>2, <1>3, ClaimStep, WriterStep, DeliverStep, DecodedStep, CancelStep DEF Next, SlotStep

\* The strengthened invariant holds for any number of slots and sessions.
THEOREM RingCorrect == Spec => []RingInv
<1>1. Init => RingInv
  <2>1. <<>> \in Seq(Slot) /\ Range(<<>>) = {} /\ IsInjective(<<>>)
    BY DEF Range, IsInjective
  <2>2. Init => RingType
    BY <2>1 DEF Init, RingType
  <2>3. Init => \A s \in Session : InPort(s) = {} /\ IsInjective(port[s])
    BY <2>1 DEF Init, InPort
  <2>4. Init => Exclusive
    BY <2>3 DEF Init, Exclusive
  <2>5. Init => Marked
    BY <2>3 DEF Init, Marked
  <2> QED BY <2>2, <2>4, <2>5 DEF RingInv
<1> QED BY <1>1, RingStep, PTL DEF Spec

\* Each slot of the ring has one owner, and a free one none (video_ring.rs,
\* RawVideoFrameView).
THEOREM SlotOwnership == Spec => []OneOwner
<1>1. RingInv => OneOwner
  <2> SUFFICES ASSUME RingInv PROVE OneOwner
    OBVIOUS
  <2>1. \A s \in Session : HeldBy(s) = ({writer[s], decoding[s]} \cup InPort(s)) \ {NONE}
    BY DEF HeldBy, InPort
  <2>2. \A s, t \in Session : s # t => HeldBy(s) \cap HeldBy(t) = {}
    BY <2>1 DEF RingInv, Exclusive
  <2>3. \A s \in Session :
          /\ writer[s] \notin Range(port[s]) \cup ({decoding[s]} \ {NONE})
          /\ decoding[s] \notin Range(port[s])
    BY DEF RingInv, Exclusive, InPort
  <2>4. \A s \in Session : \A i \in HeldBy(s) : states[i] = "dart" \/ (i = writer[s] /\ states[i] = "rust")
    BY <2>1 DEF RingInv, Marked
  <2>5. \A i \in Slot : states[i] # "free" <=> i \in lost \cup UNION {HeldBy(s) : s \in Session}
    <3> SUFFICES ASSUME NEW i \in Slot
                 PROVE  states[i] # "free" <=> i \in lost \/ \E s \in Session : i \in HeldBy(s)
      OBVIOUS
    <3>1. states[i] # "free" => i \in lost \/ \E s \in Session : i \in HeldBy(s)
      BY <2>1, NoneIsNoSlot DEF RingInv, Marked
    <3>2. i \in lost => states[i] # "free"
      BY DEF RingInv, Marked
    <3>3. (\E s \in Session : i \in HeldBy(s)) => states[i] # "free"
      BY <2>4
    <3> QED BY <3>1, <3>2, <3>3
  <2> QED BY <2>2, <2>3, <2>4, <2>5 DEF OneOwner
<1> QED BY <1>1, RingCorrect, PTL
-----------------------------------------------------------------------------
(* The texture.                                                            *)

\* What the engine reads is in the front slot until the first publication of its
\* read has been flipped, and in that slot until a second one begins.
ReadInv ==
  /\ front \in {0, 1} /\ during \in Nat /\ DOMAIN buffers = {0, 1}
  /\ reading # NoRead =>
       /\ reading.slot \in {0, 1}
       /\ during = 0 => back = NONE /\ reading.slot = front
       /\ during = 1 /\ back # NONE => reading.slot = front
       /\ during <= 1 => buffers[reading.slot] = reading.frame

\* A publication begins in the slot that is not the front one.
LEMMA WriteRead == ReadInv /\ WriteRear => ReadInv'
<1> SUFFICES ASSUME ReadInv, WriteRear PROVE ReadInv'
  OBVIOUS
<1>1. PICK f : buffers' = [buffers EXCEPT ![Rear] = f]
  BY DEF WriteRear
<1>2. DOMAIN buffers' = {0, 1} /\ \A i \in {0, 1} : i = front => buffers'[i] = buffers[i]
  BY <1>1 DEF ReadInv, Rear
<1>3. back = NONE /\ UNCHANGED <<front, reading>> /\ during' = IF reading = NoRead THEN 0 ELSE during + 1
  BY DEF WriteRear
<1> QED BY <1>2, <1>3 DEF ReadInv

\* A flip writes no slot; the engine looks up the front one, or is done.
LEMMA EngineRead == ReadInv /\ (Flip \/ LookUp \/ Uploaded) => ReadInv'
<1> SUFFICES ASSUME ReadInv, Flip \/ LookUp \/ Uploaded PROVE ReadInv'
  OBVIOUS
<1>1. CASE Flip
  BY <1>1 DEF ReadInv, Flip
<1>2. CASE LookUp
  BY <1>2 DEF ReadInv, LookUp
<1>3. CASE Uploaded
  BY <1>3 DEF ReadInv, Uploaded
<1> QED BY <1>1, <1>2, <1>3

\* One publication during a read leaves what is read alone (video_texture.rs).
THEOREM ReadIsSafe == Spec => []ReadSurvivesOnePublish
<1>1. Init => ReadInv
  BY DEF Init, ReadInv
<1>2. ReadInv /\ [Next]_vars => ReadInv'
  <2> SUFFICES ASSUME ReadInv, [Next]_vars PROVE ReadInv'
    OBVIOUS
  <2>1. CASE UNCHANGED texture
    BY <2>1 DEF ReadInv, texture
  <2>2. ASSUME NEW s \in Session, SlotStep(s)
        PROVE  UNCHANGED texture
    BY <2>2 DEF SlotStep, Claim, TooLarge, Publish, PushFrame, ListenVideo, SetVideoSink, ToggleView, Deliver,
                Decoded, CancelVideo, CloseVideo, OnRing
  <2>3. PushEvent \/ TakeBuffer \/ Forward \/ SetSink \/ DropSink \/ UNCHANGED vars => UNCHANGED texture
    BY DEF PushEvent, TakeBuffer, Forward, SetSink, DropSink, OnEvents, vars
  <2> QED BY <2>1, <2>2, <2>3, WriteRead, EngineRead DEF Next
<1>3. ReadInv => ReadSurvivesOnePublish
  BY DEF ReadInv, ReadSurvivesOnePublish
<1> QED BY <1>1, <1>2, <1>3, PTL DEF Spec
-----------------------------------------------------------------------------
(* The events.                                                             *)

Increasing(q) == \A i, j \in DOMAIN q : i < j => q[i] < q[j]

\* Every event of one list was pushed before every event of the other.
Before(p, q) == \A i \in DOMAIN p, j \in DOMAIN q : p[i] < q[j]

\* A list of events, the last of them at most n.
Upto(q, n) == q \in Seq(Nat) /\ Increasing(q) /\ \A i \in DOMAIN q : q[i] <= n

\* An event later than those of a list keeps it in order.
LEMMA AppendEvent ==
  ASSUME NEW n \in Nat, NEW m \in Nat, NEW q, Upto(q, n), n <= m, NEW e \in Nat, e <= m,
         \A i \in DOMAIN q : q[i] < e
  PROVE  Upto(Append(q, e), m) /\ Range(Append(q, e)) = Range(q) \cup {e}
<1> DEFINE r == Append(q, e)
<1>1. /\ q \in Seq(Nat) /\ r \in Seq(Nat)
      /\ DOMAIN r = 1 .. Len(q) + 1 /\ DOMAIN q = 1 .. Len(q) /\ Len(q) \in Nat
  BY DEF Upto
<1>2. r[Len(q) + 1] = e /\ \A k \in 1 .. Len(q) : r[k] = q[k]
  BY DEF Upto
<1>3. \A k \in 1 .. Len(q) : q[k] \in Nat
  BY <1>1
<1> HIDE DEF r
<1>4. Range(r) = Range(q) \cup {e}
  <2>1. \A x \in Range(r) : x \in Range(q) \cup {e}
    BY <1>1, <1>2 DEF Range
  <2>2. \A x \in Range(q) : x \in Range(r)
    BY <1>1, <1>2 DEF Range
  <2>3. e \in Range(r)
    BY <1>1, <1>2 DEF Range
  <2> QED BY <2>1, <2>2, <2>3
<1>5. \A k \in DOMAIN r : \/ k \in 1 .. Len(q) /\ r[k] = q[k] /\ q[k] < e
                          \/ k = Len(q) + 1 /\ r[k] = e
  <2>1. \A k \in 1 .. Len(q) + 1 : k \in 1 .. Len(q) \/ k = Len(q) + 1
    BY <1>1
  <2>2. \A k \in 1 .. Len(q) : q[k] < e
    BY <1>1
  <2> QED BY <1>1, <1>2, <2>1, <2>2
<1>6. \A k \in DOMAIN r : r[k] <= m
  <2> SUFFICES ASSUME NEW k \in DOMAIN r PROVE r[k] <= m
    OBVIOUS
  <2>1. CASE k \in 1 .. Len(q) /\ r[k] = q[k] /\ q[k] < e
    BY <1>3, <2>1
  <2> QED BY <1>5, <2>1
<1>7. Increasing(r)
  <2> SUFFICES ASSUME NEW j \in DOMAIN r, NEW k \in DOMAIN r, j < k PROVE r[j] < r[k]
    BY DEF Increasing
  <2>1. j \in 1 .. Len(q) /\ r[j] = q[j] /\ q[j] < e
    BY <1>1, <1>5
  <2>2. CASE k \in 1 .. Len(q) /\ r[k] = q[k]
    BY <1>1, <2>1, <2>2 DEF Upto, Increasing
  <2> QED BY <1>5, <2>1, <2>2
<1> QED BY <1>1, <1>4, <1>6, <1>7 DEF r, Upto

\* The first event of a list is the oldest, and leaves the rest in order.
LEMMA TailEvents ==
  ASSUME NEW n \in Nat, NEW q, Upto(q, n), q # <<>>
  PROVE  /\ Head(q) \in Nat /\ Head(q) <= n /\ Head(q) = q[1] /\ 1 \in DOMAIN q
         /\ Upto(Tail(q), n)
         /\ \A i \in DOMAIN Tail(q) : Head(q) < Tail(q)[i] /\ Tail(q)[i] = q[i + 1] /\ i + 1 \in DOMAIN q
         /\ Range(q) = {Head(q)} \cup Range(Tail(q))
<1> DEFINE r == Tail(q)
<1>0. q \in Seq(Nat)
  BY DEF Upto
<1>1. /\ r \in Seq(Nat)
      /\ DOMAIN r = 1 .. Len(q) - 1 /\ DOMAIN q = 1 .. Len(q) /\ Len(q) \in Nat /\ Len(q) > 0
  BY <1>0
<1>2. Head(q) = q[1] /\ \A k \in 1 .. Len(q) - 1 : r[k] = q[k + 1]
  BY <1>0, <1>1
<1>3. 1 \in 1 .. Len(q) /\ \A k \in 1 .. Len(q) : q[k] \in Nat
  BY <1>0, <1>1
<1> HIDE DEF r
<1>4. /\ \A i, j \in 1 .. Len(q) : i < j => q[i] < q[j]
      /\ \A i \in 1 .. Len(q) : q[i] <= n
  BY <1>1 DEF Upto, Increasing
<1>5. \A i \in DOMAIN r : r[i] = q[i + 1] /\ i + 1 \in 1 .. Len(q) /\ 1 < i + 1
  BY <1>1, <1>2
<1>6. \A i \in DOMAIN r : r[i] <= n /\ i + 1 \in DOMAIN q /\ Head(q) < r[i]
  BY <1>1, <1>2, <1>3, <1>4, <1>5
<1>7. Increasing(r)
  <2> SUFFICES ASSUME NEW i \in DOMAIN r, NEW j \in DOMAIN r, i < j PROVE r[i] < r[j]
    BY DEF Increasing
  <2>1. i + 1 < j + 1
    BY <1>1
  <2> QED BY <1>4, <1>5, <2>1
<1>8. Range(q) = {Head(q)} \cup Range(r)
  <2>1. \A x \in Range(q) : x \in {Head(q)} \cup Range(r)
    <3> SUFFICES ASSUME NEW k \in 1 .. Len(q) PROVE q[k] \in {Head(q)} \cup Range(r)
      BY <1>1 DEF Range
    <3>1. CASE k = 1
      BY <1>2, <3>1
    <3>2. CASE k # 1
      <4>1. k - 1 \in 1 .. Len(q) - 1 /\ r[k - 1] = q[(k - 1) + 1]
        BY <1>1, <1>2, <3>2
      <4> QED BY <1>1, <4>1 DEF Range
    <3> QED BY <3>1, <3>2
  <2>2. Head(q) \in Range(q)
    BY <1>1, <1>2, <1>3 DEF Range
  <2>3. \A x \in Range(r) : x \in Range(q)
    BY <1>1, <1>2, <1>5 DEF Range
  <2> QED BY <2>1, <2>2, <2>3
<1>9. Upto(r, n)
  BY <1>1, <1>6, <1>7 DEF Upto
<1>10. Head(q) \in Nat /\ Head(q) <= n /\ 1 \in DOMAIN q
  BY <1>1, <1>2, <1>3 DEF Upto
<1> QED BY <1>1, <1>2, <1>5, <1>6, <1>8, <1>9, <1>10 DEF r

\* What was received goes before what was taken; before the subscription there is
\* the buffer only, and what comes to it later stays there.
EventInv ==
  /\ pushed \in Nat
  /\ Upto(received, pushed) /\ Upto(taken, pushed) /\ Upto(buffer, pushed)
  /\ Before(received, taken)
  /\ evsub = "no" => received = <<>> /\ taken = <<>>
  /\ evsub # "no" => Range(buffer) \subseteq stranded
  /\ evsub \in {"set", "closed"} => taken = <<>>
  /\ 1 .. pushed \subseteq Range(received) \cup Range(taken) \cup Range(buffer) \cup stranded

\* The list without events.
LEMMA NoEvents == \A n \in Nat : Upto(<<>>, n) /\ Range(<<>>) = {} /\ DOMAIN <<>> = {}
BY DEF Upto, Increasing, Range

\* A push goes to the page or to the buffer, behind all that was pushed before.
LEMMA PushedEvent == EventInv /\ PushEvent => EventInv'
<1> SUFFICES ASSUME EventInv, PushEvent PROVE EventInv'
  OBVIOUS
<1> DEFINE e == pushed + 1
<1>1. pushed' = e /\ e \in Nat /\ UNCHANGED <<taken, evsub>> /\ pushed \in Nat /\ pushed <= e
  BY DEF EventInv, PushEvent
<1>2. 1 .. e \subseteq (1 .. pushed) \cup {e}
  BY <1>1
<1>3. \A q : Upto(q, pushed) => Upto(q, e) /\ \A i \in DOMAIN q : q[i] < e
  <2> SUFFICES ASSUME NEW q, Upto(q, pushed) PROVE Upto(q, e) /\ \A i \in DOMAIN q : q[i] < e
    OBVIOUS
  <2>1. \A i \in DOMAIN q : q[i] \in Nat
    BY DEF Upto
  <2> QED BY <1>1, <2>1 DEF Upto
<1>4. \A q : Upto(q, pushed) => Upto(Append(q, e), e) /\ Range(Append(q, e)) = Range(q) \cup {e}
  BY <1>1, <1>3, AppendEvent
<1> HIDE DEF e
<1>5. CASE evsub = "set"
  <2>1. received' = Append(received, e) /\ UNCHANGED <<buffer, stranded>>
    BY <1>5 DEF PushEvent, e
  <2>2. taken = <<>> /\ Before(received', taken)
    BY <1>5, NoEvents DEF EventInv, Before
  <2> QED BY <1>1, <1>2, <1>3, <1>4, <1>5, <2>1, <2>2 DEF EventInv
<1>6. CASE evsub # "set"
  <2>1. /\ buffer' = Append(buffer, e) /\ UNCHANGED received
        /\ stranded' = IF evsub = "no" THEN stranded ELSE stranded \cup {e}
    BY <1>6 DEF PushEvent, e
  <2>2. Before(received', taken')
    BY <1>1, <2>1 DEF EventInv
  <2> QED BY <1>1, <1>2, <1>3, <1>4, <1>6, <2>1, <2>2 DEF EventInv
<1> QED BY <1>5, <1>6

\* The oldest event that was taken is the next the page is given.
LEMMA ForwardedEvent == EventInv /\ Forward => EventInv'
<1> SUFFICES ASSUME EventInv, Forward PROVE EventInv'
  OBVIOUS
<1> DEFINE e == Head(taken)
<1>1. /\ received' = Append(received, e) /\ taken' = Tail(taken) /\ taken # <<>>
      /\ UNCHANGED <<buffer, evsub, pushed, stranded>>
  BY DEF Forward
<1>2. /\ e \in Nat /\ e <= pushed /\ e = taken[1] /\ 1 \in DOMAIN taken
      /\ Upto(Tail(taken), pushed)
      /\ \A i \in DOMAIN Tail(taken) : e < Tail(taken)[i] /\ Tail(taken)[i] = taken[i + 1] /\ i + 1 \in DOMAIN taken
      /\ Range(taken) = {e} \cup Range(Tail(taken))
  BY <1>1, TailEvents DEF EventInv
<1> HIDE DEF e
<1>3. \A i \in DOMAIN received : received[i] < e
  BY <1>2 DEF EventInv, Before
<1>4. Upto(received', pushed) /\ Range(received') = Range(received) \cup {e}
  BY <1>1, <1>2, <1>3, AppendEvent DEF EventInv
<1>5. Before(received', taken')
  <2> SUFFICES ASSUME NEW i \in DOMAIN received', NEW j \in DOMAIN taken' PROVE received'[i] < taken'[j]
    BY DEF Before
  <2>1. received'[i] \in Range(received) \cup {e}
    BY <1>4 DEF Range
  <2>2. CASE received'[i] = e
    BY <1>1, <1>2, <2>2
  <2>3. CASE received'[i] \in Range(received)
    <3>1. PICK k \in DOMAIN received : received[k] = received'[i]
      BY <2>3 DEF Range
    <3>2. taken'[j] = taken[j + 1] /\ j + 1 \in DOMAIN taken
      BY <1>1, <1>2
    <3>3. received[k] < taken[j + 1]
      BY <3>1, <3>2 DEF EventInv, Before
    <3> QED BY <3>1, <3>2, <3>3
  <2> QED BY <2>1, <2>2, <2>3
<1>6. evsub # "no" /\ evsub \notin {"set", "closed"}
  BY <1>1 DEF EventInv
<1> QED BY <1>1, <1>2, <1>4, <1>5, <1>6 DEF EventInv

\* The subscription takes the buffer as it is, and sets the sink when it is sent.
LEMMA Subscribed == EventInv /\ (TakeBuffer \/ SetSink \/ DropSink) => EventInv'
<1> SUFFICES ASSUME EventInv, TakeBuffer \/ SetSink \/ DropSink PROVE EventInv'
  OBVIOUS
<1>1. CASE TakeBuffer
  BY <1>1, NoEvents DEF EventInv, TakeBuffer, Before
<1>2. CASE SetSink
  BY <1>2 DEF EventInv, SetSink
<1>3. CASE DropSink
  BY <1>3 DEF EventInv, DropSink
<1> QED BY <1>1, <1>2, <1>3

\* The page is given events in order, and every one that was pushed before it
\* subscribed or after it had (push_event, subscribe_event_stream).
THEOREM EventsAreInOrder == Spec => []EventsInOrder
<1>1. Init => EventInv
  <2>1. 1 .. 0 = {} /\ 0 \in Nat
    OBVIOUS
  <2> QED BY <2>1, NoEvents DEF Init, EventInv, Before
<1>2. EventInv /\ [Next]_vars => EventInv'
  <2> SUFFICES ASSUME EventInv, [Next]_vars PROVE EventInv'
    OBVIOUS
  <2>1. CASE UNCHANGED events
    BY <2>1 DEF EventInv, events
  <2>2. ASSUME NEW s \in Session, SlotStep(s)
        PROVE  UNCHANGED events
    BY <2>2 DEF SlotStep, Claim, TooLarge, Publish, PushFrame, ListenVideo, SetVideoSink, ToggleView, Deliver,
                Decoded, CancelVideo, CloseVideo, OnRing
  <2>3. WriteRear \/ Flip \/ LookUp \/ Uploaded \/ UNCHANGED vars => UNCHANGED events
    BY DEF WriteRear, Flip, LookUp, Uploaded, OnTexture, vars
  <2> QED BY <2>1, <2>2, <2>3, PushedEvent, ForwardedEvent, Subscribed DEF Next
<1>3. EventInv => EventsInOrder
  <2> SUFFICES ASSUME EventInv PROVE EventsInOrder
    OBVIOUS
  <2>1. evsub = "set" => 1 .. pushed \subseteq Range(received) \cup stranded
    BY NoEvents DEF EventInv
  <2> QED BY <2>1 DEF EventInv, EventsInOrder, Upto, Increasing
<1> QED BY <1>1, <1>2, <1>3, PTL DEF Spec
-----------------------------------------------------------------------------
(* Types.                                                                  *)

\* What the ring's invariant does not speak of: the listeners of the sessions,
\* the texture's front slot, and where the subscription of the events is.
FlagType ==
  /\ channel \in Channel
  /\ sink \in [Session -> BOOLEAN] /\ mounted \in [Session -> BOOLEAN]
  /\ listening \in [Session -> {"no", "yes", "cancelled"}]
  /\ front \in {0, 1} /\ during \in Nat
  /\ evsub \in {"no", "taken", "set", "closed"} /\ pushed \in 0 .. MaxEvents

\* The steps of the ring keep these types.
LEMMA RingFlags ==
  ASSUME FlagType, NEW s \in Session, SlotStep(s)
  PROVE  FlagType'
<1>1. UNCHANGED <<channel, front, during, evsub, pushed>>
  BY DEF SlotStep, Claim, TooLarge, Publish, PushFrame, ListenVideo, SetVideoSink, ToggleView, Deliver,
         Decoded, CancelVideo, CloseVideo, OnRing, texture, events
<1>2. sink' \in [Session -> BOOLEAN]
  <2>1. sink' = sink \/ sink' = [sink EXCEPT ![s] = TRUE] \/ sink' = [sink EXCEPT ![s] = FALSE]
    BY DEF SlotStep, Claim, TooLarge, Publish, PushFrame, ListenVideo, SetVideoSink, ToggleView, Deliver,
           Decoded, CancelVideo, CloseVideo, At
  <2> QED BY <2>1 DEF FlagType
<1>3. mounted' \in [Session -> BOOLEAN]
  <2>1. mounted' = mounted \/ mounted' = [mounted EXCEPT ![s] = ~mounted[s]]
    BY DEF SlotStep, Claim, TooLarge, Publish, PushFrame, ListenVideo, SetVideoSink, ToggleView, Deliver,
           Decoded, CancelVideo, CloseVideo, At
  <2> QED BY <2>1 DEF FlagType
<1>4. listening' \in [Session -> {"no", "yes", "cancelled"}]
  <2>1. \/ listening' = listening
        \/ listening' = [listening EXCEPT ![s] = "yes"]
        \/ listening' = [listening EXCEPT ![s] = "cancelled"]
    BY DEF SlotStep, Claim, TooLarge, Publish, PushFrame, ListenVideo, SetVideoSink, ToggleView, Deliver,
           Decoded, CancelVideo, CloseVideo, At
  <2> QED BY <2>1 DEF FlagType
<1> QED BY <1>1, <1>2, <1>3, <1>4 DEF FlagType

\* The steps of the texture and of the events keep them.
LEMMA OtherFlags ==
  ASSUME FlagType,
         \/ WriteRear \/ Flip \/ LookUp \/ Uploaded
         \/ PushEvent \/ TakeBuffer \/ Forward \/ SetSink \/ DropSink
  PROVE  FlagType'
<1>1. UNCHANGED <<channel, sink, mounted, listening>>
  BY DEF WriteRear, Flip, LookUp, Uploaded, OnTexture, PushEvent, TakeBuffer, Forward, SetSink, DropSink,
         OnEvents, ring
<1>2. CASE WriteRear \/ Flip \/ LookUp \/ Uploaded
  <2>1. UNCHANGED <<evsub, pushed>>
    BY <1>2 DEF WriteRear, Flip, LookUp, Uploaded, OnTexture, events
  <2>2. front' \in {front, 0, 1} /\ during' \in {during, during + 1, 0, 1}
    BY <1>2 DEF WriteRear, Flip, LookUp, Uploaded
  <2> QED BY <1>1, <2>1, <2>2 DEF FlagType
<1>3. CASE PushEvent \/ TakeBuffer \/ Forward \/ SetSink \/ DropSink
  <2>1. UNCHANGED <<front, during>>
    BY <1>3 DEF PushEvent, TakeBuffer, Forward, SetSink, DropSink, OnEvents, texture
  <2>2. evsub' \in {evsub, "taken", "set", "closed"}
    BY <1>3 DEF PushEvent, TakeBuffer, Forward, SetSink, DropSink
  <2>3. pushed' \in 0 .. MaxEvents
    BY <1>3, HandoverAssumption
       DEF FlagType, PushEvent, TakeBuffer, Forward, SetSink, DropSink, HandoverAssumption
  <2> QED BY <1>1, <2>1, <2>2, <2>3 DEF FlagType
<1> QED BY <1>2, <1>3

\* The variables keep their types; a port carries a slot at most once.
THEOREM HandoverTypes == Spec => []TypeOK
<1>1. Init => FlagType
  <2>1. 0 \in 0 .. MaxEvents
    BY HandoverAssumption DEF HandoverAssumption
  <2> QED BY <2>1 DEF Init, FlagType
<1>2. FlagType /\ [Next]_vars => FlagType'
  <2>1. FlagType /\ UNCHANGED vars => FlagType'
    BY DEF FlagType, vars, ring, texture, events
  <2> QED BY <2>1, RingFlags, OtherFlags DEF Next
<1>3. RingInv /\ FlagType => TypeOK
  <2> SUFFICES ASSUME RingInv, FlagType PROVE TypeOK
    OBVIOUS
  <2>1. \A s \in Session : IsInjective(port[s]) /\ Range(port[s]) \subseteq Slot
    BY PortOfSlots DEF RingInv, Exclusive, InPort
  <2> QED BY <2>1 DEF RingInv, RingType, FlagType, TypeOK
<1> QED BY <1>1, <1>2, <1>3, RingCorrect, PTL DEF Spec
=============================================================================
