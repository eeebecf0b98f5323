----------------------- MODULE VehicleAddressing_proofs -----------------------
(***************************************************************************)
(* Proofs about VehicleAddressing, for any number of vehicles, any pool    *)
(* bounds and any mix of vehicles: types, addresses that are unique and    *)
(* never lost, the abstract lease service, an exhaustion that is real, a   *)
(* reconfiguration that is complete, and a handler that ends.              *)
(***************************************************************************)
EXTENDS VehicleAddressing, SequenceTheorems, Induction

(* What holds of one pool: its four parts are typed, its leases injective, *)
(* its addresses conserved.                                                *)
PoolOK(map, used, queue, next) ==
  /\ map \in [Vehicle -> Addr \cup {Unspecified}]
  /\ used \in SUBSET Addr
  /\ queue \in Seq(Addr)
  /\ next \in First..(MaxHost + 1)
  /\ Injective(map)
  /\ Conserved(map, used, queue, next)

(* An unspecified address is none of a pool's addresses.                   *)
LEMMA UnspecifiedIsNoAddr == Unspecified \notin Addr /\ NoInterface \notin Addr
  BY ConstantAssumption DEF Addr, Unspecified, NoInterface

(* A fresh pool is in order.                                               *)
LEMMA InitialPool == PoolOK(NoLease, {}, <<>>, First)
  BY ConstantAssumption DEF PoolOK, NoLease, Injective, Conserved, Unspecified

(* releaseIpToPool keeps a pool in order.                                  *)
LEMMA ReleaseKeepsPool ==
  ASSUME NEW map, NEW used, NEW queue, NEW next, NEW v \in Vehicle,
         PoolOK(map, used, queue, next), map[v] # Unspecified
  PROVE  PoolOK([map EXCEPT ![v] = Unspecified], used \ {map[v]},
                Append(queue, map[v]), next)
<1> DEFINE m == [map EXCEPT ![v] = Unspecified]
           q == Append(queue, map[v])
           freed == {queue[i] : i \in 1..Len(queue)}
<1>1. /\ map \in [Vehicle -> Addr \cup {Unspecified}]
      /\ map[v] \in Addr /\ queue \in Seq(Addr)
      /\ Injective(map) /\ Conserved(map, used, queue, next)
  BY DEF PoolOK
<1>2. map[v] \in used
  BY <1>1 DEF Conserved
<1>3. /\ q \in Seq(Addr) /\ Len(q) = Len(queue) + 1 /\ Len(queue) \in Nat
      /\ q[Len(queue) + 1] = map[v]
      /\ \A i \in 1..Len(queue) : q[i] = queue[i]
  BY <1>1, AppendProperties
<1>4. {q[i] : i \in 1..Len(q)} = freed \cup {map[v]}
  <2>1. \A i \in 1..Len(q) : i \in 1..Len(queue) \/ i = Len(queue) + 1
    BY <1>3
  <2>2. 1..Len(queue) \subseteq 1..Len(q) /\ Len(queue) + 1 \in 1..Len(q)
    BY <1>3
  <2>3. \A i \in 1..Len(q) : q[i] \in freed \cup {map[v]}
    BY <2>1, <1>3
  <2>4. \A x \in freed \cup {map[v]} : \E i \in 1..Len(q) : x = q[i]
    BY <2>2, <1>3
  <2> QED BY <2>3, <2>4
<1>5. \A w \in Vehicle : m[w] = IF w = v THEN Unspecified ELSE map[w]
  BY <1>1
<1>6. {m[w] : w \in Vehicle} \ {Unspecified} = used \ {map[v]}
  BY <1>1, <1>5 DEF Conserved, Injective
<1>7. Injective(m)
  BY <1>1, <1>5 DEF Injective
<1>8. \A i, j \in 1..Len(q) : q[i] = q[j] => i = j
  <2>1. map[v] \notin freed
    BY <1>1, <1>2 DEF Conserved
  <2>2. \A i \in 1..Len(queue) : q[i] # map[v]
    BY <2>1, <1>3
  <2>3. \A i, j \in 1..Len(queue) : queue[i] = queue[j] => i = j
    BY <1>1 DEF Conserved
  <2> SUFFICES ASSUME NEW i \in 1..Len(q), NEW j \in 1..Len(q), q[i] = q[j]
               PROVE  i = j
    OBVIOUS
  <2>4. CASE i \in 1..Len(queue) /\ j \in 1..Len(queue)
    BY <2>4, <2>3, <1>3
  <2>5. CASE i = Len(queue) + 1 \/ j = Len(queue) + 1
    BY <2>5, <2>2, <1>3
  <2> QED BY <2>4, <2>5, <1>3
<1>9. Conserved(m, used \ {map[v]}, q, next)
  <2>1. used \cap freed = {} /\ used \cup freed = First..(next - 1)
    BY <1>1 DEF Conserved
  <2>2. (used \ {map[v]}) \cap (freed \cup {map[v]}) = {}
    BY <2>1
  <2>3. (used \ {map[v]}) \cup (freed \cup {map[v]}) = First..(next - 1)
    BY <2>1, <1>2
  <2> QED BY <2>2, <2>3, <1>4, <1>6, <1>8 DEF Conserved
<1>10. m \in [Vehicle -> Addr \cup {Unspecified}]
  BY <1>1
<1> QED BY <1>3, <1>7, <1>9, <1>10 DEF PoolOK

(* allocateIpFromPool on a non-empty queue keeps a pool in order.          *)
LEMMA ReuseKeepsPool ==
  ASSUME NEW map, NEW used, NEW queue, NEW next, NEW v \in Vehicle,
         PoolOK(map, used, queue, next), map[v] = Unspecified, queue # <<>>
  PROVE  /\ Head(queue) \in Addr \ ({map[w] : w \in Vehicle})
         /\ PoolOK([map EXCEPT ![v] = Head(queue)], used \cup {Head(queue)},
                   Tail(queue), next)
<1> DEFINE h == Head(queue)
           m == [map EXCEPT ![v] = h]
           t == Tail(queue)
           freed == {queue[i] : i \in 1..Len(queue)}
<1>1. /\ map \in [Vehicle -> Addr \cup {Unspecified}]
      /\ queue \in Seq(Addr) /\ used \in SUBSET Addr
      /\ Injective(map) /\ Conserved(map, used, queue, next)
  BY DEF PoolOK
<1>2. /\ t \in Seq(Addr) /\ Len(t) = Len(queue) - 1 /\ Len(queue) \in Nat \ {0}
      /\ h = queue[1] /\ h \in Addr
      /\ \A i \in 1..Len(t) : t[i] = queue[i + 1]
  BY <1>1, HeadTailProperties, EmptySeq, LenProperties, ElementOfSeq
<1>3. \A i, j \in 1..Len(queue) : queue[i] = queue[j] => i = j
  BY <1>1 DEF Conserved
<1>4. {t[i] : i \in 1..Len(t)} = freed \ {h}
  <2>1. \A i \in 1..Len(t) : i + 1 \in 1..Len(queue) /\ i + 1 # 1
    BY <1>2
  <2>2. \A i \in 1..Len(t) : t[i] \in freed \ {h}
    BY <2>1, <1>2, <1>3
  <2>3. \A i \in 1..Len(queue) : i # 1 => i - 1 \in 1..Len(t) /\ t[i - 1] = queue[i]
    BY <1>2
  <2>4. \A x \in freed \ {h} : \E i \in 1..Len(t) : x = t[i]
    BY <2>3, <1>2
  <2> QED BY <2>2, <2>4
<1>5. h \in freed /\ h \notin used
  <2>1. h \in freed
    BY <1>2
  <2> QED BY <2>1, <1>1 DEF Conserved
<1>6. \A w \in Vehicle : map[w] # h
  BY <1>5, <1>2, <1>1, UnspecifiedIsNoAddr DEF Conserved
<1>7. \A w \in Vehicle : m[w] = IF w = v THEN h ELSE map[w]
  BY <1>1
<1>8. Injective(m)
  BY <1>1, <1>6, <1>7 DEF Injective
<1>9. {m[w] : w \in Vehicle} \ {Unspecified} = used \cup {h}
  BY <1>1, <1>2, <1>7, UnspecifiedIsNoAddr DEF Conserved
<1>10. \A i, j \in 1..Len(t) : t[i] = t[j] => i = j
  <2> SUFFICES ASSUME NEW i \in 1..Len(t), NEW j \in 1..Len(t), t[i] = t[j]
               PROVE  i = j
    OBVIOUS
  <2>1. i + 1 \in 1..Len(queue) /\ j + 1 \in 1..Len(queue)
    BY <1>2
  <2>2. i + 1 = j + 1
    BY <2>1, <1>2, <1>3
  <2> QED BY <2>2
<1>11. Conserved(m, used \cup {h}, t, next)
  <2>1. used \cap freed = {} /\ used \cup freed = First..(next - 1)
    BY <1>1 DEF Conserved
  <2>2. (used \cup {h}) \cap (freed \ {h}) = {}
    BY <2>1
  <2>3. (used \cup {h}) \cup (freed \ {h}) = First..(next - 1)
    BY <2>1, <1>5
  <2> QED BY <2>2, <2>3, <1>4, <1>9, <1>10 DEF Conserved
<1>12. m \in [Vehicle -> Addr \cup {Unspecified}]
  BY <1>1, <1>2
<1>13. PoolOK(m, used \cup {h}, t, next)
  BY <1>1, <1>2, <1>8, <1>11, <1>12 DEF PoolOK
<1> QED BY <1>13, <1>6, <1>2

(* allocateIpFromPool on an empty queue keeps a pool in order.             *)
LEMMA ExtendKeepsPool ==
  ASSUME NEW map, NEW used, NEW queue, NEW next, NEW v \in Vehicle,
         PoolOK(map, used, queue, next), map[v] = Unspecified, queue = <<>>,
         ~(next > MaxHost)
  PROVE  /\ next \in Addr \ ({map[w] : w \in Vehicle})
         /\ PoolOK([map EXCEPT ![v] = next], used \cup {next}, queue, next + 1)
<1> DEFINE m == [map EXCEPT ![v] = next]
<1>1. /\ map \in [Vehicle -> Addr \cup {Unspecified}]
      /\ used \in SUBSET Addr /\ next \in First..(MaxHost + 1)
      /\ Injective(map) /\ Conserved(map, used, queue, next)
  BY DEF PoolOK
<1>2. next \in Addr /\ next \in Int /\ next + 1 \in First..(MaxHost + 1)
  BY <1>1, ConstantAssumption DEF Addr
<1>3. {queue[i] : i \in 1..Len(queue)} = {} /\ Len(queue) = 0
  <2>1. Len(queue) = 0
    BY EmptySeq
  <2> QED BY <2>1
<1>4. used = First..(next - 1)
  BY <1>1, <1>3 DEF Conserved
<1>5. next \notin used
  BY <1>4, <1>2
<1>6. \A w \in Vehicle : map[w] # next
  BY <1>5, <1>2, <1>1, UnspecifiedIsNoAddr DEF Conserved
<1>7. \A w \in Vehicle : m[w] = IF w = v THEN next ELSE map[w]
  BY <1>1
<1>8. Injective(m)
  BY <1>1, <1>6, <1>7 DEF Injective
<1>9. {m[w] : w \in Vehicle} \ {Unspecified} = used \cup {next}
  BY <1>1, <1>2, <1>7, UnspecifiedIsNoAddr DEF Conserved
<1>10. used \cup {next} = First..((next + 1) - 1)
  BY <1>4, <1>1, ConstantAssumption
<1>11. Conserved(m, used \cup {next}, queue, next + 1)
  BY <1>3, <1>9, <1>10 DEF Conserved
<1>12. m \in [Vehicle -> Addr \cup {Unspecified}]
  BY <1>1, <1>2
<1>13. PoolOK(m, used \cup {next}, queue, next + 1)
  <2>1. queue \in Seq(Addr)
    BY DEF PoolOK
  <2>2. used \cup {next} \in SUBSET Addr
    BY <1>1, <1>2
  <2> QED BY <2>1, <2>2, <1>2, <1>8, <1>11, <1>12 DEF PoolOK
<1> QED BY <1>13, <1>6, <1>2

-----------------------------------------------------------------------------
(* All pools are in order.                                                 *)
PoolsOK ==
  \A p \in Pool : PoolOK(nodeToIpMap[p], usedAddressesSet[p],
                         freeAddressesQueue[p], nextAddress[p])

(* The four pool variables are functions on the pools.                     *)
PoolVarsOK ==
  /\ nextAddress \in [Pool -> First..(MaxHost + 1)]
  /\ freeAddressesQueue \in [Pool -> Seq(Addr)]
  /\ usedAddressesSet \in [Pool -> SUBSET Addr]
  /\ nodeToIpMap \in [Pool -> [Vehicle -> Addr \cup {Unspecified}]]

(* Releasing all leases of one vehicle keeps every pool in order and       *)
(* changes nobody else's lease.                                            *)
LEMMA ReleaseStep ==
  ASSUME PoolVarsOK, PoolsOK, NEW v \in Vehicle, ReleaseIpToPool(v, Pool)
  PROVE  /\ PoolVarsOK' /\ PoolsOK'
         /\ \A p \in Pool, w \in Vehicle :
              nodeToIpMap'[p][w] = IF w = v THEN Unspecified ELSE nodeToIpMap[p][w]
<1>1. ASSUME NEW p \in Pool, nodeToIpMap[p][v] # Unspecified
      PROVE  /\ nodeToIpMap'[p] = [nodeToIpMap[p] EXCEPT ![v] = Unspecified]
             /\ usedAddressesSet'[p] = usedAddressesSet[p] \ {nodeToIpMap[p][v]}
             /\ freeAddressesQueue'[p] = Append(freeAddressesQueue[p], nodeToIpMap[p][v])
             /\ nextAddress'[p] = nextAddress[p]
  BY <1>1 DEF ReleaseIpToPool
<1>2. ASSUME NEW p \in Pool, nodeToIpMap[p][v] = Unspecified
      PROVE  /\ nodeToIpMap'[p] = nodeToIpMap[p]
             /\ usedAddressesSet'[p] = usedAddressesSet[p]
             /\ freeAddressesQueue'[p] = freeAddressesQueue[p]
             /\ nextAddress'[p] = nextAddress[p]
  BY <1>2 DEF ReleaseIpToPool
<1>3. ASSUME NEW p \in Pool
      PROVE  PoolOK(nodeToIpMap'[p], usedAddressesSet'[p],
                    freeAddressesQueue'[p], nextAddress'[p])
  <2>1. PoolOK(nodeToIpMap[p], usedAddressesSet[p],
               freeAddressesQueue[p], nextAddress[p])
    BY DEF PoolsOK
  <2>2. CASE nodeToIpMap[p][v] # Unspecified
    <3> DEFINE map == nodeToIpMap[p]
               used == usedAddressesSet[p]
               queue == freeAddressesQueue[p]
               next == nextAddress[p]
    <3>1. PoolOK([map EXCEPT ![v] = Unspecified], used \ {map[v]},
                 Append(queue, map[v]), next)
      <4>1. PoolOK(map, used, queue, next) /\ map[v] # Unspecified
        BY <2>1, <2>2
      <4> HIDE DEF map, used, queue, next
      <4> QED BY <4>1, ReleaseKeepsPool
    <3> QED BY <3>1, <2>2, <1>1
  <2>3. CASE nodeToIpMap[p][v] = Unspecified
    BY <2>1, <2>3, <1>2
  <2> QED BY <2>2, <2>3
<1>4. PoolsOK'
  BY <1>3 DEF PoolsOK
<1>5. PoolVarsOK'
  <2>1. /\ DOMAIN nodeToIpMap' = Pool /\ DOMAIN usedAddressesSet' = Pool
        /\ DOMAIN freeAddressesQueue' = Pool /\ DOMAIN nextAddress' = Pool
        /\ nodeToIpMap' = [p \in Pool |-> nodeToIpMap'[p]]
        /\ usedAddressesSet' = [p \in Pool |-> usedAddressesSet'[p]]
        /\ freeAddressesQueue' = [p \in Pool |-> freeAddressesQueue'[p]]
        /\ nextAddress' = [p \in Pool |-> nextAddress'[p]]
    BY DEF ReleaseIpToPool, PoolVarsOK
  <2> QED BY <2>1, <1>3 DEF PoolVarsOK, PoolOK
<1>6. ASSUME NEW p \in Pool, NEW w \in Vehicle
      PROVE  nodeToIpMap'[p][w] = IF w = v THEN Unspecified ELSE nodeToIpMap[p][w]
  <2>1. nodeToIpMap[p] \in [Vehicle -> Addr \cup {Unspecified}]
    BY DEF PoolVarsOK
  <2>2. CASE nodeToIpMap[p][v] # Unspecified
    BY <2>1, <2>2, <1>1
  <2>3. CASE nodeToIpMap[p][v] = Unspecified
    BY <2>1, <2>3, <1>2
  <2> QED BY <2>2, <2>3
<1> QED BY <1>4, <1>5, <1>6

(* Allocating for one vehicle keeps every pool in order; a fresh lease is  *)
(* an address nobody holds, and nobody else's lease changes.               *)
LEMMA AllocateStep ==
  ASSUME PoolVarsOK, PoolsOK, NEW v \in Vehicle, NEW P \in SUBSET Pool,
         AllocateIpFromPool(v, P), \A p \in P : ~Exhausted(v, p)
  PROVE  /\ PoolVarsOK' /\ PoolsOK'
         /\ \A p \in Pool, w \in Vehicle :
              nodeToIpMap'[p][w] = IF w = v /\ p \in P THEN AllocateIp(v, p)
                                                       ELSE nodeToIpMap[p][w]
         /\ \A p \in P :
              /\ AllocateIp(v, p) \in Addr
              /\ nodeToIpMap[p][v] = Unspecified =>
                   AllocateIp(v, p) \notin {nodeToIpMap[p][w] : w \in Vehicle}
              /\ nodeToIpMap[p][v] # Unspecified =>
                   AllocateIp(v, p) = nodeToIpMap[p][v]
<1> DEFINE fresh(p) == p \in P /\ nodeToIpMap[p][v] = Unspecified
<1>1. ASSUME NEW p \in Pool
      PROVE  /\ nodeToIpMap[p] \in [Vehicle -> Addr \cup {Unspecified}]
             /\ PoolOK(nodeToIpMap[p], usedAddressesSet[p],
                       freeAddressesQueue[p], nextAddress[p])
  BY DEF PoolVarsOK, PoolsOK
<1>2. ASSUME NEW p \in Pool, ~fresh(p)
      PROVE  /\ nodeToIpMap'[p] = nodeToIpMap[p]
             /\ usedAddressesSet'[p] = usedAddressesSet[p]
             /\ freeAddressesQueue'[p] = freeAddressesQueue[p]
             /\ nextAddress'[p] = nextAddress[p]
  BY <1>2 DEF AllocateIpFromPool
<1>3. ASSUME NEW p \in Pool, fresh(p), freeAddressesQueue[p] # <<>>
      PROVE  /\ AllocateIp(v, p) = Head(freeAddressesQueue[p])
             /\ nodeToIpMap'[p] = [nodeToIpMap[p] EXCEPT ![v] = AllocateIp(v, p)]
             /\ usedAddressesSet'[p] = usedAddressesSet[p] \cup {AllocateIp(v, p)}
             /\ freeAddressesQueue'[p] = Tail(freeAddressesQueue[p])
             /\ nextAddress'[p] = nextAddress[p]
  BY <1>3 DEF AllocateIpFromPool, AllocateIp
<1>4. ASSUME NEW p \in Pool, fresh(p), freeAddressesQueue[p] = <<>>
      PROVE  /\ AllocateIp(v, p) = nextAddress[p] /\ ~(nextAddress[p] > MaxHost)
             /\ nodeToIpMap'[p] = [nodeToIpMap[p] EXCEPT ![v] = AllocateIp(v, p)]
             /\ usedAddressesSet'[p] = usedAddressesSet[p] \cup {AllocateIp(v, p)}
             /\ freeAddressesQueue'[p] = freeAddressesQueue[p]
             /\ nextAddress'[p] = nextAddress[p] + 1
  BY <1>4 DEF AllocateIpFromPool, AllocateIp, Exhausted
<1>5. ASSUME NEW p \in Pool, fresh(p)
      PROVE  /\ AllocateIp(v, p) \in Addr \ {nodeToIpMap[p][w] : w \in Vehicle}
             /\ PoolOK(nodeToIpMap'[p], usedAddressesSet'[p],
                       freeAddressesQueue'[p], nextAddress'[p])
  <2> DEFINE map == nodeToIpMap[p]
             used == usedAddressesSet[p]
             queue == freeAddressesQueue[p]
             next == nextAddress[p]
  <2>1. PoolOK(map, used, queue, next) /\ map[v] = Unspecified
    BY <1>5, <1>1
  <2>2. CASE queue # <<>>
    <3>1. /\ Head(queue) \in Addr \ {map[w] : w \in Vehicle}
          /\ PoolOK([map EXCEPT ![v] = Head(queue)], used \cup {Head(queue)},
                    Tail(queue), next)
      <4> HIDE DEF map, used, queue, next
      <4> QED BY <2>1, <2>2, ReuseKeepsPool
    <3> QED BY <3>1, <2>2, <1>5, <1>3
  <2>3. CASE queue = <<>>
    <3>0. ~(next > MaxHost)
      BY <2>3, <1>5, <1>4
    <3>1. /\ next \in Addr \ {map[w] : w \in Vehicle}
          /\ PoolOK([map EXCEPT ![v] = next], used \cup {next}, queue, next + 1)
      <4> HIDE DEF map, used, queue, next
      <4> QED BY <2>1, <2>3, <3>0, ExtendKeepsPool
    <3> QED BY <3>1, <2>3, <1>5, <1>4
  <2> QED BY <2>2, <2>3
<1>6. ASSUME NEW p \in P
      PROVE  /\ AllocateIp(v, p) \in Addr
             /\ nodeToIpMap[p][v] = Unspecified =>
                  AllocateIp(v, p) \notin {nodeToIpMap[p][w] : w \in Vehicle}
             /\ nodeToIpMap[p][v] # Unspecified =>
                  AllocateIp(v, p) = nodeToIpMap[p][v]
  <2>1. CASE fresh(p)
    BY <2>1, <1>5
  <2>2. CASE ~fresh(p)
    BY <2>2, <1>1 DEF AllocateIp
  <2> QED BY <2>1, <2>2
<1>7. ASSUME NEW p \in Pool
      PROVE  PoolOK(nodeToIpMap'[p], usedAddressesSet'[p],
                    freeAddressesQueue'[p], nextAddress'[p])
  BY <1>1, <1>2, <1>5
<1>8. PoolVarsOK'
  <2>1. /\ nodeToIpMap' = [p \in Pool |-> nodeToIpMap'[p]]
        /\ usedAddressesSet' = [p \in Pool |-> usedAddressesSet'[p]]
        /\ freeAddressesQueue' = [p \in Pool |-> freeAddressesQueue'[p]]
        /\ nextAddress' = [p \in Pool |-> nextAddress'[p]]
    BY DEF AllocateIpFromPool
  <2> QED BY <2>1, <1>7 DEF PoolVarsOK, PoolOK
<1>9. PoolsOK'
  BY <1>7 DEF PoolsOK
<1>10. ASSUME NEW p \in Pool, NEW w \in Vehicle
      PROVE  nodeToIpMap'[p][w] = IF w = v /\ p \in P THEN AllocateIp(v, p)
                                                      ELSE nodeToIpMap[p][w]
  <2>1. CASE fresh(p)
    BY <2>1, <1>1, <1>3, <1>4
  <2>2. CASE ~fresh(p)
    BY <2>2, <1>2 DEF AllocateIp
  <2> QED BY <2>1, <2>2
<1> QED BY <1>6, <1>8, <1>9, <1>10

-----------------------------------------------------------------------------
(* The inductive invariant.  PoolsOK is what makes a new lease fresh; the  *)
(* last three conjuncts say whose leases and interfaces there are at all.  *)
IInv ==
  /\ TypeOK
  /\ PoolsOK
  /\ InterfaceHasLease
  /\ \A v \in Vehicle \ live, p \in Pool : ifAddr[v][p] = NoInterface
  /\ \A p \in Pool : Leased(p) \subseteq 1..created
  /\ phase = "configure" => todo \subseteq live

(* Every MacNodeId that findMacNodeId yields was issued to some vehicle.   *)
LEMMA FindMacNodeIdType ==
  ASSUME TypeOK, NEW v \in Vehicle, NEW a \in Addr \cup {Unspecified}
  PROVE  FindMacNodeId(v, a) \in Vehicle \cup {Unspecified}
BY DEF TypeOK, FindMacNodeId

(* The two binder operations keep the types.                               *)
BinderTypeOK ==
  /\ nodeIdToMacNodeIdMap \in [Vehicle -> Vehicle \cup {Unspecified}]
  /\ binderNodes \subseteq Vehicle
  /\ binderIp \in [Addr -> Vehicle \cup {Unspecified}]

(* registerToBinder and unRegisterFromBinder keep the binder's types.      *)
LEMMA RegisterType ==
  ASSUME TypeOK, NEW v \in Vehicle, NEW a \in Addr, RegisterToBinder(a, v)
  PROVE  BinderTypeOK' /\ nicOf' = nicOf
BY FindMacNodeIdType DEF TypeOK, RegisterToBinder, BinderTypeOK

LEMMA UnRegisterType ==
  ASSUME TypeOK, NEW v \in Vehicle, UnRegisterFromBinder(v)
  PROVE  BinderTypeOK' /\ nicOf' = nicOf
BY DEF TypeOK, UnRegisterFromBinder, BinderTypeOK, binderVars

(* The initial state satisfies the invariant.                              *)
LEMMA InitIInv == Init => IInv
<1> SUFFICES ASSUME Init PROVE IInv
  OBVIOUS
<1>1. PoolsOK
  BY InitialPool DEF Init, PoolsOK
<1>2. TypeOK
  <2>1. <<>> \in Seq(Addr)
    OBVIOUS
  <2> QED BY <2>1, ConstantAssumption DEF Init, TypeOK, NoLease, Vehicle, Pool
<1> QED BY <1>1, <1>2 DEF Init, IInv, InterfaceHasLease, Leased, NoLease

(* Every step preserves the invariant.                                     *)
LEMMA NextIInv == IInv /\ [Next]_vars => IInv'
<1> SUFFICES ASSUME IInv, [Next]_vars PROVE IInv'
  OBVIOUS
<1> USE DEF IInv
<1>0. PoolVarsOK /\ BinderTypeOK /\ live \subseteq Vehicle
  <2>1. live \subseteq 1..created /\ created \in 0..MaxVehicle
    BY DEF TypeOK
  <2>2. live \subseteq Vehicle
    BY <2>1, ConstantAssumption DEF Vehicle
  <2> QED BY <2>2 DEF TypeOK, PoolVarsOK, BinderTypeOK
<1>1. ASSUME NEW type \in CarTypes, Enter(type) PROVE IInv'
  <2> DEFINE v == created + 1
             new == [p \in Pool |-> IF p \in type.ifaces THEN Unspecified ELSE NoInterface]
  <2>1. /\ v \in Vehicle /\ created' = v /\ live' = live \cup {v}
        /\ ifAddr' = [ifAddr EXCEPT ![v] = new]
        /\ v \notin live /\ phase = "idle"
        /\ 1..created \subseteq 1..v
    BY <1>1, ConstantAssumption DEF Enter, TypeOK, Vehicle
  <2>2. new \in [Pool -> Addr \cup {Unspecified, NoInterface}]
    OBVIOUS
  <2>3. TypeOK'
    <3>1. ifAddr' \in [Vehicle -> [Pool -> Addr \cup {Unspecified, NoInterface}]]
      BY <2>1, <2>2 DEF TypeOK
    <3>2. created' \in 0..MaxVehicle /\ live' \subseteq 1..created' /\ todo' \subseteq 1..created'
      BY <2>1, <1>1, ConstantAssumption DEF TypeOK, Vehicle, Enter
    <3>3. nicOf' \subseteq live' /\ binderNodes' \subseteq Vehicle
      BY <2>1, <1>1 DEF TypeOK, Enter
    <3> QED BY <3>1, <3>2, <3>3, <1>1 DEF TypeOK, Enter, poolVars
  <2>4. PoolsOK'
    BY <1>1 DEF Enter, poolVars, PoolsOK
  <2>5. InterfaceHasLease'
    <3> SUFFICES ASSUME NEW p \in Pool, NEW w \in live', ifAddr'[w][p] \in Addr
                 PROVE  nodeToIpMap'[p][w] = ifAddr'[w][p]
      BY DEF InterfaceHasLease
    <3>1. w # v
      BY <2>1, UnspecifiedIsNoAddr DEF TypeOK
    <3> QED BY <3>1, <2>1, <1>1 DEF InterfaceHasLease, Enter, poolVars, TypeOK
  <2>6. \A w \in Vehicle \ live', p \in Pool : ifAddr'[w][p] = NoInterface
    BY <2>1 DEF TypeOK
  <2>7. \A p \in Pool : Leased(p)' \subseteq 1..created'
    BY <2>1, <1>1 DEF Leased, Enter, poolVars
  <2> QED BY <2>1, <2>3, <2>4, <2>5, <2>6, <2>7, <1>1 DEF Enter
<1>2. ASSUME NEW v \in Vehicle, Exit(v) PROVE IInv'
  <2>1. /\ live' = live \ {v}
        /\ ifAddr' = [ifAddr EXCEPT ![v] = [p \in Pool |-> NoInterface]]
        /\ phase = "idle" /\ phase' = phase /\ todo' = todo /\ created' = created
        /\ poolVars' = poolVars
    BY <1>2 DEF Exit, poolVars
  <2>2. TypeOK'
    <3>1. ifAddr' \in [Vehicle -> [Pool -> Addr \cup {Unspecified, NoInterface}]]
      BY <2>1 DEF TypeOK
    <3>2. nicOf' \subseteq live' /\ BinderTypeOK'
      BY <2>1, <1>2 DEF TypeOK, Exit, BinderTypeOK
    <3> QED BY <3>1, <3>2, <2>1 DEF TypeOK, poolVars, BinderTypeOK
  <2>3. \A w \in Vehicle, p \in Pool :
          ifAddr'[w][p] = IF w = v THEN NoInterface ELSE ifAddr[w][p]
    BY <2>1 DEF TypeOK
  <2>4. InterfaceHasLease'
    BY <2>1, <2>3, UnspecifiedIsNoAddr DEF InterfaceHasLease, TypeOK, poolVars, Vehicle
  <2> QED BY <2>1, <2>2, <2>3, <2>4 DEF PoolsOK, Leased, poolVars
<1>3. CASE StartReconfigure
  <2>1. todo' \subseteq 1..created
    BY <1>3 DEF StartReconfigure, Pool
  <2> QED BY <1>3, <2>1 DEF StartReconfigure, TypeOK, PoolsOK, InterfaceHasLease,
                            Leased, poolVars, binderVars
<1>4. ASSUME NEW v \in Vehicle, CleanupVeinsNode(v) PROVE IInv'
  <2>1. /\ created' = created /\ live' = live /\ ifAddr' = ifAddr /\ phase' = phase
        /\ phase = "cleanup" /\ todo' = todo \ {v}
    BY <1>4 DEF CleanupVeinsNode
  <2>2. CASE v \in live
    BY <2>1, <2>2, <1>4 DEF CleanupVeinsNode, TypeOK, PoolsOK, InterfaceHasLease,
                            Leased, poolVars, binderVars
  <2>3. CASE v \notin live
    <3>1. /\ PoolVarsOK' /\ PoolsOK'
          /\ \A p \in Pool, w \in Vehicle :
               nodeToIpMap'[p][w] = IF w = v THEN Unspecified ELSE nodeToIpMap[p][w]
      BY <2>3, <1>4, <1>0, ReleaseStep DEF CleanupVeinsNode
    <3>2. BinderTypeOK' /\ nicOf' = nicOf
      BY <2>3, <1>4, UnRegisterType DEF CleanupVeinsNode
    <3>3. TypeOK'
      BY <2>1, <3>1, <3>2 DEF TypeOK, PoolVarsOK, BinderTypeOK
    <3>4. InterfaceHasLease'
      <4> SUFFICES ASSUME NEW p \in Pool, NEW w \in live, ifAddr[w][p] \in Addr
                   PROVE  nodeToIpMap'[p][w] = ifAddr[w][p]
        BY <2>1 DEF InterfaceHasLease
      <4>1. w \in Vehicle /\ w # v
        BY <2>3, <1>0
      <4>2. nodeToIpMap[p][w] = ifAddr[w][p]
        BY DEF InterfaceHasLease
      <4> QED BY <4>1, <4>2, <3>1
    <3>5. \A p \in Pool : Leased(p)' \subseteq 1..created'
      BY <2>1, <3>1 DEF Leased
    <3> QED BY <2>1, <3>1, <3>3, <3>4, <3>5
  <2> QED BY <2>2, <2>3
<1>5. CASE StartConfigure
  BY <1>5 DEF StartConfigure, TypeOK, PoolsOK, InterfaceHasLease, Leased,
              poolVars, binderVars
<1>6. ASSUME NEW v \in Vehicle, ConfigureVehicle(v) PROVE IInv'
  <2> DEFINE P == Unaddressed(v)
  <2>1. /\ created' = created /\ live' = live /\ phase' = phase
        /\ phase = "configure" /\ todo' = todo \ {v} /\ v \in live /\ v \in 1..created
    BY <1>6 DEF ConfigureVehicle, TypeOK
  <2>2. P \in SUBSET Pool
    BY DEF Unaddressed
  <2>3. /\ PoolVarsOK' /\ PoolsOK'
        /\ \A p \in Pool, w \in Vehicle :
             nodeToIpMap'[p][w] = IF w = v /\ p \in P THEN AllocateIp(v, p)
                                                      ELSE nodeToIpMap[p][w]
        /\ \A p \in P : AllocateIp(v, p) \in Addr
    <3>1. AllocateIpFromPool(v, P) /\ \A p \in P : ~Exhausted(v, p)
      BY <1>6 DEF ConfigureVehicle
    <3> HIDE DEF P
    <3> QED BY <3>1, <2>2, <1>0, AllocateStep
  <2>4. \A p \in Pool, w \in Vehicle :
          ifAddr'[w][p] = IF w = v /\ p \in P THEN AllocateIp(v, p) ELSE ifAddr[w][p]
    BY <1>6 DEF ConfigureVehicle, TypeOK
  <2>5. ifAddr' \in [Vehicle -> [Pool -> Addr \cup {Unspecified, NoInterface}]]
    <3>1. [p \in Pool |-> IF p \in P THEN AllocateIp(v, p) ELSE ifAddr[v][p]]
            \in [Pool -> Addr \cup {Unspecified, NoInterface}]
      BY <2>3 DEF TypeOK
    <3> QED BY <3>1, <1>6 DEF ConfigureVehicle, TypeOK
  <2>6. BinderTypeOK' /\ nicOf' = nicOf
    <3>1. CASE UNCHANGED binderVars
      BY <3>1, <1>0 DEF binderVars, BinderTypeOK
    <3>2. CASE /\ ifAddr'[v]["cellular"] # NoInterface
               /\ RegisterToBinder(ifAddr'[v]["cellular"], v)
      <4>1. ifAddr'[v]["cellular"] # Unspecified
        BY <2>4, <2>3, UnspecifiedIsNoAddr DEF Pool, Unaddressed
      <4>2. ifAddr'[v]["cellular"] \in Addr
        BY <4>1, <3>2, <2>5 DEF Pool
      <4> QED BY <4>2, <3>2, RegisterType
    <3> QED BY <3>1, <3>2, <1>6 DEF ConfigureVehicle
  <2>7. TypeOK'
    BY <2>1, <2>3, <2>5, <2>6 DEF TypeOK, PoolVarsOK, BinderTypeOK
  <2>8. InterfaceHasLease'
    <3> SUFFICES ASSUME NEW p \in Pool, NEW w \in live, ifAddr'[w][p] \in Addr
                 PROVE  nodeToIpMap'[p][w] = ifAddr'[w][p]
      BY <2>1 DEF InterfaceHasLease
    <3>1. w \in Vehicle
      BY <1>0
    <3>2. ifAddr[w][p] \in Addr => nodeToIpMap[p][w] = ifAddr[w][p]
      BY DEF InterfaceHasLease
    <3> HIDE DEF P
    <3>3. CASE w = v /\ p \in P
      BY <3>1, <3>3, <2>3, <2>4
    <3>4. CASE ~(w = v /\ p \in P)
      <4>1. ifAddr'[w][p] = ifAddr[w][p] /\ nodeToIpMap'[p][w] = nodeToIpMap[p][w]
        BY <3>1, <3>4, <2>3, <2>4
      <4> QED BY <4>1, <3>2
    <3> QED BY <3>3, <3>4
  <2>9. \A w \in Vehicle \ live', p \in Pool : ifAddr'[w][p] = NoInterface
    BY <2>1, <2>4
  <2>10. \A p \in Pool : Leased(p)' \subseteq 1..created'
    BY <2>1, <2>3 DEF Leased
  <2> QED BY <2>1, <2>3, <2>7, <2>8, <2>9, <2>10
<1>7. ASSUME NEW v \in Vehicle, PoolExhausted(v) PROVE IInv'
  BY <1>7 DEF PoolExhausted, TypeOK, PoolsOK, InterfaceHasLease, Leased,
              poolVars, binderVars
<1>8. CASE FinishReconfigure
  BY <1>8 DEF FinishReconfigure, TypeOK, PoolsOK, InterfaceHasLease, Leased,
              poolVars, binderVars
<1>9. CASE UNCHANGED vars
  BY <1>9 DEF vars, TypeOK, PoolsOK, InterfaceHasLease, Leased, poolVars, binderVars
<1> QED BY <1>1, <1>2, <1>3, <1>4, <1>5, <1>6, <1>7, <1>8, <1>9 DEF Next, Handler

(* The invariant implies that no two vehicles share an address.            *)
LEMMA IInvImpliesUnique == IInv => NoSharedAddress
<1> SUFFICES ASSUME IInv PROVE NoSharedAddress
  OBVIOUS
<1> SUFFICES ASSUME NEW p \in Pool
             PROVE  /\ Injective(nodeToIpMap[p])
                    /\ \A v, w \in Vehicle :
                         v # w /\ ifAddr[v][p] \in Addr => ifAddr[v][p] # ifAddr[w][p]
  BY DEF NoSharedAddress
<1>1. Injective(nodeToIpMap[p])
  BY DEF IInv, PoolsOK, PoolOK
<1>2. ASSUME NEW v \in Vehicle, NEW w \in Vehicle, v # w, ifAddr[v][p] \in Addr
      PROVE  ifAddr[v][p] # ifAddr[w][p]
  <2>1. \A u \in Vehicle : ifAddr[u][p] \in Addr => nodeToIpMap[p][u] = ifAddr[u][p]
    BY UnspecifiedIsNoAddr DEF IInv, InterfaceHasLease
  <2> QED BY <2>1, <1>1, <1>2, UnspecifiedIsNoAddr DEF Injective
<1> QED BY <1>1, <1>2

(* The invariant implies conservation.                                     *)
LEMMA IInvImpliesConserved == IInv => PoolConservation
BY DEF IInv, PoolsOK, PoolOK, PoolConservation

(* IInv holds in every state.                                              *)
THEOREM Invariance == Spec => []IInv
BY InitIInv, NextIInv, PTL DEF Spec

(* Type correctness, for every number of vehicles and every pool bounds.   *)
THEOREM TypeCorrectness == Spec => []TypeOK
<1>1. IInv => TypeOK
  BY DEF IInv
<1> QED BY <1>1, Invariance, PTL

(* No two vehicles ever share an address.                                  *)
THEOREM UniqueAddresses == Spec => []NoSharedAddress
BY IInvImpliesUnique, Invariance, PTL

(* No address a pool handed out is lost or queued twice.                   *)
THEOREM AddressesConserved == Spec => []PoolConservation
BY IInvImpliesConserved, Invariance, PTL

(* An address in use on an interface is leased to that vehicle.            *)
THEOREM InterfacesLeased == Spec => []InterfaceHasLease
<1>1. IInv => InterfaceHasLease
  BY DEF IInv
<1> QED BY <1>1, Invariance, PTL

-----------------------------------------------------------------------------
(* What one iteration of each loop does to the leases, in states the       *)
(* invariant allows.                                                       *)
LEMMA CleanupLeases ==
  ASSUME IInv, NEW v \in Vehicle, CleanupVeinsNode(v), v \notin live
  PROVE  /\ \A p \in Pool, w \in Vehicle :
              nodeToIpMap'[p][w] = IF w = v THEN Unspecified ELSE nodeToIpMap[p][w]
         /\ nodeToIpMap \in [Pool -> [Vehicle -> Addr \cup {Unspecified}]]
         /\ nodeToIpMap' \in [Pool -> [Vehicle -> Addr \cup {Unspecified}]]
         /\ UNCHANGED binderVars
<1>1. PoolVarsOK /\ PoolsOK
  BY DEF IInv, TypeOK, PoolVarsOK
<1>2. ReleaseIpToPool(v, Pool) /\ UnRegisterFromBinder(v)
  BY DEF CleanupVeinsNode
<1>3. UNCHANGED binderVars
  BY <1>2 DEF UnRegisterFromBinder, FindMacNodeId
<1> QED BY <1>1, <1>2, <1>3, ReleaseStep DEF PoolVarsOK

(* A configured vehicle's new leases are addresses nobody holds.           *)
LEMMA ConfigureLeases ==
  ASSUME IInv, NEW v \in Vehicle, ConfigureVehicle(v)
  PROVE  /\ \A p \in Pool, w \in Vehicle :
              nodeToIpMap'[p][w] = IF w = v /\ p \in Unaddressed(v)
                                   THEN AllocateIp(v, p) ELSE nodeToIpMap[p][w]
         /\ \A p \in Unaddressed(v) :
              /\ AllocateIp(v, p) \in Addr
              /\ nodeToIpMap[p][v] = Unspecified =>
                   AllocateIp(v, p) \notin {nodeToIpMap[p][w] : w \in Vehicle}
              /\ nodeToIpMap[p][v] # Unspecified => AllocateIp(v, p) = nodeToIpMap[p][v]
         /\ \A p \in Pool, w \in Vehicle :
              ifAddr'[w][p] = IF w = v /\ p \in Unaddressed(v)
                              THEN AllocateIp(v, p) ELSE ifAddr[w][p]
         /\ nodeToIpMap \in [Pool -> [Vehicle -> Addr \cup {Unspecified}]]
         /\ nodeToIpMap' \in [Pool -> [Vehicle -> Addr \cup {Unspecified}]]
<1>1. PoolVarsOK /\ PoolsOK
  BY DEF IInv, TypeOK, PoolVarsOK
<1> DEFINE P == Unaddressed(v)
<1>2. P \in SUBSET Pool /\ AllocateIpFromPool(v, P) /\ \A p \in P : ~Exhausted(v, p)
  BY DEF ConfigureVehicle, Unaddressed
<1>3. \A p \in Pool, w \in Vehicle :
        ifAddr'[w][p] = IF w = v /\ p \in P THEN AllocateIp(v, p) ELSE ifAddr[w][p]
  BY DEF ConfigureVehicle, IInv, TypeOK
<1> HIDE DEF P
<1>4. /\ PoolVarsOK'
      /\ \A p \in Pool, w \in Vehicle :
           nodeToIpMap'[p][w] = IF w = v /\ p \in P THEN AllocateIp(v, p)
                                                    ELSE nodeToIpMap[p][w]
      /\ \A p \in P :
           /\ AllocateIp(v, p) \in Addr
           /\ nodeToIpMap[p][v] = Unspecified =>
                AllocateIp(v, p) \notin {nodeToIpMap[p][w] : w \in Vehicle}
           /\ nodeToIpMap[p][v] # Unspecified => AllocateIp(v, p) = nodeToIpMap[p][v]
  BY <1>1, <1>2, AllocateStep
<1> QED BY <1>1, <1>3, <1>4 DEF PoolVarsOK, P

-----------------------------------------------------------------------------
(* The pools implement the abstract lease service.                         *)

(* Every step of the handler or the traffic is a step of the service or    *)
(* changes neither population nor leases.                                  *)
LEMMA NextIsLease == IInv /\ [Next]_vars => [Lease!Next]_(Lease!leaseVars)
<1> SUFFICES ASSUME IInv, [Next]_vars PROVE Lease!Next \/ UNCHANGED Lease!leaseVars
  OBVIOUS
<1> USE DEF Lease!leaseVars
<1>1. ASSUME NEW type \in CarTypes, Enter(type) PROVE Lease!Next
  <2>1. /\ created + 1 \in Vehicle /\ created + 1 \notin live
        /\ live' = live \cup {created + 1} /\ nodeToIpMap' = nodeToIpMap
    BY <1>1, ConstantAssumption DEF Enter, poolVars, IInv, TypeOK, Vehicle
  <2> QED BY <2>1 DEF Lease!Next, Lease!Arrive
<1>2. ASSUME NEW v \in Vehicle, Exit(v) PROVE Lease!Next
  BY <1>2 DEF Exit, poolVars, Lease!Next, Lease!Leave
<1>3. ASSUME NEW v \in Vehicle, CleanupVeinsNode(v)
      PROVE  Lease!Next \/ UNCHANGED Lease!leaseVars
  <2>1. CASE v \in live
    BY <1>3, <2>1 DEF CleanupVeinsNode, poolVars
  <2>2. CASE v \notin live
    <3>1. /\ \A p \in Pool, w \in Vehicle :
               nodeToIpMap'[p][w] = IF w = v THEN Unspecified ELSE nodeToIpMap[p][w]
          /\ nodeToIpMap \in [Pool -> [Vehicle -> Addr \cup {Unspecified}]]
          /\ nodeToIpMap' \in [Pool -> [Vehicle -> Addr \cup {Unspecified}]]
      BY <1>3, <2>2, CleanupLeases
    <3>2. \A p \in Pool : nodeToIpMap'[p] = [nodeToIpMap[p] EXCEPT ![v] = Unspecified]
      BY <3>1
    <3>3. nodeToIpMap' = [p \in Pool |-> [nodeToIpMap[p] EXCEPT ![v] = Unspecified]]
      BY <3>1, <3>2
    <3> QED BY <1>3, <2>2, <3>3 DEF CleanupVeinsNode, Lease!Next, Lease!Reclaim
  <2> QED BY <2>1, <2>2
<1>4. ASSUME NEW v \in Vehicle, ConfigureVehicle(v) PROVE Lease!Next
  <2> DEFINE P == {p \in Unaddressed(v) : nodeToIpMap[p][v] = Unspecified}
             a == [p \in P |-> AllocateIp(v, p)]
  <2>1. P \in SUBSET Pool /\ v \in live /\ live' = live
    BY <1>4 DEF Unaddressed, ConfigureVehicle, IInv
  <2>2. a \in [P -> Addr]
    BY <1>4, ConfigureLeases
  <2>3. \A p \in P : nodeToIpMap[p][v] = Unspecified /\ a[p] \notin Lease!Held(p)
    BY <1>4, ConfigureLeases DEF Lease!Held
  <2>4. \A p \in Pool : nodeToIpMap'[p] =
          IF p \in P THEN [nodeToIpMap[p] EXCEPT ![v] = a[p]] ELSE nodeToIpMap[p]
    <3> SUFFICES ASSUME NEW p \in Pool
                 PROVE  nodeToIpMap'[p] =
                          IF p \in P THEN [nodeToIpMap[p] EXCEPT ![v] = a[p]]
                                     ELSE nodeToIpMap[p]
      OBVIOUS
    <3>1. /\ nodeToIpMap[p] \in [Vehicle -> Addr \cup {Unspecified}]
          /\ nodeToIpMap'[p] \in [Vehicle -> Addr \cup {Unspecified}]
      BY <1>4, ConfigureLeases
    <3>2. \A w \in Vehicle : nodeToIpMap'[p][w] =
            IF w = v /\ p \in P THEN AllocateIp(v, p) ELSE nodeToIpMap[p][w]
      BY <1>4, ConfigureLeases
    <3> QED BY <3>1, <3>2
  <2>5. nodeToIpMap' = [p \in Pool |-> IF p \in P THEN [nodeToIpMap[p] EXCEPT ![v] = a[p]]
                                                  ELSE nodeToIpMap[p]]
    <3>1. nodeToIpMap' \in [Pool -> [Vehicle -> Addr \cup {Unspecified}]]
      BY <1>4, ConfigureLeases
    <3> HIDE DEF P, a
    <3> QED BY <3>1, <2>4
  <2>6. Lease!Grant(v, P)
    <3> HIDE DEF P, a
    <3> QED BY <2>1, <2>2, <2>3, <2>5 DEF Lease!Grant
  <2> QED BY <2>1, <2>6 DEF Lease!Next
<1>5. CASE StartReconfigure \/ StartConfigure \/ FinishReconfigure
           \/ (\E v \in Vehicle : PoolExhausted(v)) \/ UNCHANGED vars
  BY <1>5 DEF StartReconfigure, StartConfigure, FinishReconfigure, PoolExhausted,
              poolVars, vars
<1> QED BY <1>1, <1>2, <1>3, <1>4, <1>5 DEF Next, Handler

(* The pools, their queues and the timer handler implement the lease       *)
(* service: an address is granted only while nobody holds it, kept while   *)
(* its vehicle lives, and taken back only from a vehicle that has left.    *)
THEOREM LeasesImplemented == Spec => ImplementsLease
<1>1. Init => Lease!Init
  BY DEF Init, Lease!Init, NoLease
<1> QED BY <1>1, NextIsLease, Invariance, PTL DEF Spec, ImplementsLease, Lease!Spec

-----------------------------------------------------------------------------
(* The cleanup precedes the configuration: what a vehicle that has left    *)
(* still leases is on the cleanup's list, and nothing is after it.         *)
Reclaimed ==
  /\ phase = "cleanup" => \A p \in Pool : Leased(p) \ live \subseteq todo
  /\ phase \in {"configure", "failed"} => \A p \in Pool : Leased(p) \subseteq live
  /\ NoFalseExhaustion

(* Nothing is reclaimed too late.                                          *)
LEMMA NextReclaimed == IInv /\ Reclaimed /\ [Next]_vars => Reclaimed'
<1> SUFFICES ASSUME IInv, Reclaimed, [Next]_vars PROVE Reclaimed'
  OBVIOUS
<1> USE DEF Reclaimed
<1>1. ASSUME NEW v \in Vehicle, CleanupVeinsNode(v) PROVE Reclaimed'
  <2>1. /\ phase = "cleanup" /\ phase' = phase /\ live' = live /\ todo' = todo \ {v}
        /\ \A p \in Pool : Leased(p) \ live \subseteq todo
    BY <1>1 DEF CleanupVeinsNode
  <2>2. CASE v \in live
    BY <1>1, <2>1, <2>2 DEF CleanupVeinsNode, poolVars, Leased, NoFalseExhaustion
  <2>3. CASE v \notin live
    <3>1. \A p \in Pool : Leased(p)' \subseteq Leased(p) \ {v}
      BY <1>1, <2>3, CleanupLeases DEF Leased
    <3> QED BY <2>1, <3>1 DEF NoFalseExhaustion
  <2> QED BY <2>2, <2>3
<1>2. ASSUME NEW v \in Vehicle, ConfigureVehicle(v) PROVE Reclaimed'
  <2>1. /\ phase = "configure" /\ phase' = phase /\ live' = live /\ v \in live
        /\ \A p \in Pool : Leased(p) \subseteq live
    BY <1>2 DEF ConfigureVehicle, IInv
  <2>2. \A p \in Pool : Leased(p)' \subseteq Leased(p) \cup {v}
    BY <1>2, ConfigureLeases DEF Leased
  <2> QED BY <2>1, <2>2 DEF NoFalseExhaustion
<1>3. ASSUME NEW v \in Vehicle, PoolExhausted(v) PROVE Reclaimed'
  <2>1. /\ phase = "configure" /\ phase' = "failed" /\ live' = live /\ nodeToIpMap' = nodeToIpMap
        /\ \A p \in Pool : Leased(p) \subseteq live
    BY <1>3 DEF PoolExhausted, poolVars
  <2>2. PICK p \in Pool : Exhausted(v, p)
    BY <1>3 DEF PoolExhausted, Unaddressed
  <2>3. /\ freeAddressesQueue[p] = <<>> /\ nextAddress[p] > MaxHost
        /\ PoolOK(nodeToIpMap[p], usedAddressesSet[p], freeAddressesQueue[p], nextAddress[p])
    BY <2>2 DEF Exhausted, IInv, PoolsOK
  <2>4. usedAddressesSet[p] = Addr
    <3>1. nextAddress[p] = MaxHost + 1
      BY <2>3, ConstantAssumption DEF PoolOK
    <3>2. Len(freeAddressesQueue[p]) = 0
      BY <2>3
    <3>3. usedAddressesSet[p] = First..(nextAddress[p] - 1)
      BY <2>3, <3>2 DEF PoolOK, Conserved
    <3> QED BY <3>1, <3>3, ConstantAssumption DEF Addr
  <2>5. \A a \in Addr : \E w \in Vehicle : nodeToIpMap[p][w] = a /\ a # Unspecified
    BY <2>3, <2>4 DEF PoolOK, Conserved
  <2>6. \A a \in Addr : \E w \in live : nodeToIpMap[p][w] = a
    BY <2>1, <2>5 DEF Leased
  <2> QED BY <2>1, <2>6 DEF NoFalseExhaustion, Leased
<1>4. CASE StartReconfigure
  BY <1>4 DEF StartReconfigure, Leased, Pool, poolVars, NoFalseExhaustion
<1>5. CASE StartConfigure
  BY <1>5 DEF StartConfigure, Leased, poolVars, NoFalseExhaustion
<1>6. CASE FinishReconfigure \/ (\E type \in CarTypes : Enter(type))
           \/ (\E v \in Vehicle : Exit(v))
  BY <1>6 DEF FinishReconfigure, Enter, Exit, NoFalseExhaustion
<1>7. CASE UNCHANGED vars
  BY <1>7 DEF vars, poolVars, Leased, NoFalseExhaustion
<1> QED BY <1>1, <1>2, <1>3, <1>4, <1>5, <1>6, <1>7 DEF Next, Handler

(* Reclaimed holds in every state.                                         *)
LEMMA AlwaysReclaimed == Spec => []Reclaimed
<1>1. Init => Reclaimed
  BY DEF Init, Reclaimed, NoFalseExhaustion
<1> QED BY <1>1, NextReclaimed, Invariance, PTL DEF Spec

(* "IP pool exhausted" is thrown only when vehicles on the road hold every *)
(* address of a pool.                                                      *)
THEOREM ExhaustionIsReal == Spec => []NoFalseExhaustion
<1>1. Reclaimed => NoFalseExhaustion
  BY DEF Reclaimed
<1> QED BY <1>1, AlwaysReclaimed, PTL

-----------------------------------------------------------------------------
(* A cellular interface comes with a NIC that registers and unregisters    *)
(* its vehicle in the binder: what the next theorem assumes.               *)
NicsRegister ==
  /\ NicUnregisters
  /\ \A type \in CarTypes : "cellular" \in type.ifaces => type.nic

(* The binder's addresses are leases of live vehicles, and a vehicle that  *)
(* has been visited is configured and resolved.                            *)
Registered ==
  /\ \A v \in live, p \in Pool : ifAddr[v][p] = NoInterface => nodeToIpMap[p][v] = Unspecified
  /\ \A v \in live : ifAddr[v]["cellular"] # NoInterface => v \in nicOf
  /\ \A a \in Addr : binderIp[a] # Unspecified =>
       binderIp[a] \in live /\ nodeToIpMap["cellular"][binderIp[a]] = a
  /\ BinderResolvesHolder
  /\ phase = "configure" => \A v \in live \ todo : Unaddressed(v) = {}

(* Every step keeps it.                                                    *)
LEMMA NextRegistered ==
  ASSUME NicsRegister
  PROVE  IInv /\ Registered /\ [Next]_vars => Registered'
<1> SUFFICES ASSUME IInv, Registered, [Next]_vars PROVE Registered'
  OBVIOUS
<1>0. live \subseteq Vehicle /\ live \subseteq 1..created /\ "cellular" \in Pool
  BY ConstantAssumption DEF IInv, TypeOK, Vehicle, Pool
<1>1. ASSUME NEW type \in CarTypes, Enter(type) PROVE Registered'
  <2> DEFINE v == created + 1
             new == [p \in Pool |-> IF p \in type.ifaces THEN Unspecified ELSE NoInterface]
  <2>1. /\ v \in Vehicle /\ v \notin live /\ live' = live \cup {v} /\ phase' = "idle"
        /\ ifAddr' = [ifAddr EXCEPT ![v] = new]
        /\ nicOf' = IF type.nic THEN nicOf \cup {v} ELSE nicOf
        /\ nodeToIpMap' = nodeToIpMap /\ binderIp' = binderIp
    BY <1>1, ConstantAssumption DEF Enter, poolVars, IInv, TypeOK, Vehicle
  <2>2. \A w \in live : ifAddr'[w] = ifAddr[w] /\ w # v
    BY <2>1, <1>0 DEF IInv, TypeOK
  <2>3. ifAddr'[v] = new
    BY <2>1 DEF IInv, TypeOK
  <2>4. \A p \in Pool : nodeToIpMap[p][v] = Unspecified
    BY <2>1, ConstantAssumption DEF IInv, TypeOK, Leased, Vehicle
  <2>5. ifAddr'[v]["cellular"] # NoInterface => v \in nicOf'
    BY <1>0, <2>1, <2>3 DEF NicsRegister
  <2>6. ifAddr'[v]["cellular"] \notin Addr
    BY <1>0, <2>3, UnspecifiedIsNoAddr
  <2> QED BY <2>1, <2>2, <2>4, <2>5, <2>6 DEF Registered, BinderResolvesHolder
<1>2. ASSUME NEW v \in Vehicle, Exit(v) PROVE Registered'
  <2>1. /\ v \in live /\ live' = live \ {v} /\ nicOf' = nicOf \ {v} /\ phase' = "idle"
        /\ nodeToIpMap' = nodeToIpMap
        /\ \A w \in live \ {v} : ifAddr'[w] = ifAddr[w]
    BY <1>2, <1>0 DEF Exit, poolVars, IInv, TypeOK
  <2>2. \A a \in Addr : binderIp'[a] = IF binderIp[a] = v THEN Unspecified ELSE binderIp[a]
    <3>1. CASE v \in nicOf
      BY <1>2, <3>1 DEF Exit, NicsRegister
    <3>2. CASE v \notin nicOf
      <4>1. \A a \in Addr : binderIp[a] # v
        <5> SUFFICES ASSUME NEW a \in Addr, binderIp[a] = v PROVE FALSE
          OBVIOUS
        <5>1. v # Unspecified
          BY DEF Vehicle, Unspecified
        <5>2. nodeToIpMap["cellular"][v] = a
          BY <5>1 DEF Registered
        <5>3. nodeToIpMap["cellular"][v] = Unspecified
          BY <1>0, <2>1, <3>2 DEF Registered
        <5> QED BY <5>2, <5>3, UnspecifiedIsNoAddr
      <4> QED BY <1>2, <3>2, <4>1 DEF Exit
    <3> QED BY <3>1, <3>2
  <2>3. v # Unspecified
    BY DEF Vehicle, Unspecified
  <2>4. BinderResolvesHolder'
    <3> SUFFICES ASSUME NEW w \in live', ifAddr'[w]["cellular"] \in Addr
                 PROVE  binderIp'[ifAddr'[w]["cellular"]] = w
      BY DEF BinderResolvesHolder
    <3>1. w # v /\ ifAddr'[w] = ifAddr[w] /\ binderIp[ifAddr[w]["cellular"]] = w
      BY <2>1 DEF Registered, BinderResolvesHolder
    <3> QED BY <2>2, <3>1
  <2> QED BY <2>1, <2>2, <2>3, <2>4 DEF Registered
<1>3. ASSUME NEW v \in Vehicle, CleanupVeinsNode(v) PROVE Registered'
  <2>1. /\ live' = live /\ ifAddr' = ifAddr /\ phase' = "cleanup"
    BY <1>3 DEF CleanupVeinsNode
  <2>2. CASE v \in live
    BY <1>3, <2>1, <2>2 DEF CleanupVeinsNode, poolVars, binderVars, Registered, BinderResolvesHolder
  <2>3. CASE v \notin live
    <3>1. /\ binderIp' = binderIp /\ nicOf' = nicOf
          /\ \A p \in Pool, w \in live : nodeToIpMap'[p][w] = nodeToIpMap[p][w]
      BY <1>0, <1>3, <2>3, CleanupLeases DEF binderVars
    <3> QED BY <1>0, <2>1, <3>1 DEF Registered, BinderResolvesHolder
  <2> QED BY <2>2, <2>3
<1>4. ASSUME NEW v \in Vehicle, ConfigureVehicle(v) PROVE Registered'
  <2> DEFINE a == ifAddr'[v]["cellular"]
  <2>1. /\ live' = live /\ v \in live /\ phase' = "configure" /\ todo' = todo \ {v}
        /\ phase = "configure"
    BY <1>4 DEF ConfigureVehicle, IInv
  <2>2. /\ \A p \in Pool, w \in Vehicle : w # v =>
             nodeToIpMap'[p][w] = nodeToIpMap[p][w] /\ ifAddr'[w][p] = ifAddr[w][p]
        /\ \A p \in Pool : nodeToIpMap[p][v] # Unspecified => nodeToIpMap'[p][v] = nodeToIpMap[p][v]
        /\ \A p \in Pool : ifAddr'[v][p] # Unspecified
        /\ \A p \in Pool : ifAddr'[v][p] = NoInterface =>
             ifAddr[v][p] = NoInterface /\ nodeToIpMap'[p][v] = nodeToIpMap[p][v]
        /\ \A p \in Pool : ifAddr'[v][p] \in Addr => nodeToIpMap'[p][v] = ifAddr'[v][p]
        /\ \A p \in Pool : ifAddr'[v][p] \in Addr \cup {NoInterface}
        /\ \A p \in Pool : ifAddr[v][p] = NoInterface => ifAddr'[v][p] = NoInterface
    <3> SUFFICES ASSUME NEW p \in Pool
                 PROVE  /\ \A w \in Vehicle : w # v =>
                             nodeToIpMap'[p][w] = nodeToIpMap[p][w] /\ ifAddr'[w][p] = ifAddr[w][p]
                        /\ nodeToIpMap[p][v] # Unspecified => nodeToIpMap'[p][v] = nodeToIpMap[p][v]
                        /\ ifAddr'[v][p] # Unspecified
                        /\ ifAddr'[v][p] = NoInterface =>
                             ifAddr[v][p] = NoInterface /\ nodeToIpMap'[p][v] = nodeToIpMap[p][v]
                        /\ ifAddr'[v][p] \in Addr => nodeToIpMap'[p][v] = ifAddr'[v][p]
                        /\ ifAddr'[v][p] \in Addr \cup {NoInterface}
                        /\ ifAddr[v][p] = NoInterface => ifAddr'[v][p] = NoInterface
      OBVIOUS
    <3>1. CASE p \in Unaddressed(v)
      BY <1>4, <3>1, ConfigureLeases, UnspecifiedIsNoAddr DEF Unaddressed, NoInterface, Unspecified
    <3>2. CASE p \notin Unaddressed(v)
      <4>1. ifAddr[v][p] \in Addr \cup {NoInterface} /\ (ifAddr[v][p] \in Addr => nodeToIpMap[p][v] = ifAddr[v][p])
        BY <2>1, <3>2 DEF Unaddressed, IInv, TypeOK, InterfaceHasLease
      <4> QED BY <1>4, <3>2, <4>1, ConfigureLeases, UnspecifiedIsNoAddr DEF NoInterface, Unspecified
    <3> QED BY <3>1, <3>2
  <2>3. /\ nicOf' = nicOf
        /\ a = NoInterface => binderIp' = binderIp
        /\ a \in Addr => binderIp' = [binderIp EXCEPT ![a] = v]
    <3>1. CASE a # NoInterface /\ binderIp[a] = Unspecified
      <4>1. a \in Addr /\ v \in nicOf
        BY <1>0, <2>1, <2>2, <3>1 DEF Registered
      <4>2. FindMacNodeId(v, a) = v /\ v # Unspecified
        BY <2>1, <4>1 DEF FindMacNodeId, Vehicle, Unspecified
      <4>3. RegisterToBinder(a, v)
        BY <1>4, <3>1 DEF ConfigureVehicle
      <4> QED BY <3>1, <4>2, <4>3 DEF RegisterToBinder
    <3>2. CASE ~(a # NoInterface /\ binderIp[a] = Unspecified)
      <4>1. UNCHANGED binderVars
        BY <1>4, <3>2 DEF ConfigureVehicle
      <4>2. ASSUME a \in Addr PROVE binderIp[a] = v
        <5>1. /\ binderIp[a] \in live /\ binderIp[a] \in Vehicle
              /\ nodeToIpMap["cellular"][binderIp[a]] = a
          BY <1>0, <3>2, <4>2, UnspecifiedIsNoAddr DEF Registered
        <5>2. nodeToIpMap'["cellular"][v] = a
          BY <1>0, <2>2, <4>2
        <5>3. CASE nodeToIpMap["cellular"][v] = Unspecified
          <6>1. \A w \in Vehicle : nodeToIpMap["cellular"][w] # a
            BY <1>0, <1>4, <4>2, <5>2, <5>3, ConfigureLeases, UnspecifiedIsNoAddr
          <6> QED BY <5>1, <6>1
        <5>4. CASE nodeToIpMap["cellular"][v] # Unspecified
          <6>1. Injective(nodeToIpMap["cellular"])
            BY <1>0 DEF IInv, PoolsOK, PoolOK
          <6>2. nodeToIpMap["cellular"][v] = a
            BY <1>0, <2>2, <5>2, <5>4
          <6> QED BY <5>1, <5>4, <6>1, <6>2 DEF Injective
        <5> QED BY <5>3, <5>4
      <4>3. binderIp \in [Addr -> Vehicle \cup {Unspecified}]
        BY DEF IInv, TypeOK
      <4> QED BY <4>1, <4>2, <4>3 DEF binderVars
    <3> QED BY <3>1, <3>2
  <2>4. \A x \in Addr : binderIp'[x] = IF x = a THEN v ELSE binderIp[x]
    <3>1. binderIp \in [Addr -> Vehicle \cup {Unspecified}] /\ a \in Addr \cup {NoInterface}
      BY <1>0, <2>2 DEF IInv, TypeOK
    <3> HIDE DEF a
    <3> QED BY <2>3, <3>1, UnspecifiedIsNoAddr
  <2>5. ASSUME NEW x \in Addr, binderIp'[x] # Unspecified
        PROVE  binderIp'[x] \in live /\ nodeToIpMap'["cellular"][binderIp'[x]] = x
    <3>1. CASE x = a
      <4>1. binderIp'[x] = v
        BY <2>4, <3>1
      <4>2. nodeToIpMap'["cellular"][v] = x
        BY <1>0, <2>2, <3>1
      <4>3. v \in live
        BY <2>1
      <4> HIDE DEF a
      <4> QED BY <4>1, <4>2, <4>3, Zenon
    <3>2. CASE x # a
      <4>1. binderIp[x] \in live /\ nodeToIpMap["cellular"][binderIp[x]] = x /\ binderIp'[x] = binderIp[x]
        BY <2>4, <2>5, <3>2 DEF Registered
      <4> DEFINE u == binderIp[x]
      <4>2. u \in Vehicle /\ nodeToIpMap["cellular"][u] = x /\ x # Unspecified
        BY <1>0, <4>1, UnspecifiedIsNoAddr
      <4>3. nodeToIpMap'["cellular"][u] = x
        <5> HIDE DEF u
        <5> QED BY <1>0, <2>2, <4>2
      <4> QED BY <2>1, <4>1, <4>3, Zenon
    <3> QED BY <3>1, <3>2
  <2>6. BinderResolvesHolder'
    <3> SUFFICES ASSUME NEW w \in live, ifAddr'[w]["cellular"] \in Addr
                 PROVE  binderIp'[ifAddr'[w]["cellular"]] = w
      BY <2>1 DEF BinderResolvesHolder
    <3>1. CASE w = v
      BY <2>4, <3>1
    <3>2. CASE w # v
      <4>1. ifAddr'[w]["cellular"] = ifAddr[w]["cellular"] /\ binderIp[ifAddr[w]["cellular"]] = w
        BY <1>0, <2>2, <3>2 DEF Registered, BinderResolvesHolder
      <4>2. ifAddr[w]["cellular"] # a
        <5>1. ASSUME ifAddr[w]["cellular"] = a PROVE FALSE
          <6>1. a \in Addr /\ nodeToIpMap["cellular"][w] = a
            BY <1>0, <4>1, <5>1 DEF IInv, InterfaceHasLease
          <6>2. nodeToIpMap'["cellular"][w] = a /\ nodeToIpMap'["cellular"][v] = a
            BY <1>0, <2>2, <3>2, <6>1
          <6>3. Injective(nodeToIpMap["cellular"])
            BY <1>0 DEF IInv, PoolsOK, PoolOK
          <6>4. nodeToIpMap["cellular"][v] = Unspecified
            <7> SUFFICES ASSUME nodeToIpMap["cellular"][v] # Unspecified PROVE FALSE
              OBVIOUS
            <7>1. nodeToIpMap["cellular"][v] = a
              BY <1>0, <2>2, <6>2
            <7>2. w \in Vehicle /\ nodeToIpMap["cellular"][w] # Unspecified
              BY <1>0, <6>1, UnspecifiedIsNoAddr
            <7> QED BY <3>2, <6>1, <6>3, <7>1, <7>2 DEF Injective
          <6>5. \A u \in Vehicle : nodeToIpMap["cellular"][u] # a
            BY <1>0, <1>4, <6>1, <6>2, <6>4, ConfigureLeases, UnspecifiedIsNoAddr
          <6> QED BY <1>0, <6>1, <6>5
        <5> QED BY <5>1
      <4> QED BY <2>4, <4>1, <4>2
    <3> QED BY <3>1, <3>2
  <2>7. \A w \in live \ todo' : Unaddressed(w)' = {}
    <3> SUFFICES ASSUME NEW w \in live, w \notin todo \/ w = v, NEW p \in Pool
                 PROVE  ifAddr'[w][p] # Unspecified
      BY <2>1 DEF Unaddressed
    <3>1. CASE w = v
      BY <2>2, <3>1
    <3>2. CASE w # v
      <4>1. ifAddr[w][p] # Unspecified
        BY <2>1, <3>2 DEF Registered, Unaddressed
      <4> QED BY <1>0, <2>2, <3>2, <4>1
    <3> QED BY <3>1, <3>2
  <2>8. \A w \in live, p \in Pool : ifAddr'[w][p] = NoInterface => nodeToIpMap'[p][w] = Unspecified
    BY <1>0, <2>1, <2>2 DEF Registered
  <2>9. \A w \in live : ifAddr'[w]["cellular"] # NoInterface => w \in nicOf'
    <3> SUFFICES ASSUME NEW w \in live, ifAddr'[w]["cellular"] # NoInterface PROVE w \in nicOf
      BY <2>3
    <3>1. ifAddr[w]["cellular"] # NoInterface
      BY <1>0, <2>2
    <3> QED BY <3>1 DEF Registered
  <2> QED BY <2>1, <2>5, <2>6, <2>7, <2>8, <2>9 DEF Registered
<1>5. CASE StartReconfigure \/ StartConfigure \/ FinishReconfigure
           \/ (\E v \in Vehicle : PoolExhausted(v)) \/ UNCHANGED vars
  BY <1>5 DEF StartReconfigure, StartConfigure, FinishReconfigure, PoolExhausted,
              poolVars, binderVars, vars, Registered, BinderResolvesHolder, Unaddressed
<1> QED BY <1>1, <1>2, <1>3, <1>4, <1>5 DEF Next, Handler

(* With NICs that register and unregister, a reconfiguration that has      *)
(* visited all vehicles leaves exactly the live ones with leases, every    *)
(* interface with an address and every cellular address resolved to its    *)
(* holder (reinvokeConfigurator).                                          *)
THEOREM ReconfigureCompletes ==
  ASSUME NicsRegister
  PROVE  Spec => []ReconfigureIsComplete
<1>1. Init => Registered
  BY DEF Init, Registered, BinderResolvesHolder
<1>2. IInv /\ Reclaimed /\ Registered => ReconfigureIsComplete
  <2> SUFFICES ASSUME IInv, Reclaimed, Registered, phase = "configure", todo = {}
               PROVE  /\ \A p \in Pool : Leased(p) = {v \in live : ifAddr[v][p] # NoInterface}
                      /\ \A v \in live : Unaddressed(v) = {}
                      /\ BinderResolvesHolder
    BY DEF ReconfigureIsComplete
  <2>1. \A v \in live : Unaddressed(v) = {}
    BY DEF Registered
  <2>2. ASSUME NEW p \in Pool
        PROVE  Leased(p) = {v \in live : ifAddr[v][p] # NoInterface}
    <3>1. Leased(p) \subseteq live /\ live \subseteq Vehicle
      BY ConstantAssumption DEF Reclaimed, IInv, TypeOK, Vehicle
    <3>2. ASSUME NEW v \in live, ifAddr[v][p] # NoInterface
          PROVE  nodeToIpMap[p][v] # Unspecified
      <4>1. ifAddr[v][p] \in Addr
        BY <2>1, <3>1, <3>2 DEF Unaddressed, IInv, TypeOK
      <4> QED BY <4>1, UnspecifiedIsNoAddr DEF IInv, InterfaceHasLease
    <3>3. \A v \in live : nodeToIpMap[p][v] # Unspecified => ifAddr[v][p] # NoInterface
      BY DEF Registered
    <3> QED BY <3>1, <3>2, <3>3 DEF Leased
  <2> QED BY <2>1, <2>2 DEF Registered
<1> QED BY <1>1, <1>2, NextRegistered, AlwaysReclaimed, Invariance, PTL DEF Spec

-----------------------------------------------------------------------------
(* The handler ends.  With the fairness of the timer this is why vehicles  *)
(* are eventually addressed and their addresses reclaimed.                 *)

(* How many iterations the handler has still before it.                    *)
StepsLeft ==
  IF phase = "cleanup" THEN Cardinality(todo) + Cardinality(live) + 2
  ELSE IF phase = "configure" THEN Cardinality(todo) + 1
  ELSE 0

(* A loop of the handler is over, or there is a next vehicle to visit.     *)
LoopGoesOn == todo = {} \/ \E v \in todo : IsFirst(v)

(* Inside the handler every step is one iteration less, and nothing else   *)
(* happens meanwhile: no vehicle enters or leaves.                         *)
HandlerAdvances == [][phase # "idle" => StepsLeft' < StepsLeft /\ live' = live]_vars

(* The sets the loops go over are finite.                                  *)
LEMMA LoopsFinite ==
  TypeOK => /\ todo \subseteq Nat /\ IsFiniteSet(todo) /\ Cardinality(todo) \in Nat
            /\ IsFiniteSet(live) /\ Cardinality(live) \in Nat
<1> SUFFICES ASSUME TypeOK
             PROVE  /\ todo \subseteq Nat /\ IsFiniteSet(todo) /\ Cardinality(todo) \in Nat
                    /\ IsFiniteSet(live) /\ Cardinality(live) \in Nat
  OBVIOUS
<1>1. created \in Nat
  BY ConstantAssumption DEF TypeOK
<1>2. todo \in SUBSET (1..created) /\ live \in SUBSET (1..created)
  BY DEF TypeOK
<1>3. IsFiniteSet(1..created)
  BY <1>1, FS_Interval
<1>4. IsFiniteSet(todo) /\ IsFiniteSet(live)
  BY ONLY <1>2, <1>3, FS_Subset
<1>5. Cardinality(todo) \in Nat /\ Cardinality(live) \in Nat
  BY ONLY <1>4, FS_CardinalityType
<1>6. todo \subseteq Nat
  BY <1>1, <1>2
<1> QED BY <1>4, <1>5, <1>6

(* The handler always ends, and is never stuck before its end, however     *)
(* many vehicles there are and whatever they did (handleMessage,           *)
(* cleanupVeinsNode, checkAndConfigureVehicleInterfaces).                  *)
THEOREM HandlerEnds ==
  Spec => [](StepsLeft \in Nat /\ LoopGoesOn) /\ HandlerAdvances
<1>1. IInv => StepsLeft \in Nat /\ LoopGoesOn
  <2> SUFFICES ASSUME TypeOK PROVE StepsLeft \in Nat /\ LoopGoesOn
    BY DEF IInv
  <2>1. StepsLeft \in Nat
    BY LoopsFinite DEF StepsLeft
  <2>2. todo # {} => \E v \in todo : \A w \in todo : v <= w
    <3>1. todo \subseteq Nat
      BY LoopsFinite
    <3> QED BY <3>1, LeastNatural
  <2> QED BY <2>1, <2>2 DEF LoopGoesOn, IsFirst
<1>2. IInv /\ [Next]_vars =>
        [phase # "idle" => StepsLeft' < StepsLeft /\ live' = live]_vars
  <2> SUFFICES ASSUME IInv, Next, phase # "idle"
               PROVE  StepsLeft' < StepsLeft /\ live' = live
    OBVIOUS
  <2>1. /\ IsFiniteSet(todo) /\ Cardinality(todo) \in Nat /\ Cardinality(live) \in Nat
    BY LoopsFinite DEF IInv
  <2>2. ASSUME NEW v \in todo, todo' = todo \ {v}
        PROVE  Cardinality(todo') = Cardinality(todo) - 1
    BY <2>1, <2>2, FS_RemoveElement
  <2>3. CASE \E v \in Vehicle : CleanupVeinsNode(v) \/ ConfigureVehicle(v)
    <3>1. PICK v \in todo : todo' = todo \ {v}
      BY <2>3 DEF CleanupVeinsNode, ConfigureVehicle
    <3>2. phase' = phase /\ live' = live /\ phase \in {"cleanup", "configure"}
      BY <2>3 DEF CleanupVeinsNode, ConfigureVehicle
    <3>3. Cardinality(todo') = Cardinality(todo) - 1
      BY <2>2, <3>1
    <3> QED BY <2>1, <3>2, <3>3 DEF StepsLeft
  <2>4. CASE StartConfigure
    <3>1. /\ phase = "cleanup" /\ phase' = "configure" /\ todo' = live /\ live' = live
      BY <2>4 DEF StartConfigure
    <3> QED BY <2>1, <3>1 DEF StepsLeft
  <2>5. CASE FinishReconfigure \/ \E v \in Vehicle : PoolExhausted(v)
    <3>1. phase = "configure" /\ phase' \in {"idle", "failed"} /\ live' = live
      BY <2>5 DEF FinishReconfigure, PoolExhausted
    <3> QED BY <2>1, <3>1 DEF StepsLeft
  <2> QED BY <2>3, <2>4, <2>5 DEF Next, Handler, StartReconfigure, Enter, Exit
<1> QED BY <1>1, <1>2, Invariance, PTL DEF Spec, HandlerAdvances
=============================================================================
