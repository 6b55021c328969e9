------------------------ MODULE ConnectionPoolProofs ------------------------
(* Theorems about ConnectionPool.                                          *)
EXTENDS ConnectionPool, FiniteSetTheorems, TLAPS

(* How many connections a thread holds and still wants, by its place: only *)
(* a thread that nests asks for a connection with one in its hands.        *)
HeldBy(c) ==
    /\ pc[c] = "idle" => held[c] = {}
    /\ pc[c] \in {"get", "wait", "woken"} =>
          \/ want[c] = 1 /\ held[c] = {}
          \/ want[c] = 2 /\ held[c] = {} /\ c \in Nested
          \/ want[c] = 1 /\ c \in Nested /\ \E x \in Conn : held[c] = {x}
    /\ pc[c] = "use" => \E x, y \in Conn : held[c] = {x, y}

HeldInv == \A c \in Client : HeldBy(c)

(* A connection in the program was opened.                                 *)
OpenedInv ==
    /\ Pooled \subseteq opened
    /\ \A c \in Client : held[c] \subseteq opened

(* Until Connect returns, nobody uses the pool and all of it is there.     *)
ConnectInv ==
    phase = "connecting" =>
        /\ \A c \in Client : pc[c] = "idle"
        /\ Len(connection_pool) = Cardinality(opened)

PoolInv ==
    /\ TypeOK
    /\ HeldInv
    /\ OpenedInv
    /\ ConnectInv
    /\ NoSharedConnection
    /\ NoLostWakeup

-----------------------------------------------------------------------------
(* What is left of the queue when its front is taken.                      *)
LEMMA TailOfQueue ==
    ASSUME NEW S, NEW s \in Seq(S), s # <<>>
    PROVE  /\ Head(s) \in S
           /\ Tail(s) \in Seq(S)
           /\ Len(Tail(s)) = Len(s) - 1
           /\ ToSet(Tail(s)) \subseteq ToSet(s)
           /\ Head(s) \in ToSet(s)
           /\ IsInjective(s) => /\ IsInjective(Tail(s))
                                /\ Head(s) \notin ToSet(Tail(s))
BY DEF ToSet, IsInjective

(* And when a connection is put back.                                      *)
LEMMA QueueWithOneMore ==
    ASSUME NEW S, NEW s \in Seq(S), NEW x \in S
    PROVE  /\ Append(s, x) \in Seq(S)
           /\ Len(Append(s, x)) = Len(s) + 1
           /\ ToSet(Append(s, x)) = ToSet(s) \cup {x}
           /\ IsInjective(s) /\ x \notin ToSet(s) => IsInjective(Append(s, x))
<1>1. /\ Append(s, x) \in Seq(S)
      /\ Len(Append(s, x)) = Len(s) + 1
      /\ \A i \in 1..Len(s) : Append(s, x)[i] = s[i]
      /\ Append(s, x)[Len(s) + 1] = x
  OBVIOUS
<1>2. /\ DOMAIN s = 1..Len(s)
      /\ DOMAIN Append(s, x) = 1..(Len(s) + 1)
      /\ Len(s) \in Nat
  OBVIOUS
<1> DEFINE t == Append(s, x)
<1>3. ToSet(t) = ToSet(s) \cup {x}
  <2> HIDE DEF t
  <2> QED  BY <1>1, <1>2 DEF t, ToSet
<1>4. IsInjective(s) /\ x \notin ToSet(s) => IsInjective(t)
  <2> HIDE DEF t
  <2> QED  BY <1>1, <1>2 DEF t, ToSet, IsInjective
<1> QED  BY <1>1, <1>3, <1>4

(* There are finitely many threads at a place.                             *)
LEMMA WokenFinite == IsFiniteSet(Woken) /\ Cardinality(Woken) \in Nat
<1>1. Woken \in SUBSET Client
  BY DEF Woken
<1> QED
  BY <1>1, ConnectionPoolAssumption, FS_Subset, FS_CardinalityType
     DEF ConnectionPoolAssumption

(* A thread is woken.                                                      *)
LEMMA OneMoreWoken ==
    ASSUME NEW w, w \notin Woken, Woken' = Woken \cup {w}
    PROVE  Cardinality(Woken') = Cardinality(Woken) + 1
BY WokenFinite, FS_AddElement

(* A woken thread looks at the queue.                                      *)
LEMMA OneLessWoken ==
    ASSUME NEW c, Woken' = Woken \ {c}
    PROVE  Cardinality(Woken') >= Cardinality(Woken) - 1
<1>1. CASE c \in Woken
  BY <1>1, WokenFinite, FS_RemoveElement
<1>2. CASE c \notin Woken
  <2>1. Woken' = Woken
    BY <1>2
  <2> QED  BY <2>1, WokenFinite
<1> QED  BY <1>1, <1>2

(* A step that changes neither the queue nor who owns what.                *)
LEMMA SameOwners ==
    ASSUME PoolInv, UNCHANGED <<opened, connection_pool, held>>
    PROVE  OpenedInv' /\ NoSharedConnection'
BY DEF PoolInv, OpenedInv, NoSharedConnection, Pooled

(* A step of Connect keeps the invariant.                                  *)
LEMMA ConnectKeepsInv ==
    ASSUME PoolInv, ConnectStep
    PROVE  PoolInv'
<1> USE ConnectionPoolAssumption DEF ConnectionPoolAssumption
<1>1. /\ phase = "connecting"
      /\ \A c \in Client : pc[c] = "idle" /\ held[c] = {}
      /\ UNCHANGED <<pc, want, held, broken>>
  BY DEF PoolInv, ConnectInv, HeldInv, HeldBy, ConnectStep, OpenConnection,
         ConnectSucceeds, ConnectFails
<1>2. HeldInv' /\ NoLostWakeup'
  BY <1>1 DEF PoolInv, HeldInv, HeldBy, NoLostWakeup, Waiting
<1>3. ASSUME NEW x \in Conn, OpenConnection(x)
      PROVE  PoolInv'
  <2> DEFINE pool == connection_pool
  <2>1. /\ pool \in Seq(Conn) /\ x \notin ToSet(pool) /\ IsInjective(pool)
        /\ x \notin opened /\ opened \subseteq Conn
        /\ opened' = opened \cup {x}
        /\ pool' = Append(pool, x)
        /\ UNCHANGED <<phase, is_connected>>
    BY <1>3 DEF PoolInv, TypeOK, OpenedInv, Pooled, NoSharedConnection,
                OpenConnection
  <2>2. /\ pool' \in Seq(Conn)
        /\ Len(pool') = Len(pool) + 1
        /\ ToSet(pool') = ToSet(pool) \cup {x}
        /\ IsInjective(pool')
    BY <2>1, QueueWithOneMore
  <2>3. Cardinality(opened') = Cardinality(opened) + 1
    <3>1. IsFiniteSet(opened)
      BY <2>1, FS_Subset
    <3> QED  BY <2>1, <3>1, FS_AddElement
  <2> HIDE DEF pool
  <2>4. TypeOK' /\ OpenedInv' /\ ConnectInv' /\ NoSharedConnection'
    BY <1>1, <2>1, <2>2, <2>3
       DEF PoolInv, TypeOK, OpenedInv, Pooled, ConnectInv, NoSharedConnection,
           pool
  <2> QED  BY <1>2, <2>4 DEF PoolInv
<1>4. CASE ConnectSucceeds
  BY <1>1, <1>2, <1>4, SameOwners
     DEF PoolInv, TypeOK, ConnectInv, ConnectSucceeds
<1>5. CASE ConnectFails
  <2> DEFINE pool == connection_pool
  <2>1. /\ pool \in Seq(Conn) /\ IsInjective(pool)
        /\ pool' = IF pool # <<>> THEN Tail(pool) ELSE <<>>
        /\ phase' = "up" /\ is_connected' = FALSE
        /\ UNCHANGED opened
    BY <1>5 DEF PoolInv, TypeOK, NoSharedConnection, ConnectFails,
                EmptyConnectionPool
  <2>2. /\ pool' \in Seq(Conn)
        /\ ToSet(pool') \subseteq ToSet(pool)
        /\ IsInjective(pool')
    BY <2>1, TailOfQueue
  <2> HIDE DEF pool
  <2>3. TypeOK' /\ OpenedInv' /\ ConnectInv' /\ NoSharedConnection'
    BY <1>1, <2>1, <2>2
       DEF PoolInv, TypeOK, OpenedInv, Pooled, ConnectInv, NoSharedConnection,
           pool
  <2> QED  BY <1>2, <2>3 DEF PoolInv
<1> QED  BY <1>3, <1>4, <1>5 DEF ConnectStep

(* The front of the queue is taken.                                        *)
LEMMA FrontTaken ==
    ASSUME PoolInv, connection_pool # <<>>,
           connection_pool' = Tail(connection_pool),
           UNCHANGED opened
    PROVE  /\ Head(connection_pool) \in opened
           /\ connection_pool' \in Seq(Conn)
           /\ Len(connection_pool') = Len(connection_pool) - 1
           /\ Len(connection_pool) \in Nat
           /\ Pooled' \subseteq Pooled
           /\ IsInjective(connection_pool')
           /\ Head(connection_pool) \in Pooled
           /\ Head(connection_pool) \notin Pooled'
<1>1. connection_pool \in Seq(Conn) /\ IsInjective(connection_pool)
  BY DEF PoolInv, TypeOK, NoSharedConnection
<1> QED  BY <1>1, TailOfQueue DEF PoolInv, OpenedInv, Pooled

(* Nobody loses a wakeup when a connection and a woken thread go.          *)
LEMMA FewerToWake ==
    ASSUME PoolInv, NEW c \in Client,
           Waiting' \subseteq Waiting, Woken' = Woken \ {c},
           Len(connection_pool') = Len(connection_pool) - 1,
           Len(connection_pool) \in Nat
    PROVE  NoLostWakeup'
<1>1. Cardinality(Woken') >= Cardinality(Woken) - 1
  BY OneLessWoken
<1>2. Cardinality(Woken) \in Nat /\ Cardinality(Woken') \in Nat
  <2>1. Woken' \in SUBSET Woken
    OBVIOUS
  <2> QED  BY <2>1, WokenFinite, FS_Subset, FS_CardinalityType
<1> QED  BY <1>1, <1>2 DEF PoolInv, NoLostWakeup

(* A step of a thread that leaves the queue and the owners alone.          *)
LEMMA QuietStepKeepsInv ==
    ASSUME PoolInv, NEW c \in Client,
           Begin(c) \/ WaitForConnection(c) \/ SpuriousWakeup(c)
    PROVE  PoolInv'
<1> USE DEF Begin, WaitForConnection, SpuriousWakeup
<1>1. UNCHANGED <<phase, is_connected, opened, broken, connection_pool, held>>
  OBVIOUS
<1>2. TypeOK' /\ HeldInv' /\ ConnectInv'
  BY <1>1 DEF PoolInv, TypeOK, HeldInv, HeldBy, ConnectInv
<1>3. NoLostWakeup'
  <2>1. CASE Begin(c)
    <3>1. Waiting' = Waiting /\ Woken' = Woken
      BY <2>1 DEF PoolInv, TypeOK, Waiting, Woken
    <3> QED  BY <1>1, <3>1 DEF PoolInv, NoLostWakeup
  <2>2. CASE WaitForConnection(c)
    <3>1. Len(connection_pool') = 0
      BY <2>2
    <3>2. Woken' \in SUBSET Woken
      BY <2>2 DEF PoolInv, TypeOK, Woken
    <3>3. Cardinality(Woken') \in Nat
      BY <3>2, WokenFinite, FS_Subset, FS_CardinalityType
    <3> QED  BY <3>1, <3>3 DEF NoLostWakeup
  <2>3. CASE SpuriousWakeup(c)
    <3>1. c \notin Woken /\ Woken' = Woken \cup {c} /\ Waiting # {}
      BY <2>3 DEF PoolInv, TypeOK, Woken, Waiting
    <3>2. Cardinality(Woken') = Cardinality(Woken) + 1
      BY <3>1, OneMoreWoken
    <3>3. Len(connection_pool) \in Nat
      BY DEF PoolInv, TypeOK
    <3> QED  BY <1>1, <3>1, <3>2, <3>3, WokenFinite DEF PoolInv, NoLostWakeup
  <2> QED  BY <2>1, <2>2, <2>3
<1> QED  BY <1>1, <1>2, <1>3, SameOwners DEF PoolInv

(* GetConnection, whether the connection it gets is open or not.           *)
LEMMA GetKeepsInv ==
    ASSUME PoolInv, NEW c \in Client,
           GetConnection(c) \/ GetBrokenConnection(c)
    PROVE  PoolInv'
<1> DEFINE x == Head(connection_pool)
           got == IF x \in broken THEN {} ELSE {x}
<1> USE DEF GetConnection, GetBrokenConnection
<1>1. /\ connection_pool # <<>>
      /\ connection_pool' = Tail(connection_pool)
      /\ UNCHANGED <<phase, is_connected, opened, broken>>
      /\ pc[c] \in {"get", "woken"}
      /\ held' = [held EXCEPT ![c] = @ \cup got]
  BY DEF PoolInv, TypeOK
<1>2. /\ x \in opened /\ x \in Pooled /\ x \notin Pooled'
      /\ connection_pool' \in Seq(Conn)
      /\ Len(connection_pool') = Len(connection_pool) - 1
      /\ Len(connection_pool) \in Nat
      /\ Pooled' \subseteq Pooled
      /\ IsInjective(connection_pool')
  BY <1>1, FrontTaken
<1>3. TypeOK' /\ x \in Conn /\ got \subseteq {x}
  <2>1. x \in Conn
    BY <1>2 DEF PoolInv, TypeOK
  <2>2. want[c] \in {1, 2}
    BY <1>1 DEF PoolInv, HeldInv, HeldBy
  <2>3. got \subseteq {x}
    OBVIOUS
  <2>4. held' \in [Client -> SUBSET Conn]
    <3> HIDE DEF x, got
    <3> QED  BY <1>1, <2>1, <2>3 DEF PoolInv, TypeOK
  <2>5. want' \in [Client -> 0..2]
    BY <2>2 DEF PoolInv, TypeOK
  <2>6. pc' \in [Client -> {"idle", "get", "wait", "woken", "use"}]
    BY DEF PoolInv, TypeOK
  <2> HIDE DEF x, GetConnection, GetBrokenConnection
  <2> QED
    BY <1>1, <1>2, <2>1, <2>3, <2>4, <2>5, <2>6 DEF PoolInv, TypeOK
<1>4. HeldInv'
  <2> SUFFICES ASSUME NEW d \in Client PROVE HeldBy(d)'
    BY DEF HeldInv
  <2>1. CASE d # c
    <3>1. pc'[d] = pc[d] /\ want'[d] = want[d] /\ held'[d] = held[d]
      BY <2>1 DEF PoolInv, TypeOK
    <3>2. HeldBy(d)
      BY DEF PoolInv, HeldInv
    <3> HIDE DEF GetConnection, GetBrokenConnection
    <3> QED  BY <3>1, <3>2 DEF HeldBy
  <2>2. CASE d = c
    <3>1. \/ want[c] = 1 /\ held[c] = {}
          \/ want[c] = 2 /\ held[c] = {} /\ c \in Nested
          \/ want[c] = 1 /\ c \in Nested /\ \E y \in Conn : held[c] = {y}
      BY <1>1 DEF PoolInv, HeldInv, HeldBy
    <3>2. CASE GetConnection(c)
      <4>1. /\ held'[c] = held[c] \cup {x}
            /\ want'[c] = want[c] - 1
            /\ pc'[c] = IF want[c] = 1 THEN "use" ELSE "get"
        BY <3>2 DEF PoolInv, TypeOK
      <4> HIDE DEF x, GetConnection, GetBrokenConnection
      <4>2. CASE want[c] = 1 /\ held[c] = {}
        <5>1. held'[c] = {x, x} /\ pc'[c] = "use"
          BY <4>1, <4>2
        <5> QED  BY <1>3, <2>2, <5>1 DEF HeldBy
      <4>3. CASE want[c] = 2 /\ held[c] = {} /\ c \in Nested
        <5>1. held'[c] = {x} /\ pc'[c] = "get" /\ want'[c] = 1
          BY <4>1, <4>3
        <5> QED  BY <1>3, <2>2, <4>3, <5>1 DEF HeldBy
      <4>4. ASSUME NEW y \in Conn, want[c] = 1, held[c] = {y}
            PROVE  HeldBy(d)'
        <5>1. held'[c] = {y, x} /\ pc'[c] = "use"
          BY <4>1, <4>4
        <5> QED  BY <1>3, <2>2, <5>1 DEF HeldBy
      <4> QED  BY <3>1, <4>2, <4>3, <4>4
    <3>3. CASE GetBrokenConnection(c)
      <4>1. /\ held'[c] = held[c]
            /\ pc'[c] = IF held[c] = {} THEN "idle" ELSE "use"
        BY <3>3 DEF PoolInv, TypeOK
      <4> HIDE DEF x, GetConnection, GetBrokenConnection
      <4>2. CASE held[c] = {}
        BY <2>2, <4>1, <4>2 DEF HeldBy
      <4>3. ASSUME NEW y \in Conn, held[c] = {y}
            PROVE  HeldBy(d)'
        <5>1. held'[c] = {y, y} /\ pc'[c] = "use"
          BY <4>1, <4>3
        <5> QED  BY <2>2, <5>1 DEF HeldBy
      <4> QED  BY <3>1, <4>2, <4>3
    <3> QED  BY <3>2, <3>3
  <2> QED  BY <2>1, <2>2
<1>5. OpenedInv' /\ ConnectInv'
  <2> HIDE DEF x
  <2>1. phase # "connecting"
    BY <1>1 DEF PoolInv, ConnectInv
  <2> QED
    BY <1>1, <1>2, <1>3, <2>1 DEF PoolInv, TypeOK, OpenedInv, ConnectInv
<1>6. NoSharedConnection'
  <2> HIDE DEF x
  <2>1. \A d \in Client : x \notin held[d]
    BY <1>2 DEF PoolInv, NoSharedConnection
  <2>2. \A d \in Client :
           held'[d] = IF d = c THEN held[d] \cup got ELSE held[d]
    BY <1>1 DEF PoolInv, TypeOK
  <2>3. \A d \in Client : held[d] \cap Pooled' = {}
    BY <1>2 DEF PoolInv, NoSharedConnection
  <2>4. \A d, e \in Client : d # e => held[d] \cap held[e] = {}
    BY DEF PoolInv, NoSharedConnection
  <2>5. \A d \in Client : held'[d] \cap Pooled' = {}
    BY <1>2, <2>2, <2>3
  <2>6. \A d, e \in Client : d # e => held'[d] \cap held'[e] = {}
    BY <2>1, <2>2, <2>4
  <2> QED  BY <1>2, <2>5, <2>6 DEF NoSharedConnection
<1>7. NoLostWakeup'
  <2>1. Waiting' \subseteq Waiting /\ Woken' = Woken \ {c}
    BY DEF PoolInv, TypeOK, Waiting, Woken
  <2> QED  BY <1>2, <2>1, FewerToWake
<1> QED  BY <1>3, <1>4, <1>5, <1>6, <1>7 DEF PoolInv

(* ReleaseConnection, whoever it wakes.                                    *)
LEMMA ReleaseKeepsInv ==
    ASSUME PoolInv, NEW c \in Client, NEW x \in held[c],
           ReleaseConnection(c, x)
    PROVE  PoolInv'
<1> USE DEF ReleaseConnection
<1>1. /\ x \in Conn /\ x \in opened /\ x \notin Pooled
      /\ connection_pool \in Seq(Conn) /\ IsInjective(connection_pool)
      /\ Len(connection_pool) \in Nat
      /\ phase # "connecting"
      /\ UNCHANGED <<phase, is_connected, opened, broken, want>>
      /\ pc[c] = "use"
      /\ held' = [held EXCEPT ![c] = @ \ {x}]
  BY DEF PoolInv, TypeOK, OpenedInv, ConnectInv, NoSharedConnection
<1>2. \/ /\ pc' = [pc EXCEPT ![c] = AfterRelease(c, x)]
         /\ \/ connection_pool' = connection_pool
            \/ /\ connection_pool' = Append(connection_pool, x)
               /\ Waiting = {}
      \/ /\ connection_pool' = Append(connection_pool, x)
         /\ \E w \in Waiting :
               pc' = [pc EXCEPT ![c] = AfterRelease(c, x), ![w] = "woken"]
  BY DEF NotifyOne
<1>3. /\ connection_pool' \in Seq(Conn)
      /\ IsInjective(connection_pool')
      /\ Pooled' \subseteq Pooled \cup {x}
      /\ Len(connection_pool') <= Len(connection_pool) + 1
  <2>1. CASE connection_pool' = connection_pool
    BY <1>1, <2>1 DEF Pooled
  <2>2. CASE connection_pool' = Append(connection_pool, x)
    BY <1>1, <2>2, QueueWithOneMore DEF Pooled
  <2> QED  BY <1>2, <2>1, <2>2
<1>4. TypeOK'
  BY <1>1, <1>2, <1>3 DEF PoolInv, TypeOK, AfterRelease, Waiting
<1>5. HeldInv'
  <2> SUFFICES ASSUME NEW d \in Client PROVE HeldBy(d)'
    BY DEF HeldInv
  <2>1. CASE d # c
    <3>1. held'[d] = held[d] /\ want'[d] = want[d]
      BY <1>1, <2>1 DEF PoolInv, TypeOK
    <3>2. \/ pc'[d] = pc[d]
          \/ pc[d] = "wait" /\ pc'[d] = "woken"
      BY <1>2, <2>1 DEF PoolInv, TypeOK, Waiting
    <3> QED  BY <3>1, <3>2 DEF PoolInv, HeldInv, HeldBy
  <2>2. CASE d = c
    <3>1. held'[c] = held[c] \ {x} /\ pc'[c] = AfterRelease(c, x)
      BY <1>1, <1>2 DEF PoolInv, TypeOK, Waiting
    <3>2. PICK y \in Conn, z \in Conn : held[c] = {y, z}
      BY <1>1 DEF PoolInv, HeldInv, HeldBy
    <3>3. \/ held[c] = {x} /\ held'[c] = {}
          \/ held[c] # {x} /\ \E y1, z1 \in Conn : held'[c] = {y1, z1}
      <4>1. CASE held[c] = {x}
        BY <3>1, <4>1
      <4>2. CASE held[c] # {x} /\ x = y
        <5>1. held'[c] = {z, z}
          BY <3>1, <3>2, <4>2
        <5> QED  BY <4>2, <5>1
      <4>3. CASE held[c] # {x} /\ x = z
        <5>1. held'[c] = {y, y}
          BY <3>1, <3>2, <4>3
        <5> QED  BY <4>3, <5>1
      <4> QED  BY <3>2, <4>1, <4>2, <4>3
    <3> QED  BY <2>2, <3>1, <3>3 DEF AfterRelease, HeldBy
  <2> QED  BY <2>1, <2>2
<1>6. OpenedInv' /\ ConnectInv'
  BY <1>1, <1>3 DEF PoolInv, TypeOK, OpenedInv, ConnectInv
<1>7. NoSharedConnection'
  <2> HIDE DEF ReleaseConnection
  <2>1. \A d \in Client : held'[d] = IF d = c THEN held[d] \ {x} ELSE held[d]
    BY <1>1 DEF PoolInv, TypeOK
  <2>2. \A d \in Client : d # c => x \notin held[d]
    BY DEF PoolInv, NoSharedConnection
  <2>3. \A d \in Client : held[d] \cap Pooled = {}
    BY DEF PoolInv, NoSharedConnection
  <2>4. \A d, e \in Client : d # e => held[d] \cap held[e] = {}
    BY DEF PoolInv, NoSharedConnection
  <2>5. ASSUME NEW d \in Client PROVE held'[d] \cap Pooled' = {}
    <3>1. x \notin held'[d] /\ held'[d] \subseteq held[d]
      BY <2>1, <2>2
    <3> QED  BY <1>3, <2>3, <3>1
  <2>6. \A d, e \in Client : d # e => held'[d] \cap held'[e] = {}
    BY <2>1, <2>4
  <2> QED  BY <1>3, <2>5, <2>6 DEF NoSharedConnection
<1>8. NoLostWakeup'
  <2>1. CASE pc' = [pc EXCEPT ![c] = AfterRelease(c, x)]
    <3>1. Waiting' = Waiting /\ Woken' = Woken
      BY <1>1, <2>1 DEF PoolInv, TypeOK, Waiting, Woken, AfterRelease
    <3>2. Waiting = {} \/ connection_pool' = connection_pool
      <4>1. ASSUME NEW w \in Waiting,
                   pc' = [pc EXCEPT ![c] = AfterRelease(c, x), ![w] = "woken"]
            PROVE  FALSE
        BY <2>1, <4>1, <3>1 DEF PoolInv, TypeOK, Waiting
      <4> QED  BY <1>2, <4>1
    <3> QED  BY <3>1, <3>2 DEF PoolInv, NoLostWakeup
  <2>2. ASSUME NEW w \in Waiting,
               pc' = [pc EXCEPT ![c] = AfterRelease(c, x), ![w] = "woken"]
        PROVE  NoLostWakeup'
    <3>1. w \notin Woken /\ Woken' = Woken \cup {w}
      BY <1>1, <2>2 DEF PoolInv, TypeOK, Waiting, Woken, AfterRelease
    <3>2. Cardinality(Woken') = Cardinality(Woken) + 1
      BY <3>1, OneMoreWoken
    <3>3. Len(connection_pool') \in Nat
      BY <1>3
    <3> QED
      BY <1>1, <1>3, <2>2, <3>2, <3>3, WokenFinite DEF PoolInv, NoLostWakeup
  <2> QED  BY <1>2, <2>1, <2>2
<1> QED  BY <1>4, <1>5, <1>6, <1>7, <1>8 DEF PoolInv

(* ExecuteRead, which uses no lock.                                        *)
LEMMA ReadKeepsInv ==
    ASSUME PoolInv, NEW c \in Client, ExecuteRead(c)
    PROVE  PoolInv'
<1> USE DEF ExecuteRead
<1>1. CASE connection_pool = <<>>
  <2>1. HeldInv' /\ TypeOK' /\ ConnectInv' /\ NoLostWakeup'
    BY <1>1 DEF PoolInv, TypeOK, HeldInv, HeldBy, ConnectInv, NoLostWakeup,
                Waiting, Woken
  <2> QED  BY <1>1, <2>1, SameOwners DEF PoolInv
<1>2. CASE connection_pool # <<>>
  <2>1. /\ connection_pool' = Tail(connection_pool)
        /\ phase = "up"
        /\ UNCHANGED <<phase, is_connected, opened, broken, pc, want, held>>
    BY <1>2
  <2>2. /\ connection_pool' \in Seq(Conn)
        /\ Len(connection_pool') = Len(connection_pool) - 1
        /\ Len(connection_pool) \in Nat
        /\ Pooled' \subseteq Pooled
        /\ IsInjective(connection_pool')
    BY <1>2, <2>1, FrontTaken
  <2>3. Waiting' = Waiting /\ Woken' = Woken
    BY <2>1 DEF Waiting, Woken
  <2> QED
    BY <2>1, <2>2, <2>3, WokenFinite
       DEF PoolInv, TypeOK, HeldInv, HeldBy, OpenedInv, ConnectInv,
           NoSharedConnection, NoLostWakeup
<1> QED  BY <1>1, <1>2

(* The invariant holds whatever breaks and whoever is woken.               *)
THEOREM PoolInvariant == Spec => []PoolInv
<1>1. Init => PoolInv
  <2> SUFFICES ASSUME Init PROVE PoolInv
    OBVIOUS
  <2>1. Pooled = {} /\ Waiting = {} /\ Len(connection_pool) = 0
    BY DEF Init, Pooled, Waiting, ToSet
  <2>2. IsInjective(connection_pool)
    BY DEF Init, IsInjective
  <2>3. Cardinality(opened) = 0
    BY FS_EmptySet DEF Init
  <2>4. TypeOK
    <3>1. connection_pool \in Seq(Conn)
      BY DEF Init
    <3>2. want \in [Client -> 0..2] /\ held \in [Client -> SUBSET Conn]
      BY DEF Init
    <3> QED  BY <3>1, <3>2 DEF Init, TypeOK
  <2>5. HeldInv /\ OpenedInv /\ ConnectInv
    BY <2>1, <2>3 DEF Init, HeldInv, HeldBy, OpenedInv, ConnectInv
  <2>6. NoSharedConnection /\ NoLostWakeup
    BY <2>1, <2>2 DEF Init, NoSharedConnection, NoLostWakeup
  <2> QED  BY <2>4, <2>5, <2>6 DEF PoolInv
<1>2. PoolInv /\ [Next]_vars => PoolInv'
  <2> SUFFICES ASSUME PoolInv, [Next]_vars PROVE PoolInv'
    OBVIOUS
  <2>1. ASSUME NEW x \in Conn, Break(x) PROVE PoolInv'
    <3>1. /\ UNCHANGED <<phase, is_connected, opened, connection_pool, pc,
                         want, held>>
          /\ x \in opened
          /\ broken' = broken \cup {x}
      BY <2>1 DEF Break, PoolInv, OpenedInv
    <3>2. HeldInv' /\ TypeOK' /\ ConnectInv' /\ NoLostWakeup'
      BY <3>1 DEF PoolInv, TypeOK, HeldInv, HeldBy, ConnectInv, NoLostWakeup,
                  Waiting, Woken
    <3> QED  BY <3>1, <3>2, SameOwners DEF PoolInv
  <2>2. CASE UNCHANGED vars
    BY <2>2
       DEF vars, PoolInv, TypeOK, HeldInv, HeldBy, OpenedInv, Pooled,
           ConnectInv, NoSharedConnection, NoLostWakeup, Waiting, Woken
  <2> QED
    BY <2>1, <2>2, ConnectKeepsInv, QuietStepKeepsInv, GetKeepsInv,
       ReleaseKeepsInv, ReadKeepsInv
       DEF Next, ClientStep
<1> QED  BY <1>1, <1>2, PTL DEF Spec

-----------------------------------------------------------------------------
(* Every variable holds a value of its type.                               *)
THEOREM TypeCorrect == Spec => []TypeOK
<1>1. PoolInv => TypeOK
  BY DEF PoolInv
<1> QED  BY <1>1, PoolInvariant, PTL

(* No connection is in the queue twice, or in the queue and with a thread, *)
(* or with two threads.                                                    *)
THEOREM ConnectionsHaveOneOwner == Spec => []NoSharedConnection
<1>1. PoolInv => NoSharedConnection
  BY DEF PoolInv
<1> QED  BY <1>1, PoolInvariant, PTL

(* Every connection in the queue beside which a thread waits has a thread  *)
(* that was woken for it.                                                  *)
THEOREM NoWakeupIsLost == Spec => []NoLostWakeup
<1>1. PoolInv => NoLostWakeup
  BY DEF PoolInv
<1> QED  BY <1>1, PoolInvariant, PTL

(* Whoever is inside an operation waits only when as many connections are  *)
(* left as threads that nest, or fewer: each of these holds at most one,   *)
(* the others hold none.                                                   *)
THEOREM OnlyNestingHangs == Spec => []HangMeansExhausted
<1>1. PoolInv => HangMeansExhausted
  <2> SUFFICES ASSUME PoolInv, Waiting # {},
                      \A c \in Client : pc[c] \in {"idle", "wait"}
               PROVE  Exhausted
    BY DEF HangMeansExhausted
  <2> USE ConnectionPoolAssumption DEF ConnectionPoolAssumption
  <2>1. Woken = {} /\ Waiting # {}
    BY DEF Woken, Waiting
  <2>2. Pooled = {}
    <3>1. Cardinality(Woken) = 0
      BY <2>1, FS_EmptySet
    <3>2. Len(connection_pool) <= 0
      BY <2>1, <3>1 DEF PoolInv, NoLostWakeup
    <3> QED  BY <3>2 DEF PoolInv, TypeOK, Pooled, ToSet
  <2> DEFINE Holding == {c \in Nested : held[c] # {}}
             InUse == UNION {held[c] : c \in Client}
             one == [c \in Holding |-> CHOOSE x \in held[c] : TRUE]
  <2>3. \A c \in Client :
           \/ held[c] = {}
           \/ c \in Nested /\ \E x \in Conn : held[c] = {x}
    <3> SUFFICES ASSUME NEW c \in Client
                 PROVE  \/ held[c] = {}
                        \/ c \in Nested /\ \E x \in Conn : held[c] = {x}
      OBVIOUS
    <3>1. pc[c] \in {"idle", "wait"}
      OBVIOUS
    <3> QED  BY <3>1 DEF PoolInv, HeldInv, HeldBy
  <2>4. one \in Surjection(Holding, InUse)
    <3>1. \A c \in Holding : held[c] = {one[c]}
      BY <2>3
    <3> HIDE DEF one
    <3>2. \A x \in InUse : \E c \in Holding : one[c] = x
      BY <2>3, <3>1
    <3>3. one \in [Holding -> InUse]
      BY <3>1 DEF one
    <3> QED  BY <3>2, <3>3 DEF Surjection
  <2>5. Holding \in SUBSET Nested /\ IsFiniteSet(Nested)
    BY FS_Subset
  <2> HIDE DEF Holding, InUse, one
  <2>6. /\ IsFiniteSet(Holding) /\ Cardinality(Holding) <= Cardinality(Nested)
        /\ Cardinality(Nested) \in Nat /\ Cardinality(Holding) \in Nat
    BY <2>5, FS_Subset, FS_CardinalityType
  <2>7. Cardinality(InUse) <= Cardinality(Holding) /\ IsFiniteSet(InUse)
    BY <2>4, <2>6, FS_Surjection
  <2>8. Cardinality(InUse) \in Nat
    BY <2>7, FS_CardinalityType
  <2>9. Cardinality(Pooled \cup InUse) <= Cardinality(Nested)
    <3> DEFINE all == Pooled \cup InUse
    <3>1. all = InUse
      BY <2>2
    <3> HIDE DEF all
    <3>2. Cardinality(all) <= Cardinality(Nested)
      BY <2>6, <2>7, <2>8, <3>1
    <3> QED  BY <3>2 DEF all
  <2> QED  BY <2>9 DEF Exhausted, InUse
<1> QED  BY <1>1, PoolInvariant, PTL

(* The connections the program has.                                        *)
InProgram == Pooled \cup UNION {held[c] : c \in Client}

(* Once Connect has returned no step adds one: nothing reopens what broke. *)
NothingReopens ==
    [][phase # "connecting" => InProgram' \subseteq InProgram]_vars

(* The exception Exhausted of OperationsDrain, once it holds, is for good. *)
ExhaustedStays == [][phase # "connecting" /\ Exhausted => Exhausted']_vars

(* A step moves connections between the queue and the threads, or drops    *)
(* one.                                                                    *)
LEMMA NoneComesBack ==
    ASSUME PoolInv, [Next]_vars, phase # "connecting"
    PROVE  InProgram' \subseteq InProgram
<1> USE ConnectionPoolAssumption DEF ConnectionPoolAssumption, InProgram
<1>1. connection_pool \in Seq(Conn) /\ held \in [Client -> SUBSET Conn]
  BY DEF PoolInv, TypeOK
<1>2. ASSUME UNCHANGED <<connection_pool, held>>
      PROVE  InProgram' \subseteq InProgram
  BY <1>2 DEF Pooled
<1>3. ASSUME NEW c \in Client, GetConnection(c)
      PROVE  InProgram' \subseteq InProgram
  <2>1. Pooled' \subseteq Pooled /\ Head(connection_pool) \in Pooled
    BY <1>1, <1>3, TailOfQueue DEF GetConnection, Pooled
  <2>2. \A d \in Client : held'[d] \subseteq held[d] \cup Pooled
    BY <1>1, <1>3, <2>1 DEF GetConnection
  <2> QED  BY <2>1, <2>2
<1>4. ASSUME NEW c \in Client, GetBrokenConnection(c) \/ ExecuteRead(c)
      PROVE  InProgram' \subseteq InProgram
  <2>1. Pooled' \subseteq Pooled
    BY <1>1, <1>4, TailOfQueue DEF GetBrokenConnection, ExecuteRead, Pooled
  <2>2. UNCHANGED held
    BY <1>4 DEF GetBrokenConnection, ExecuteRead
  <2> QED  BY <2>1, <2>2
<1>5. ASSUME NEW c \in Client, NEW x \in held[c], ReleaseConnection(c, x)
      PROVE  InProgram' \subseteq InProgram
  <2>1. x \in Conn
    BY <1>1, <1>5
  <2>2. Pooled' \subseteq Pooled \cup {x}
    <3>1. ToSet(Append(connection_pool, x)) = Pooled \cup {x}
      BY <1>1, <2>1, QueueWithOneMore DEF Pooled
    <3>2. \/ connection_pool' = connection_pool
          \/ connection_pool' = Append(connection_pool, x)
      BY <1>5 DEF ReleaseConnection
    <3> QED  BY <3>1, <3>2 DEF Pooled
  <2>3. \A d \in Client : held'[d] \subseteq held[d]
    BY <1>1, <1>5 DEF ReleaseConnection
  <2> QED  BY <1>5, <2>2, <2>3
<1> QED
  BY <1>2, <1>3, <1>4, <1>5
     DEF Next, vars, ConnectStep, OpenConnection, ConnectSucceeds,
         ConnectFails, Break, Begin, ClientStep, WaitForConnection,
         SpuriousWakeup

(* The pool only shrinks: a broken connection is never replaced            *)
(* (database.cpp has no other call that opens one than Connect).           *)
THEOREM PoolNeverGrows == Spec => NothingReopens
<1>1. PoolInv /\ [Next]_vars =>
         [phase # "connecting" => InProgram' \subseteq InProgram]_vars
  BY NoneComesBack
<1> QED  BY <1>1, PoolInvariant, PTL DEF Spec, NothingReopens

(* So when too few connections are left for the threads that nest, they    *)
(* stay too few.                                                           *)
THEOREM ExhaustedForGood == Spec => ExhaustedStays
<1>1. ASSUME PoolInv, [Next]_vars, phase # "connecting", Exhausted
      PROVE  Exhausted'
  <2> USE ConnectionPoolAssumption DEF ConnectionPoolAssumption
  <2>1. InProgram' \subseteq InProgram
    BY <1>1, NoneComesBack
  <2>2. InProgram \in SUBSET Conn
    BY <1>1 DEF PoolInv, TypeOK, InProgram, Pooled, ToSet
  <2>3. IsFiniteSet(InProgram) /\ IsFiniteSet(Nested)
    BY <2>2, FS_Subset
  <2>4. /\ Cardinality(InProgram') <= Cardinality(InProgram)
        /\ Cardinality(InProgram') \in Nat /\ Cardinality(InProgram) \in Nat
        /\ Cardinality(Nested) \in Nat
    <3> HIDE DEF InProgram
    <3> QED  BY <2>1, <2>3, FS_Subset, FS_CardinalityType
  <2>5. Cardinality(InProgram) <= Cardinality(Nested)
    BY <1>1 DEF Exhausted, InProgram
  <2>6. Cardinality(InProgram') <= Cardinality(Nested)
    BY <2>4, <2>5
  <2> QED  BY <2>6 DEF Exhausted, InProgram
<1>2. PoolInv /\ [Next]_vars =>
         [phase # "connecting" /\ Exhausted => Exhausted']_vars
  BY <1>1
<1> QED  BY <1>2, PoolInvariant, PTL DEF Spec, ExhaustedStays

-----------------------------------------------------------------------------
(* How many connections a thread has after it got one.                     *)
LEMMA OneMoreOut ==
    ASSUME NEW S, NEW x, IsFiniteSet(S), x \notin S
    PROVE  Cardinality(S \cup {x}) = Cardinality(S) + 1
BY FS_AddElement

(* And after it released one.                                              *)
LEMMA OneLessOut ==
    ASSUME NEW S, NEW x \in S, IsFiniteSet(S)
    PROVE  Cardinality(S \ {x}) = Cardinality(S) - 1
BY FS_RemoveElement

(* A thread holds finitely many connections.                               *)
LEMMA FewHeld ==
    ASSUME PoolInv, NEW c \in Client
    PROVE  IsFiniteSet(held[c])
<1>1. IsFiniteSet(Conn) /\ held[c] \in SUBSET Conn
  BY ConnectionPoolAssumption DEF ConnectionPoolAssumption, PoolInv, TypeOK
<1> QED  BY <1>1, FS_Subset

(* The queue, the mutex and the condition variable implement what the rest *)
(* of the program is modelled against: a number of connections that are    *)
(* taken, given back or lost.                                              *)
THEOREM PoolImplementsBudget == Spec => BudgetSpec
<1> DEFINE out == [c \in Client |-> Cardinality(held[c])]
           free == Len(connection_pool)
<1> USE ConnectionPoolAssumption DEF ConnectionPoolAssumption
<1>1. Init => Budget!Init
  <2> SUFFICES ASSUME Init PROVE Budget!Init
    OBVIOUS
  <2>1. Len(connection_pool) = 0 /\ phase = "connecting"
    BY DEF Init
  <2>2. \A c \in Client : Cardinality(held[c]) = 0
    BY FS_EmptySet DEF Init
  <2> QED  BY <2>1, <2>2 DEF Budget!Init
<1>2. PoolInv /\ [Next]_vars => [Budget!Next]_(Budget!vars)
  <2> SUFFICES ASSUME PoolInv, [Next]_vars
               PROVE  \/ Budget!Next
                      \/ /\ UNCHANGED <<connection_pool, held>>
                         /\ phase = "connecting" <=> phase' = "connecting"
    BY DEF Budget!vars
  <2> USE DEF Budget!Next
  <2>1. free \in Nat
    BY DEF PoolInv, TypeOK
  <2>2. ASSUME NEW x \in Conn, OpenConnection(x) PROVE Budget!Next
    <3>1. /\ IsFiniteSet(opened) /\ opened \in SUBSET Conn
          /\ opened \cup {x} \in SUBSET Conn /\ x \notin opened
      BY <2>2, FS_Subset DEF PoolInv, TypeOK, OpenConnection
    <3>2. /\ Cardinality(opened \cup {x}) = Cardinality(opened) + 1
          /\ Cardinality(opened \cup {x}) <= Cardinality(Conn)
          /\ Cardinality(opened) \in Nat /\ Cardinality(Conn) \in Nat
      BY <3>1, OneMoreOut, FS_Subset, FS_CardinalityType
    <3>3. free < Cardinality(Conn)
      BY <2>2, <3>2 DEF PoolInv, ConnectInv, OpenConnection
    <3>4. free' = free + 1
      BY <2>2, QueueWithOneMore DEF PoolInv, TypeOK, OpenConnection
    <3>5. Budget!Open
      BY <2>2, <3>3, <3>4 DEF Budget!Open, OpenConnection
    <3> QED  BY <3>5
  <2>3. CASE ConnectSucceeds
    <3>1. Budget!Fill(free)
      BY <2>1, <2>3 DEF ConnectSucceeds, Budget!Fill
    <3> QED  BY <3>1
  <2>4. CASE ConnectFails
    <3>1. /\ phase = "connecting" /\ phase' = "up" /\ held' = held
      BY <2>4 DEF ConnectFails
    <3>2. free' \in {free, free - 1} \cap Nat
      <4>1. CASE connection_pool = <<>>
        BY <2>4, <4>1 DEF ConnectFails, EmptyConnectionPool
      <4>2. CASE connection_pool # <<>>
        <5>1. connection_pool' = Tail(connection_pool)
          BY <2>4, <4>2 DEF ConnectFails, EmptyConnectionPool
        <5>2. connection_pool \in Seq(Conn)
          BY DEF PoolInv, TypeOK
        <5> QED  BY <4>2, <5>1, <5>2, TailOfQueue
      <4> QED  BY <4>1, <4>2
    <3>3. Budget!Fill(free')
      BY <3>1, <3>2 DEF Budget!Fill
    <3> QED  BY <3>2, <3>3
  <2>5. ASSUME connection_pool # <<>>,
               connection_pool' = Tail(connection_pool),
               phase # "connecting", UNCHANGED <<phase, opened>>
        PROVE  /\ free > 0 /\ free' = free - 1
               /\ Head(connection_pool) \in Pooled
    BY <2>1, <2>5, FrontTaken
  <2>6. ASSUME NEW c \in Client, GetConnection(c) PROVE Budget!Next
    <3> DEFINE x == Head(connection_pool)
    <3>1. phase # "connecting" /\ UNCHANGED phase
      BY <2>6 DEF GetConnection, PoolInv, ConnectInv
    <3>2. free > 0 /\ free' = free - 1 /\ x \in Pooled
      BY <2>5, <2>6, <3>1 DEF GetConnection
    <3>3. x \notin held[c] /\ held' = [held EXCEPT ![c] = @ \cup {x}]
      BY <2>6, <3>2 DEF GetConnection, PoolInv, NoSharedConnection
    <3> HIDE DEF x
    <3>4. Cardinality(held[c]) < 2
      <4>1. held[c] = {} \/ \E y \in Conn : held[c] = {y}
        BY <2>6 DEF GetConnection, PoolInv, HeldInv, HeldBy
      <4>2. Cardinality(held[c]) = 0 \/ Cardinality(held[c]) = 1
        BY <4>1, FS_EmptySet, FS_Singleton
      <4> QED  BY <4>2
    <3>5. Cardinality(held[c] \cup {x}) = Cardinality(held[c]) + 1
      BY <3>3, FewHeld, OneMoreOut
    <3>6. out' = [out EXCEPT ![c] = @ + 1]
      BY <3>3, <3>5 DEF PoolInv, TypeOK
    <3>7. Budget!Take(c)
      BY <3>1, <3>2, <3>4, <3>6 DEF Budget!Take
    <3> QED  BY <3>7
  <2>7. ASSUME NEW c \in Client, GetBrokenConnection(c) PROVE Budget!Next
    <3>1. phase # "connecting" /\ UNCHANGED <<phase, held>>
      BY <2>7 DEF GetBrokenConnection, PoolInv, ConnectInv
    <3>2. free > 0 /\ free' = free - 1
      BY <2>5, <2>7, <3>1 DEF GetBrokenConnection
    <3>3. Budget!Drop
      BY <3>1, <3>2 DEF Budget!Drop
    <3> QED  BY <3>3
  <2>8. ASSUME NEW c \in Client, ExecuteRead(c)
        PROVE  \/ Budget!Next
               \/ /\ UNCHANGED <<connection_pool, held>>
                  /\ phase = "connecting" <=> phase' = "connecting"
    <3>1. CASE connection_pool = <<>>
      BY <2>8, <3>1 DEF ExecuteRead
    <3>2. CASE connection_pool # <<>>
      <4>1. phase # "connecting" /\ UNCHANGED <<phase, held>>
        BY <2>8, <3>2 DEF ExecuteRead
      <4>2. free > 0 /\ free' = free - 1
        BY <2>5, <2>8, <3>2, <4>1 DEF ExecuteRead
      <4>3. Budget!Drop
        BY <4>1, <4>2 DEF Budget!Drop
      <4> QED  BY <4>3
    <3> QED  BY <3>1, <3>2
  <2>9. ASSUME NEW c \in Client, NEW x \in held[c], ReleaseConnection(c, x)
        PROVE  Budget!Next
    <3>1. UNCHANGED phase /\ held' = [held EXCEPT ![c] = @ \ {x}]
      BY <2>9 DEF ReleaseConnection
    <3>2. Cardinality(held[c] \ {x}) = Cardinality(held[c]) - 1
      BY FewHeld, OneLessOut
    <3>3. Cardinality(held[c]) > 0
      <4>1. Cardinality(held[c]) \in Nat /\ Cardinality(held[c]) # 0
        BY FewHeld, FS_CardinalityType, FS_EmptySet
      <4> QED  BY <4>1
    <3>4. out' = [out EXCEPT ![c] = @ - 1]
      BY <3>1, <3>2 DEF PoolInv, TypeOK
    <3>5. CASE x \in broken
      <4>1. Budget!Lose(c)
        BY <2>9, <3>1, <3>3, <3>4, <3>5 DEF Budget!Lose, ReleaseConnection
      <4> QED  BY <4>1
    <3>6. CASE x \notin broken
      <4>1. free' = free + 1
        BY <2>9, <3>6, QueueWithOneMore
           DEF ReleaseConnection, PoolInv, TypeOK
      <4>2. Budget!Return(c)
        BY <3>1, <3>3, <3>4, <4>1 DEF Budget!Return
      <4> QED  BY <4>2
    <3> QED  BY <3>5, <3>6
  <2> QED
    BY <2>2, <2>3, <2>4, <2>6, <2>7, <2>8, <2>9
       DEF Next, ConnectStep, ClientStep, vars, Break, Begin,
           WaitForConnection, SpuriousWakeup
<1> QED  BY <1>1, <1>2, PoolInvariant, PTL DEF Spec, BudgetSpec, Budget!Spec
=============================================================================
