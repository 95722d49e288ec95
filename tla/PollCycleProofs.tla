-------------------------- MODULE PollCycleProofs --------------------------
(***************************************************************************)
(* The safety properties of PollCycle, for any number of devices, of       *)
(* targets and of workers, any failures and any width of the counters.     *)
(*                                                                         *)
(* PoolInv says where each answer of a cycle is: with one worker, in       *)
(* resultCh or in what Collect has received, once.  RateInv relates the    *)
(* last counter of a device to the traffic since it was read, InfoInv what *)
(* is known of an interface to the walks that have succeeded.              *)
(***************************************************************************)
EXTENDS PollCycle, FiniteSetTheorems, TLAPS

(* Sequences and their elements. *)

LEMMA AppendFacts ==
  ASSUME NEW S, NEW s \in Seq(S), NEW e \in S
  PROVE  /\ Append(s, e) \in Seq(S) /\ Len(Append(s, e)) = Len(s) + 1
         /\ Range(Append(s, e)) = Range(s) \union {e}
         /\ IsInjective(s) /\ e \notin Range(s) => IsInjective(Append(s, e))
<1>1. /\ Append(s, e) \in Seq(S) /\ Len(Append(s, e)) = Len(s) + 1 /\ Len(s) \in Nat
      /\ DOMAIN s = 1 .. Len(s) /\ DOMAIN Append(s, e) = 1 .. Len(s) + 1
      /\ \A i \in 1 .. Len(s) : Append(s, e)[i] = s[i]
      /\ Append(s, e)[Len(s) + 1] = e
  OBVIOUS
<1> DEFINE t == Append(s, e)
<1> HIDE DEF t
<1>2. Range(t) = Range(s) \union {e}
  BY <1>1 DEF t, Range
<1>3. IsInjective(s) /\ e \notin Range(s) => IsInjective(t)
  <2> SUFFICES ASSUME IsInjective(s), e \notin Range(s),
                      NEW i \in 1 .. Len(s) + 1, NEW j \in 1 .. Len(s) + 1, t[i] = t[j]
               PROVE  i = j
    BY <1>1 DEF t, IsInjective
  <2>1. CASE i <= Len(s) /\ j <= Len(s)
    BY <1>1, <2>1 DEF t, IsInjective
  <2>2. CASE i <= Len(s) /\ j = Len(s) + 1
    BY <1>1, <2>2 DEF t, Range
  <2>3. CASE i = Len(s) + 1 /\ j <= Len(s)
    BY <1>1, <2>3 DEF t, Range
  <2> QED
    BY <1>1, <2>1, <2>2, <2>3
<1> QED
  BY <1>1, <1>2, <1>3 DEF t

LEMMA TailFacts ==
  ASSUME NEW S, NEW s \in Seq(S), s # <<>>
  PROVE  /\ Head(s) \in S /\ Head(s) \in Range(s)
         /\ Tail(s) \in Seq(S) /\ Len(Tail(s)) = Len(s) - 1
         /\ Range(s) = Range(Tail(s)) \union {Head(s)}
         /\ IsInjective(s) => IsInjective(Tail(s)) /\ Head(s) \notin Range(Tail(s))
<1> DEFINE t == Tail(s)
           n == Len(s)
<1>1. /\ n \in Nat /\ n >= 1 /\ DOMAIN s = 1 .. n /\ Head(s) = s[1] /\ s[1] \in S
      /\ t \in Seq(S) /\ Len(t) = n - 1 /\ DOMAIN t = 1 .. n - 1
      /\ \A i \in 1 .. n - 1 : t[i] = s[i + 1]
  OBVIOUS
<1> HIDE DEF t, n
<1>2. \A i \in 2 .. n : i - 1 \in 1 .. n - 1 /\ t[i - 1] = s[i]
  BY <1>1
<1>3. Range(s) = Range(t) \union {s[1]}
  <2>1. Range(t) \subseteq Range(s)
    BY <1>1 DEF Range
  <2>2. ASSUME NEW x \in Range(s), x # s[1] PROVE x \in Range(t)
    <3>1. PICK i \in 1 .. n : x = s[i]
      BY <1>1 DEF Range
    <3>2. i \in 2 .. n
      BY <1>1, <2>2, <3>1
    <3> QED
      BY <1>1, <1>2, <3>1, <3>2 DEF Range
  <2>3. s[1] \in Range(s)
    BY <1>1 DEF Range
  <2> QED
    BY <2>1, <2>2, <2>3
<1>4. ASSUME IsInjective(s) PROVE IsInjective(t) /\ s[1] \notin Range(t)
  <2>0. \A k, l \in 1 .. n : s[k] = s[l] => k = l
    BY <1>1, <1>4 DEF IsInjective
  <2>1. ASSUME NEW i \in 1 .. n - 1, NEW j \in 1 .. n - 1, t[i] = t[j] PROVE i = j
    <3>1. s[i + 1] = s[j + 1] /\ i + 1 \in 1 .. n /\ j + 1 \in 1 .. n
      BY <1>1, <2>1
    <3>2. i + 1 = j + 1
      BY <2>0, <3>1, Zenon
    <3> QED
      BY <3>2
  <2>2. ASSUME NEW i \in 1 .. n - 1, t[i] = s[1] PROVE FALSE
    <3>1. s[i + 1] = s[1] /\ i + 1 \in 1 .. n /\ 1 \in 1 .. n
      BY <1>1, <2>2
    <3>2. i + 1 = 1
      BY <2>0, <3>1, Zenon
    <3> QED
      BY <3>2
  <2> QED
    BY <1>1, <2>1, <2>2 DEF IsInjective, Range
<1> QED
  BY <1>1, <1>3, <1>4 DEF t, n

LEMMA EmptyFacts ==
  ASSUME NEW S
  PROVE  <<>> \in Seq(S) /\ Len(<<>>) = 0 /\ Range(<<>>) = {} /\ IsInjective(<<>>)
  BY DEF Range, IsInjective

(* Without repetition, as many elements as places. *)
LEMMA InjectiveCount ==
  ASSUME NEW S, NEW s \in Seq(S), IsInjective(s)
  PROVE  Cardinality(Range(s)) = Len(s)
<1>1. DOMAIN s = 1 .. Len(s) /\ Len(s) \in Nat
  OBVIOUS
<1>2. s \in [1 .. Len(s) -> Range(s)]
  BY <1>1 DEF Range
<1>3. s \in Bijection(1 .. Len(s), Range(s))
  BY <1>1, <1>2 DEF Bijection, Injection, Surjection, Range
<1>4. IsFiniteSet(1 .. Len(s)) /\ Cardinality(1 .. Len(s)) = Len(s)
  BY <1>1, FS_Interval
<1> QED
  BY <1>3, <1>4, FS_Bijection DEF ExistsBijection
-----------------------------------------------------------------------------
(* The pool *)

States == {Idle, Gone} \union {Working(d) : d \in Devices}
                       \union {Sending(d) : d \in Devices}

Holds(w, d) == worker[w] = Sending(d)

PoolTypes ==
  /\ phase \in {"wait", "collect", "normalize"} /\ (collecting <=> phase = "collect")
  /\ fed \in 0 .. Len(Targets)
  /\ DOMAIN worker = Workers /\ \A w \in Workers : worker[w] \in States
  /\ results \in Seq(Devices) /\ out \in Seq(Devices)
  /\ answered \subseteq Devices
  /\ fedAll \in BOOLEAN /\ resultsDone \in BOOLEAN

(* What has been taken is somewhere, or was skipped. *)
Counted ==
  /\ IsFiniteSet(InHand)
  /\ Len(results) + Len(out) + Cardinality(InHand) <= fed

(* The channels are closed in their order. *)
Closed ==
  /\ resultsDone => \A w \in Workers : worker[w] = Gone
  /\ ~collecting => \A w \in Workers : worker[w] = Gone
  /\ phase = "normalize" => results = <<>>
  /\ phase = "wait" => results = <<>> /\ out = <<>>

Fed == {Targets[i] : i \in 1 .. fed}

(* Every answer is in one place. *)
Placed ==
  /\ answered \subseteq Fed
  /\ \A d \in Devices : d \in answered <=>
       d \in Range(results) \/ d \in Range(out) \/ \E w \in Workers : Holds(w, d)
  /\ IsInjective(results) /\ IsInjective(out)
  /\ \A d \in Range(results) : d \notin Range(out)
  /\ \A w \in Workers, d \in Devices :
       /\ Holds(w, d) => d \notin Range(results) /\ d \notin Range(out)
       /\ worker[w] = Working(d) => d \in Fed /\ d \notin answered
       /\ \A v \in Workers \ {w} :
            /\ Holds(w, d) => ~Holds(v, d)
            /\ worker[w] = Working(d) => worker[v] # Working(d)

PoolInv == PoolTypes /\ Counted /\ Closed /\ (phase # "wait" => Placed)

LEMMA StateFacts ==
  /\ \A d \in Devices : /\ Working(d).does = "work" /\ Working(d).target = d
                        /\ Sending(d).does = "send" /\ Sending(d).result = d
  /\ Idle.does = "idle" /\ Gone.does = "gone"
  /\ \A c, d \in Devices : /\ Working(c) # Sending(d)
                           /\ Working(c) = Working(d) => c = d
                           /\ Sending(c) = Sending(d) => c = d
  /\ \A s \in States : /\ s.does = "idle" => s = Idle
                       /\ s.does = "gone" => s = Gone
                       /\ s.does = "work" => \E d \in Devices : s = Working(d)
                       /\ s.does = "send" => \E d \in Devices : s = Sending(d)
<1>1. \A d \in Devices : /\ Working(d).does = "work" /\ Working(d).target = d
                         /\ Sending(d).does = "send" /\ Sending(d).result = d
  BY DEF Working, Sending
<1>2. Idle.does = "idle" /\ Gone.does = "gone"
  BY DEF Idle, Gone
<1>3. \A c, d \in Devices : /\ Working(c) # Sending(d)
                            /\ Working(c) = Working(d) => c = d
                            /\ Sending(c) = Sending(d) => c = d
  BY <1>1
<1> QED
  BY <1>1, <1>2, <1>3 DEF States

LEMMA TargetFacts ==
  /\ Len(Targets) \in Nat /\ DOMAIN Targets = 1 .. Len(Targets)
  /\ \A i \in 1 .. Len(Targets) : Targets[i] \in Devices
  /\ \A i, j \in 1 .. Len(Targets) : Targets[i] = Targets[j] => i = j
  BY PollAssumption DEF IsInjective

LEMMA PoolInit == Init => PoolInv
<1> SUFFICES ASSUME Init PROVE PoolInv
  OBVIOUS
<1>1. /\ collecting = FALSE /\ fed = 0 /\ fedAll = FALSE /\ resultsDone = FALSE
      /\ worker = [w \in Workers |-> Gone] /\ results = <<>> /\ out = <<>>
      /\ phase = "wait" /\ answered = {}
  BY DEF Init, InitPool
<1>2. PoolTypes
  <2>1. <<>> \in Seq(Devices) /\ Gone \in States
    BY DEF States
  <2>2. 0 \in 0 .. Len(Targets)
    BY TargetFacts
  <2>3. DOMAIN worker = Workers /\ \A w \in Workers : worker[w] \in States
    BY <1>1, <2>1
  <2> QED
    BY <1>1, <2>1, <2>2, <2>3 DEF PoolTypes
<1>3. InHand = {}
  BY <1>1, StateFacts DEF InHand, Does
<1>4. Counted
  BY <1>1, <1>3, FS_EmptySet, EmptyFacts DEF Counted
<1>5. Closed
  BY <1>1 DEF Closed
<1> QED
  BY <1>1, <1>2, <1>4, <1>5 DEF PoolInv

LEMMA CollectKeepsPool == PoolInv /\ BeginCycle => PoolInv'
<1> SUFFICES ASSUME PoolInv, BeginCycle PROVE PoolInv'
  OBVIOUS
<1>1. /\ collecting' = TRUE /\ fed' = 0 /\ fedAll' = FALSE /\ resultsDone' = FALSE
      /\ worker' = [w \in Workers |-> Idle] /\ results' = <<>> /\ out' = <<>>
      /\ phase' = "collect" /\ answered' = {}
  BY DEF BeginCycle, Collect
<1>2. PoolTypes'
  <2>1. <<>> \in Seq(Devices) /\ Idle \in States
    BY DEF States
  <2>2. 0 \in 0 .. Len(Targets)
    BY TargetFacts
  <2>3. DOMAIN worker' = Workers /\ \A w \in Workers : worker'[w] \in States
    BY <1>1, <2>1
  <2> QED
    BY <1>1, <2>1, <2>2, <2>3 DEF PoolTypes
<1>3. InHand' = {}
  BY <1>1, StateFacts DEF InHand, Does
<1>4. Counted'
  BY <1>1, <1>3, FS_EmptySet, EmptyFacts DEF Counted
<1>5. Closed'
  BY <1>1 DEF Closed
<1>6. \A w \in Workers, d \in Devices : worker'[w] # Working(d) /\ ~Holds(w, d)'
  BY <1>1, StateFacts DEF Holds
<1>7. Placed'
  BY <1>1, <1>6, EmptyFacts DEF Placed
<1> QED
  BY <1>2, <1>4, <1>5, <1>7 DEF PoolInv

(* A worker that holds something is at work in a cycle that collects. *)
LEMMA Busy ==
  ASSUME PoolInv, NEW w \in Workers, worker[w] # Gone
  PROVE  collecting /\ ~resultsDone /\ phase = "collect" /\ Placed
  BY DEF PoolInv, PoolTypes, Closed

LEMMA HandOverKeepsPool ==
  ASSUME PoolInv, NEW w \in Workers, HandOver(w), answered' = answered, phase' = phase
  PROVE  PoolInv'
<1> DEFINE d == Targets[fed + 1]
<1>1. PoolTypes /\ Counted /\ Closed
  BY DEF PoolInv
<1>2. /\ worker[w] = Idle /\ fed < Len(Targets) /\ fed' = fed + 1
      /\ worker' = [worker EXCEPT ![w] = Working(d)]
      /\ collecting' = collecting /\ fedAll' = fedAll /\ results' = results
      /\ resultsDone' = resultsDone /\ out' = out
  BY <1>1, StateFacts DEF HandOver, CanHandOver, Does, Become, PoolTypes
<1>3. Placed /\ phase = "collect" /\ collecting /\ ~resultsDone
  BY <1>2, StateFacts, Busy
<1>4. /\ d \in Devices /\ d \notin Fed /\ Fed' = Fed \union {d}
  BY <1>1, <1>2, TargetFacts, SMTT(30) DEF Fed, PoolTypes
<1> HIDE DEF d
<1>5. PoolTypes'
  BY <1>1, <1>2, <1>4, TargetFacts DEF PoolTypes, States
<1>6. InHand' = InHand \union {w}
  <2>1. worker'[w] = Working(d) /\ \A v \in Workers \ {w} : worker'[v] = worker[v]
    BY <1>1, <1>2 DEF PoolTypes
  <2>2. Working(d).does = "work"
    BY <1>4, StateFacts
  <2> QED
    BY <2>1, <2>2, Zenon DEF InHand, Does
<1>7. Counted'
  <2>1. w \notin InHand
    BY <1>2, StateFacts DEF InHand, Does
  <2>2. IsFiniteSet(InHand') /\ Cardinality(InHand') = Cardinality(InHand) + 1
    BY <1>1, <1>6, <2>1, FS_AddElement DEF Counted
  <2>3. Cardinality(InHand) \in Nat /\ Len(results) \in Nat /\ Len(out) \in Nat
    BY <1>1, FS_CardinalityType DEF Counted, PoolTypes
  <2> QED
    BY <1>1, <1>2, <2>2, <2>3 DEF Counted, PoolTypes
<1>8. Closed'
  BY <1>1, <1>2, <1>3 DEF Closed, PoolTypes
<1>9. Placed'
  <2>1. \A v \in Workers, e \in Devices : Holds(v, e)' <=> Holds(v, e)
    BY <1>1, <1>2, <1>4, StateFacts DEF Holds, PoolTypes
  <2>2. \A v \in Workers, e \in Devices :
          worker'[v] = Working(e) <=> \/ v # w /\ worker[v] = Working(e)
                                      \/ v = w /\ e = d
    BY <1>1, <1>2, <1>4, StateFacts DEF PoolTypes
  <2> QED
    BY <1>2, <1>3, <1>4, <2>1, <2>2 DEF Placed
<1> QED
  BY <1>5, <1>7, <1>8, <1>9 DEF PoolInv

(* The ping or the walks of the target of w end, with an answer or without. *)
LEMMA WorkKeepsPool ==
  ASSUME PoolInv, NEW w \in Workers, NEW r, Work(w, r), phase' = phase,
         \/ r = NoResult /\ answered' = answered
         \/ r = worker[w].target /\ answered' = answered \union {r}
  PROVE  PoolInv'
<1>1. PoolTypes /\ Counted /\ Closed
  BY DEF PoolInv
<1>2. PICK d \in Devices : worker[w] = Working(d)
  BY <1>1, StateFacts DEF Work, Does, PoolTypes
<1> DEFINE s == IF r = NoResult THEN Idle ELSE Sending(d)
<1>3. /\ worker' = [worker EXCEPT ![w] = s] /\ fed' = fed
      /\ collecting' = collecting /\ fedAll' = fedAll /\ results' = results
      /\ resultsDone' = resultsDone /\ out' = out
      /\ answered' = IF r = NoResult THEN answered ELSE answered \union {d}
  <2>1. worker[w].target = d /\ d # NoResult
    BY <1>2, StateFacts, PollAssumption
  <2>2. r = NoResult \/ r = d
    BY <2>1
  <2>3. answered' = IF r = NoResult THEN answered ELSE answered \union {d}
    BY <2>1
  <2> QED
    BY <2>2, <2>3 DEF Work, Become
<1>4. Placed /\ phase = "collect" /\ collecting /\ ~resultsDone
  BY <1>2, StateFacts, Busy
<1>5. s \in States /\ s # Gone /\ \A e \in Devices :
        s # Working(e) /\ (s = Sending(e) <=> e = d /\ r # NoResult)
  BY StateFacts DEF States
<1> HIDE DEF s
<1>6. PoolTypes'
  BY <1>1, <1>3, <1>5 DEF PoolTypes
<1>7. Counted'
  <2>1. InHand' = InHand \/ InHand' = InHand \ {w}
    BY <1>1, <1>2, <1>3, StateFacts DEF InHand, Does, PoolTypes
  <2>2. w \in InHand
    BY <1>2, StateFacts DEF InHand, Does
  <2>3. IsFiniteSet(InHand') /\ Cardinality(InHand') <= Cardinality(InHand)
        /\ Cardinality(InHand') \in Nat /\ Cardinality(InHand) \in Nat
    <3>1. IsFiniteSet(InHand) /\ Cardinality(InHand) \in Nat
      BY <1>1, FS_CardinalityType DEF Counted
    <3>2. IsFiniteSet(InHand \ {w}) /\ Cardinality(InHand \ {w}) = Cardinality(InHand) - 1
      BY <2>2, <3>1, FS_RemoveElement
    <3>3. Cardinality(InHand \ {w}) \in Nat
      BY <3>2, FS_CardinalityType
    <3> QED
      BY <2>1, <3>1, <3>2, <3>3
  <2>4. Len(results) \in Nat /\ Len(out) \in Nat
    BY <1>1 DEF PoolTypes
  <2> QED
    BY <1>1, <1>3, <2>3, <2>4 DEF Counted, PoolTypes
<1>8. Closed'
  BY <1>1, <1>3, <1>4 DEF Closed, PoolTypes
<1>9. Placed'
  <2>1. \A v \in Workers, e \in Devices :
          Holds(v, e)' <=> \/ v # w /\ Holds(v, e)
                           \/ v = w /\ e = d /\ r # NoResult
    BY <1>1, <1>3, <1>5 DEF Holds, PoolTypes
  <2>2. \A v \in Workers, e \in Devices :
          worker'[v] = Working(e) <=> v # w /\ worker[v] = Working(e)
    BY <1>1, <1>3, <1>5 DEF PoolTypes
  <2>3. d \in Fed /\ d \notin answered /\ \A v \in Workers \ {w} : worker[v] # Working(d)
    BY <1>2, <1>4 DEF Placed
  <2>4. \A v \in Workers : ~Holds(v, d)
    BY <1>4, <2>3 DEF Placed
  <2>5. ~Holds(w, d) /\ \A e \in Devices : ~Holds(w, e)
    BY <1>2, StateFacts DEF Holds
  <2>6. Fed' = Fed
    BY <1>3 DEF Fed
  <2>7. answered' \subseteq Fed'
    BY <1>3, <1>4, <2>3, <2>6 DEF Placed
  <2>8. \A e \in Devices : e \in answered' <=>
          e \in Range(results) \/ e \in Range(out) \/ \E v \in Workers : Holds(v, e)'
    BY <1>3, <1>4, <2>1, <2>5 DEF Placed
  <2>9. \A v \in Workers, e \in Devices :
          /\ Holds(v, e)' => e \notin Range(results) /\ e \notin Range(out)
          /\ worker'[v] = Working(e) => e \in Fed' /\ e \notin answered'
          /\ \A u \in Workers \ {v} :
               /\ Holds(v, e)' => ~Holds(u, e)'
               /\ worker'[v] = Working(e) => worker'[u] # Working(e)
    <3> SUFFICES ASSUME NEW v \in Workers, NEW e \in Devices
        PROVE /\ Holds(v, e)' => e \notin Range(results) /\ e \notin Range(out)
              /\ worker'[v] = Working(e) => e \in Fed' /\ e \notin answered'
              /\ \A u \in Workers \ {v} :
                   /\ Holds(v, e)' => ~Holds(u, e)'
                   /\ worker'[v] = Working(e) => worker'[u] # Working(e)
      OBVIOUS
    <3>1. Holds(v, e)' => e \notin Range(results) /\ e \notin Range(out)
      BY <1>4, <2>1, <2>3 DEF Placed
    <3>2. worker'[v] = Working(e) => e \in Fed' /\ e \notin answered'
      BY <1>2, <1>3, <1>4, <2>2, <2>3, <2>6 DEF Placed
    <3>3. \A u \in Workers \ {v} : Holds(v, e)' => ~Holds(u, e)'
      BY <1>4, <2>1, <2>4 DEF Placed
    <3>4. \A u \in Workers \ {v} : worker'[v] = Working(e) => worker'[u] # Working(e)
      BY <1>4, <2>2 DEF Placed
    <3> QED
      BY <3>1, <3>2, <3>3, <3>4
  <2>10. results' = results /\ out' = out
    BY <1>3
  <2> QED
    BY <1>4, <2>7, <2>8, <2>9, <2>10 DEF Placed
<1> QED
  BY <1>6, <1>7, <1>8, <1>9 DEF PoolInv

LEMMA SendKeepsPool ==
  ASSUME PoolInv, NEW w \in Workers, Send(w), answered' = answered, phase' = phase
  PROVE  PoolInv'
<1>1. PoolTypes /\ Counted /\ Closed
  BY DEF PoolInv
<1>2. PICK d \in Devices : worker[w] = Sending(d)
  BY <1>1, StateFacts DEF Send, CanSend, Does, PoolTypes
<1>3. /\ worker' = [worker EXCEPT ![w] = Idle] /\ fed' = fed
      /\ collecting' = collecting /\ fedAll' = fedAll /\ results' = Append(results, d)
      /\ resultsDone' = resultsDone /\ out' = out
  BY <1>2, StateFacts DEF Send, CanSend, Become
<1>4. Placed /\ phase = "collect" /\ collecting /\ ~resultsDone
  BY <1>2, StateFacts, Busy
<1>5. Idle \in States /\ Idle # Gone
      /\ \A e \in Devices : Idle # Working(e) /\ Idle # Sending(e)
  BY StateFacts DEF States
<1>6. results \in Seq(Devices) /\ out \in Seq(Devices)
  BY <1>1 DEF PoolTypes
<1>7. /\ results' \in Seq(Devices) /\ Len(results') = Len(results) + 1
      /\ Range(results') = Range(results) \union {d}
      /\ IsInjective(results) /\ d \notin Range(results) => IsInjective(results')
  BY <1>3, <1>6, AppendFacts
<1>8. PoolTypes'
  BY <1>1, <1>3, <1>5, <1>7 DEF PoolTypes
<1>9. Counted'
  <2>1. InHand' = InHand \ {w}
    BY <1>1, <1>2, <1>3, StateFacts DEF InHand, Does, PoolTypes
  <2>2. w \in InHand
    BY <1>2, StateFacts DEF InHand, Does
  <2>3. IsFiniteSet(InHand) /\ Cardinality(InHand) \in Nat
    BY <1>1, FS_CardinalityType DEF Counted
  <2>4. IsFiniteSet(InHand') /\ Cardinality(InHand') = Cardinality(InHand) - 1
    BY <2>1, <2>2, <2>3, FS_RemoveElement
  <2>5. Len(results) \in Nat /\ Len(out) \in Nat
    BY <1>6
  <2> QED
    BY <1>1, <1>3, <1>7, <2>3, <2>4, <2>5 DEF Counted, PoolTypes
<1>10. Closed'
  BY <1>1, <1>3, <1>4 DEF Closed, PoolTypes
<1>11. Placed'
  <2>1. \A v \in Workers, e \in Devices : Holds(v, e)' <=> v # w /\ Holds(v, e)
    BY <1>1, <1>3, <1>5 DEF Holds, PoolTypes
  <2>2. \A v \in Workers, e \in Devices :
          worker'[v] = Working(e) <=> v # w /\ worker[v] = Working(e)
    BY <1>1, <1>3, <1>5 DEF PoolTypes
  <2>3. Holds(w, d) /\ \A e \in Devices : Holds(w, e) => e = d
    BY <1>2, StateFacts DEF Holds
  <2>4. d \notin Range(results) /\ d \notin Range(out) /\ \A v \in Workers \ {w} : ~Holds(v, d)
    BY <1>4, <2>3 DEF Placed
  <2>5. Fed' = Fed
    BY <1>3 DEF Fed
  <2>6. IsInjective(results')
    BY <1>4, <1>7, <2>4 DEF Placed
  <2>7. \A e \in Devices : e \in answered' <=>
          e \in Range(results') \/ e \in Range(out') \/ \E v \in Workers : Holds(v, e)'
    BY <1>3, <1>4, <1>7, <2>1, <2>3 DEF Placed
  <2>8. \A e \in Range(results') : e \notin Range(out')
    BY <1>3, <1>4, <1>7, <2>4 DEF Placed
  <2>9. \A v \in Workers, e \in Devices :
          /\ Holds(v, e)' => e \notin Range(results') /\ e \notin Range(out')
          /\ worker'[v] = Working(e) => e \in Fed' /\ e \notin answered'
          /\ \A u \in Workers \ {v} :
               /\ Holds(v, e)' => ~Holds(u, e)'
               /\ worker'[v] = Working(e) => worker'[u] # Working(e)
    BY <1>3, <1>4, <1>7, <2>1, <2>2, <2>4, <2>5 DEF Placed
  <2> QED
    BY <1>3, <1>4, <2>5, <2>6, <2>7, <2>8, <2>9 DEF Placed
<1> QED
  BY <1>8, <1>9, <1>10, <1>11 DEF PoolInv

(* Steps of the pool that neither take nor hand on an answer. *)
LEMMA CloseKeepsPool ==
  ASSUME PoolInv, answered' = answered, phase' = phase,
         CloseTargets \/ CloseResults \/ \E w \in Workers : Leave(w)
  PROVE  PoolInv'
<1>1. PoolTypes /\ Counted /\ Closed /\ collecting
  BY DEF PoolInv, CloseTargets, CanCloseTargets, CloseResults, CanCloseResults, Leave, CanLeave
<1>2. Placed /\ phase = "collect"
  BY <1>1 DEF PoolInv, PoolTypes
<1>3. UNCHANGED <<collecting, fed, results, out>>
  BY DEF CloseTargets, CanCloseTargets, CloseResults, CanCloseResults, Leave, CanLeave
<1>4. \A w \in Workers : worker'[w] = worker[w] \/ (worker[w] = Idle /\ worker'[w] = Gone)
  <2>1. CASE CloseTargets \/ CloseResults
    BY <2>1 DEF CloseTargets, CanCloseTargets, CloseResults, CanCloseResults
  <2>2. ASSUME NEW v \in Workers, Leave(v), NEW w \in Workers
        PROVE  worker'[w] = worker[w] \/ (worker[w] = Idle /\ worker'[w] = Gone)
    <3>1. worker' = [worker EXCEPT ![v] = Gone] /\ worker[v].does = "idle"
      BY <2>2 DEF Leave, CanLeave, Does, Become
    <3>2. worker[v] = Idle /\ DOMAIN worker = Workers
      BY <1>1, <3>1, StateFacts DEF PoolTypes
    <3> QED
      BY <3>1, <3>2
  <2> QED
    BY <2>1, <2>2
<1>5. /\ DOMAIN worker' = Workers /\ fedAll' \in BOOLEAN /\ resultsDone' \in BOOLEAN
      /\ resultsDone' => \A w \in Workers : worker'[w] = Gone
  <2>1. CASE CloseTargets
    BY <1>1, <2>1 DEF CloseTargets, CanCloseTargets, PoolTypes, Closed
  <2>2. CASE CloseResults
    BY <1>1, <2>2, StateFacts DEF CloseResults, CanCloseResults, Does, PoolTypes
  <2>3. CASE \E w \in Workers : Leave(w)
    BY <1>1, <2>3, StateFacts DEF Leave, CanLeave, Become, PoolTypes, Closed
  <2> QED
    BY <2>1, <2>2, <2>3
<1>6. Gone \in States /\ \A d \in Devices : /\ Gone # Working(d) /\ Gone # Sending(d)
                                            /\ Idle # Working(d) /\ Idle # Sending(d)
  BY StateFacts DEF States
<1>7. PoolTypes'
  BY <1>1, <1>3, <1>4, <1>5, <1>6 DEF PoolTypes
<1>8. InHand' = InHand
  BY <1>4, StateFacts DEF InHand, Does
<1>9. Counted'
  BY <1>1, <1>3, <1>8 DEF Counted
<1>10. Closed'
  BY <1>1, <1>2, <1>3, <1>5 DEF Closed
<1>11. Fed' = Fed
  BY <1>3 DEF Fed
<1>12. \A w \in Workers, d \in Devices : /\ Holds(w, d)' <=> Holds(w, d)
                                         /\ worker'[w] = Working(d) <=> worker[w] = Working(d)
  BY <1>4, <1>6 DEF Holds
<1>13. Placed'
  BY <1>2, <1>3, <1>11, <1>12 DEF Placed
<1> QED
  BY <1>7, <1>9, <1>10, <1>13 DEF PoolInv

LEMMA ReceiveKeepsPool ==
  ASSUME PoolInv, Receive, answered' = answered, phase' = phase
  PROVE  PoolInv'
<1> DEFINE d == Head(results)
<1>1. PoolTypes /\ Counted /\ Closed /\ collecting
  BY DEF PoolInv, Receive, CanReceive
<1>2. Placed /\ phase = "collect"
  BY <1>1 DEF PoolInv, PoolTypes
<1>3. /\ UNCHANGED <<collecting, fed, worker, fedAll, resultsDone>>
      /\ results # <<>> /\ results' = Tail(results) /\ out' = Append(out, d)
  BY DEF Receive, CanReceive
<1>4. results \in Seq(Devices) /\ out \in Seq(Devices) /\ Len(results) \in Nat /\ Len(out) \in Nat
  BY <1>1 DEF PoolTypes
<1>5. /\ d \in Devices /\ results' \in Seq(Devices) /\ Len(results') = Len(results) - 1
      /\ Range(results) = Range(results') \union {d}
      /\ IsInjective(results) => IsInjective(results') /\ d \notin Range(results')
  BY <1>3, <1>4, TailFacts
<1> HIDE DEF d
<1>6. /\ out' \in Seq(Devices) /\ Len(out') = Len(out) + 1
      /\ Range(out') = Range(out) \union {d}
      /\ IsInjective(out) /\ d \notin Range(out) => IsInjective(out')
  BY <1>3, <1>4, <1>5, AppendFacts
<1>7. PoolTypes'
  BY <1>1, <1>3, <1>5, <1>6 DEF PoolTypes
<1>8. Counted'
  <2>1. InHand' = InHand
    BY <1>3 DEF InHand, Does
  <2>2. Cardinality(InHand) \in Nat
    BY <1>1, FS_CardinalityType DEF Counted
  <2> QED
    BY <1>1, <1>3, <1>4, <1>5, <1>6, <2>1, <2>2 DEF Counted, PoolTypes
<1>9. Closed'
  BY <1>1, <1>2, <1>3 DEF Closed, PoolTypes
<1>10. Placed'
  <2>1. Fed' = Fed /\ worker' = worker
    BY <1>3 DEF Fed
  <2>2. \A w \in Workers, e \in Devices : Holds(w, e)' <=> Holds(w, e)
    BY <2>1 DEF Holds
  <2>3. IsInjective(results') /\ IsInjective(out') /\ d \notin Range(results')
        /\ d \notin Range(out)
    BY <1>2, <1>5, <1>6 DEF Placed
  <2>4. \A e \in Range(results') : e \notin Range(out')
    BY <1>2, <1>5, <1>6, <2>3 DEF Placed
  <2>5. \A e : e \in Range(results') \/ e \in Range(out')
                 <=> e \in Range(results) \/ e \in Range(out)
    BY <1>5, <1>6
  <2> QED
    BY <1>2, <2>1, <2>2, <2>3, <2>4, <2>5 DEF Placed
<1> QED
  BY <1>7, <1>8, <1>9, <1>10 DEF PoolInv

(* The steps from Collect to Normalize and to the next cycle. *)
LEMMA EndCollectKeepsPool == PoolInv /\ EndCollect => PoolInv'
<1> SUFFICES ASSUME PoolInv, EndCollect PROVE PoolInv'
  OBVIOUS
<1>1. PoolTypes /\ Counted /\ Closed /\ collecting
  BY DEF PoolInv, EndCollect, CollectReturns, CanReturn
<1>2. Placed
  BY <1>1 DEF PoolInv, PoolTypes
<1>3. /\ UNCHANGED <<fed, worker, fedAll, results, resultsDone, out, answered>>
      /\ collecting' = FALSE /\ phase' = "normalize" /\ resultsDone /\ results = <<>>
  BY DEF EndCollect, CollectReturns, CanReturn
<1>4. PoolTypes'
  BY <1>1, <1>3 DEF PoolTypes
<1>5. InHand' = InHand
  BY <1>3 DEF InHand, Does
<1>6. Counted' /\ Closed'
  BY <1>1, <1>3, <1>5 DEF Counted, Closed
<1>7. Placed'
  BY <1>2, <1>3 DEF Placed, Fed, Holds
<1> QED
  BY <1>4, <1>6, <1>7 DEF PoolInv

LEMMA BetweenKeepsPool == PoolInv /\ (EndCycle \/ Reload) => PoolInv'
<1> SUFFICES ASSUME PoolInv, EndCycle \/ Reload PROVE PoolInv'
  OBVIOUS
<1>1. PoolTypes /\ Counted /\ Closed
  BY DEF PoolInv
<1>2. /\ UNCHANGED <<collecting, fed, worker, fedAll, results, resultsDone>>
      /\ phase # "collect" /\ phase' = "wait" /\ out' = <<>>
      /\ answered' \in {answered, {}}
  BY <1>1 DEF EndCycle, Reload, pool, Closed
<1>3. results = <<>> /\ ~collecting
  BY <1>1, <1>2 DEF PoolTypes, Closed
<1>4. <<>> \in Seq(Devices) /\ Len(<<>>) = 0
  OBVIOUS
<1>5. PoolTypes'
  BY <1>1, <1>2, <1>3, <1>4 DEF PoolTypes
<1>6. InHand' = InHand
  BY <1>2 DEF InHand, Does
<1>7. Counted'
  <2>1. Cardinality(InHand) \in Nat /\ Len(out) \in Nat
    BY <1>1, FS_CardinalityType DEF Counted, PoolTypes
  <2> QED
    BY <1>1, <1>2, <1>3, <1>4, <1>6, <2>1 DEF Counted, PoolTypes
<1>8. Closed'
  BY <1>1, <1>2, <1>3 DEF Closed
<1> QED
  BY <1>2, <1>5, <1>7, <1>8 DEF PoolInv

LEMMA PoolStepKeeps == PoolInv /\ [Next]_vars => PoolInv'
<1> SUFFICES ASSUME PoolInv, [Next]_vars PROVE PoolInv'
  OBVIOUS
<1>1. CASE BeginCycle
  BY <1>1, CollectKeepsPool
<1>2. CASE Pool
  <2>1. answered' = answered /\ phase' = phase
    BY <1>2 DEF Pool
  <2>2. CASE \E w \in Workers : HandOver(w)
    BY <2>1, <2>2, HandOverKeepsPool
  <2>3. CASE \E w \in Workers : Send(w)
    BY <2>1, <2>3, SendKeepsPool
  <2>4. CASE CloseTargets \/ CloseResults \/ \E w \in Workers : Leave(w)
    BY <2>1, <2>4, CloseKeepsPool
  <2>5. CASE Receive
    BY <2>1, <2>5, ReceiveKeepsPool
  <2> QED
    BY <1>2, <2>2, <2>3, <2>4, <2>5 DEF Pool, PoolStep
<1>3. CASE EndCollect
  BY <1>3, EndCollectKeepsPool
<1>4. CASE EndCycle \/ Reload
  BY <1>4, BetweenKeepsPool
<1>5. ASSUME NEW w \in Workers, Poll(w) PROVE PoolInv'
  <2>1. Work(w, worker[w].target) /\ phase' = phase
        /\ answered' = answered \union {worker[w].target}
    BY <1>5 DEF Poll
  <2> QED
    BY <2>1, WorkKeepsPool
<1>6. ASSUME NEW w \in Workers, Skip(w) PROVE PoolInv'
  <2>1. Work(w, NoResult) /\ phase' = phase /\ answered' = answered
    BY <1>6 DEF Skip
  <2> QED
    BY <2>1, WorkKeepsPool
<1>7. CASE UNCHANGED vars
  BY <1>7 DEF vars, pool, PoolInv, PoolTypes, Counted, InHand, Does, Closed, Placed, Fed, Holds
<1> QED
  BY <1>1, <1>2, <1>3, <1>4, <1>5, <1>6, <1>7 DEF Next, Cycle

(* In every reachable state each answer of the cycle is in one place. *)
THEOREM PoolInvariant == Spec => []PoolInv
  BY PoolInit, PoolStepKeeps, PTL DEF Spec

LEMMA NothingLost == PoolInv => NoAnswerIsLost
<1> SUFFICES ASSUME PoolInv, phase = "normalize"
             PROVE  Collected = answered /\ Len(out) = Cardinality(answered)
  BY DEF NoAnswerIsLost
<1>1. PoolTypes /\ Closed /\ Placed
  BY DEF PoolInv
<1>2. results = <<>> /\ \A w \in Workers : worker[w] = Gone
  BY <1>1 DEF PoolTypes, Closed
<1>3. \A w \in Workers, d \in Devices : ~Holds(w, d)
  BY <1>2, StateFacts DEF Holds
<1>4. Range(results) = {}
  BY <1>2, EmptyFacts
<1>5. Range(out) \subseteq Devices
  BY <1>1 DEF PoolTypes, Range
<1>6. Range(out) = answered
  BY <1>1, <1>3, <1>4, <1>5 DEF Placed, PoolTypes
<1>7. Cardinality(Range(out)) = Len(out)
  BY <1>1, InjectiveCount DEF PoolTypes, Placed
<1> QED
  BY <1>6, <1>7 DEF Collected

(* When Collect returns, it has the answer of every device that answered, once:
   icmp_collector.go:62-121, snmp_collector.go:90-173. *)
THEOREM AnswersArrive == Spec => []NoAnswerIsLost
  BY PoolInvariant, NothingLost, PTL

(* A result is sent on an open channel with room for it:
   icmp_collector.go:70-121, snmp_collector.go:99-173. *)
THEOREM SendsArePossible == Spec => []SendsGoThrough
<1>1. PoolInv => SendsGoThrough
  <2> SUFFICES ASSUME PoolInv, NEW w \in Workers, Does(w, "send")
               PROVE  ~resultsDone /\ Len(results) < Len(Targets)
    BY DEF SendsGoThrough, CanSend
  <2>1. ~resultsDone
    BY StateFacts DEF PoolInv, Closed, Does
  <2>2. /\ IsFiniteSet(InHand) /\ w \in InHand
        /\ Len(results) + Len(out) + Cardinality(InHand) <= fed
        /\ fed \in 0 .. Len(Targets) /\ Len(results) \in Nat /\ Len(out) \in Nat
    BY DEF PoolInv, PoolTypes, Counted, InHand
  <2>3. Cardinality(InHand) \in Nat /\ Cardinality(InHand) # 0
    BY <2>2, FS_CardinalityType, FS_EmptySet
  <2> QED
    BY <2>1, <2>2, <2>3, TargetFacts
<1> QED
  BY <1>1, PoolInvariant, PTL
-----------------------------------------------------------------------------
(* The end of a collection *)

(* The workers stay until targetCh is closed. *)
Staying == collecting /\ ~fedAll => \A w \in Workers : worker[w] # Gone

LEMMA StayingStep == PoolInv /\ Staying /\ [Next]_vars => Staying'
<1> SUFFICES ASSUME PoolInv, Staying, [Next]_vars, collecting', ~fedAll', NEW v \in Workers
             PROVE  worker'[v] # Gone
  BY DEF Staying
<1>1. DOMAIN worker = Workers /\ \A w \in Workers : worker[w] \in States
  BY DEF PoolInv, PoolTypes
<1>2. \A d : Idle # Gone /\ Working(d) # Gone /\ Sending(d) # Gone
  BY DEF Idle, Gone, Working, Sending
<1>3. CASE BeginCycle
  BY <1>2, <1>3 DEF BeginCycle, Collect
<1>4. CASE CloseTargets \/ CloseResults \/ Receive \/ UNCHANGED vars
  BY <1>4 DEF CloseTargets, CanCloseTargets, CloseResults, CanCloseResults, Receive, CanReceive, vars, pool, Staying
<1>5. CASE EndCollect \/ EndCycle \/ Reload
  BY <1>5 DEF EndCollect, CollectReturns, CanReturn, EndCycle, Reload, pool, Staying
<1>6. ASSUME NEW w \in Workers, Leave(w) PROVE FALSE
  BY <1>6 DEF Leave, CanLeave
<1>7. ASSUME NEW w \in Workers, NEW s, s # Gone, Become(w, s),
             UNCHANGED <<collecting, fedAll>>
      PROVE  worker'[v] # Gone
  BY <1>1, <1>7 DEF Become, Staying
<1>8. ASSUME NEW w \in Workers, HandOver(w) \/ Send(w) \/ Poll(w) \/ Skip(w)
      PROVE  worker'[v] # Gone
  <2>1. \E s : s # Gone /\ Become(w, s)
    <3>1. CASE HandOver(w)
      BY <1>2, <3>1 DEF HandOver, CanHandOver
    <3>2. CASE Send(w)
      BY <1>2, <3>2 DEF Send, CanSend
    <3>3. CASE Poll(w) \/ Skip(w)
      BY <1>2, <3>3 DEF Poll, Skip, Work
    <3> QED
      BY <1>8, <3>1, <3>2, <3>3
  <2>2. UNCHANGED <<collecting, fedAll>>
    BY <1>8 DEF HandOver, CanHandOver, Send, CanSend, Poll, Skip, Work
  <2> QED
    BY <1>7, <2>1, <2>2
<1> QED
  BY <1>3, <1>4, <1>5, <1>6, <1>8 DEF Next, Cycle, Pool, PoolStep

(* In every reachable state the workers stay as long as they may be needed. *)
THEOREM StayingInvariant == Spec => []Staying
<1>1. Init => Staying
  BY DEF Init, InitPool, Staying
<1> QED
  BY <1>1, StayingStep, PoolInvariant, PTL DEF Spec

(* Feeder, workers and Collect never all wait for one another, whatever each
   target answers: icmp_collector.go:70-121, snmp_collector.go:99-173. *)
THEOREM CollectCannotStick == Spec => []CollectNeverStuck
<1>1. PoolInv /\ Staying /\ SendsGoThrough => CollectNeverStuck
  <2> SUFFICES ASSUME PoolInv, Staying, SendsGoThrough, collecting PROVE Unblocked
    BY DEF CollectNeverStuck
  <2>1. /\ fed \in 0 .. Len(Targets) /\ Len(Targets) \in Nat
        /\ \A w \in Workers : worker[w] \in States
    BY TargetFacts DEF PoolInv, PoolTypes
  <2>2. CASE \E w \in Workers : Does(w, "idle")
    BY <2>1, <2>2 DEF Unblocked, CanHandOver, CanLeave, CanCloseTargets
  <2>3. CASE \E w \in Workers : Does(w, "work") \/ Does(w, "send")
    BY <2>3 DEF Unblocked, SendsGoThrough
  <2>4. CASE \A w \in Workers : worker[w] = Gone
    <3>1. fedAll
      BY <2>4, PollAssumption DEF Staying
    <3>2. \A w \in Workers : Does(w, "gone")
      BY <2>4, StateFacts DEF Does
    <3> QED
      BY <3>1, <3>2 DEF Unblocked, CanCloseResults, CanReceive, CanReturn
  <2>5. \A w \in Workers : worker[w] = Gone \/ Does(w, "idle")
                              \/ Does(w, "work") \/ Does(w, "send")
    BY <2>1, StateFacts DEF States, Does
  <2> QED
    BY <2>2, <2>3, <2>4, <2>5
<1> QED
  BY <1>1, PoolInvariant, StayingInvariant, SendsArePossible, PTL

(* How many workers do this, when each does what f says. *)
Count(f, what) == Cardinality({w \in Workers : f[w].does = what})

LEMMA CountType == \A f, what : Count(f, what) \in Nat
<1> SUFFICES ASSUME NEW f, NEW what PROVE Count(f, what) \in Nat
  OBVIOUS
<1>1. {w \in Workers : f[w].does = what} \subseteq Workers
  OBVIOUS
<1> QED
  BY <1>1, PollAssumption, FS_Subset, FS_CardinalityType DEF Count

(* From f to g worker w goes from one activity to another. *)
Goes(f, g, w, a, b) ==
  /\ w \in Workers /\ f[w].does = a /\ g[w].does = b /\ a # b
  /\ \A v \in Workers \ {w} : g[v] = f[v]

LEMMA GoesCounts ==
  ASSUME NEW f, NEW g, NEW w, NEW a, NEW b, Goes(f, g, w, a, b)
  PROVE  /\ Count(g, a) = Count(f, a) - 1 /\ Count(g, b) = Count(f, b) + 1
         /\ \A c : c \notin {a, b} => Count(g, c) = Count(f, c)
<1> DEFINE In(h, what) == {v \in Workers : h[v].does = what}
<1>1. /\ In(g, a) = In(f, a) \ {w} /\ w \in In(f, a)
      /\ In(g, b) = In(f, b) \union {w} /\ w \notin In(f, b)
      /\ \A c : c \notin {a, b} => In(g, c) = In(f, c)
  BY DEF Goes
<1>2. IsFiniteSet(In(f, a)) /\ IsFiniteSet(In(f, b))
  <2>1. In(f, a) \subseteq Workers /\ In(f, b) \subseteq Workers
    OBVIOUS
  <2> QED
    BY <2>1, PollAssumption, FS_Subset
<1>3. \A h, what : Count(h, what) = Cardinality(In(h, what))
  BY DEF Count
<1> HIDE DEF In
<1>4. Cardinality(In(f, a) \ {w}) = Cardinality(In(f, a)) - 1
  BY <1>1, <1>2, FS_RemoveElement
<1>5. Cardinality(In(f, b) \union {w}) = Cardinality(In(f, b)) + 1
  BY <1>1, <1>2, FS_AddElement
<1> QED
  BY <1>1, <1>3, <1>4, <1>5

Flag(done) == IF done THEN 0 ELSE 1

(* WorkLeft in terms of what may change. *)
Left(n, f, m) ==
  4 * (Len(Targets) - n) + 4 * Count(f, "work") + 3 * Count(f, "send")
    + Count(f, "idle") + m

Closing == Len(results) + Flag(fedAll) + Flag(resultsDone)

LEMMA WorkLeftIs ==
  WorkLeft = Left(fed, worker, Closing) /\ WorkLeft' = Left(fed', worker', Closing')
  BY DEF WorkLeft, Left, Closing, Count, Flag, Does

LEMMA LeftType ==
  ASSUME NEW n \in 0 .. Len(Targets), NEW f, NEW m \in Nat
  PROVE  Left(n, f, m) \in Nat
<1>1. Count(f, "work") \in Nat /\ Count(f, "send") \in Nat /\ Count(f, "idle") \in Nat
  BY CountType
<1>2. \A i, j, k \in Nat : 4 * (Len(Targets) - n) + 4 * i + 3 * j + k + m \in Nat
  BY TargetFacts
<1> QED
  BY <1>1, <1>2 DEF Left

(* How changes of its terms change the sum. *)
LEMMA LeftFalls ==
  ASSUME NEW n \in 0 .. Len(Targets), NEW f, NEW m \in Nat, NEW g,
         NEW i \in Int, NEW x \in Int, NEW y \in Int, NEW j \in Int, NEW k \in Int,
         Count(g, "idle") = Count(f, "idle") + i, Count(g, "work") = Count(f, "work") + x,
         Count(g, "send") = Count(f, "send") + y,
         i + 4 * x + 3 * y + k - 4 * j < 0
  PROVE  Left(n + j, g, m + k) < Left(n, f, m)
<1>1. Count(f, "work") \in Nat /\ Count(f, "send") \in Nat /\ Count(f, "idle") \in Nat
  BY CountType
<1>2. \A p, q, s \in Nat :
        4 * (Len(Targets) - (n + j)) + 4 * (p + x) + 3 * (q + y) + (s + i) + (m + k)
          < 4 * (Len(Targets) - n) + 4 * p + 3 * q + s + m
  BY TargetFacts
<1> QED
  BY <1>1, <1>2 DEF Left

LEMMA FlagType == \A b : Flag(b) \in {0, 1}
  BY DEF Flag

LEMMA WorkLeftType ==
  /\ PoolTypes => WorkLeft \in Nat
  /\ PoolTypes' => WorkLeft' \in Nat
<1>1. ASSUME PoolTypes PROVE fed \in 0 .. Len(Targets) /\ Closing \in Nat
  <2>1. fed \in 0 .. Len(Targets) /\ Len(results) \in Nat
    BY <1>1 DEF PoolTypes
  <2> QED
    BY <2>1, FlagType DEF Closing
<1>2. ASSUME PoolTypes' PROVE fed' \in 0 .. Len(Targets) /\ Closing' \in Nat
  <2>1. fed' \in 0 .. Len(Targets) /\ Len(results') \in Nat
    BY <1>2 DEF PoolTypes
  <2> QED
    BY <2>1, FlagType DEF Closing
<1> QED
  BY <1>1, <1>2, LeftType, WorkLeftIs

LEMMA WorkLeftFalls == PoolInv /\ Cycle /\ collecting /\ collecting' => WorkLeft' < WorkLeft
<1> SUFFICES ASSUME PoolInv, Cycle, collecting, collecting' PROVE WorkLeft' < WorkLeft
  OBVIOUS
<1>1. /\ fed \in 0 .. Len(Targets) /\ Len(Targets) \in Nat /\ DOMAIN worker = Workers
      /\ results \in Seq(Devices) /\ Len(results) \in Nat
      /\ \A w \in Workers : worker[w] \in States
  BY TargetFacts DEF PoolInv, PoolTypes
<1>2. \A f, what : Count(f, what) \in Nat
  BY CountType
<1>3. Flag(fedAll) \in {0, 1} /\ Flag(resultsDone) \in {0, 1} /\ Closing \in Nat
  BY <1>1, FlagType DEF Closing
<1>4. ASSUME NEW w, NEW a, NEW b, Goes(worker, worker', w, a, b),
             UNCHANGED <<fedAll, resultsDone>>,
             \/ a = "idle" /\ b = "work" /\ fed' = fed + 1 /\ Len(results') = Len(results)
             \/ a = "work" /\ b = "idle" /\ fed' = fed /\ Len(results') = Len(results)
             \/ a = "work" /\ b = "send" /\ fed' = fed /\ Len(results') = Len(results)
             \/ a = "send" /\ b = "idle" /\ fed' = fed /\ Len(results') = Len(results) + 1
             \/ a = "idle" /\ b = "gone" /\ fed' = fed /\ Len(results') = Len(results)
      PROVE  WorkLeft' < WorkLeft
  <2>0. ASSUME NEW i \in Int, NEW x \in Int, NEW y \in Int, NEW j \in Int, NEW k \in Int,
               Count(worker', "idle") = Count(worker, "idle") + i,
               Count(worker', "work") = Count(worker, "work") + x,
               Count(worker', "send") = Count(worker, "send") + y,
               fed' = fed + j, Closing' = Closing + k, i + 4 * x + 3 * y + k - 4 * j < 0
        PROVE  WorkLeft' < WorkLeft
    <3>1. Left(fed + j, worker', Closing + k) < Left(fed, worker, Closing)
      BY <1>1, <1>3, <2>0, LeftFalls
    <3> QED
      BY <2>0, <3>1, WorkLeftIs
  <2>1. Count(worker', a) = Count(worker, a) - 1 /\ Count(worker', b) = Count(worker, b) + 1
        /\ \A c : c \notin {a, b} => Count(worker', c) = Count(worker, c)
    BY <1>4, GoesCounts
  <2>2. /\ Len(results') = Len(results) => Closing' = Closing + 0
        /\ Len(results') = Len(results) + 1 => Closing' = Closing + 1
        /\ fed' = fed => fed' = fed + 0
    BY <1>1, <1>3, <1>4 DEF Closing
  <2>3. CASE a = "idle" /\ b = "work" /\ fed' = fed + 1 /\ Len(results') = Len(results)
    <3>1. /\ Count(worker', "idle") = Count(worker, "idle") + (-1)
          /\ Count(worker', "work") = Count(worker, "work") + 1
          /\ Count(worker', "send") = Count(worker, "send") + 0
          /\ fed' = fed + 1 /\ Closing' = Closing + 0
      BY <1>2, <2>1, <2>2, <2>3
    <3>2. (-1) + 4 * 1 + 3 * 0 + 0 - 4 * 1 < 0 /\ {(-1), 1, 0, 1, 0} \subseteq Int
      OBVIOUS
    <3> QED
      BY <2>0, <3>1, <3>2
  <2>4. CASE a = "work" /\ b = "idle" /\ fed' = fed /\ Len(results') = Len(results)
    <3>1. /\ Count(worker', "idle") = Count(worker, "idle") + 1
          /\ Count(worker', "work") = Count(worker, "work") + (-1)
          /\ Count(worker', "send") = Count(worker, "send") + 0
          /\ fed' = fed + 0 /\ Closing' = Closing + 0
      BY <1>2, <2>1, <2>2, <2>4
    <3>2. 1 + 4 * (-1) + 3 * 0 + 0 - 4 * 0 < 0 /\ {1, (-1), 0, 0, 0} \subseteq Int
      OBVIOUS
    <3> QED
      BY <2>0, <3>1, <3>2
  <2>5. CASE a = "work" /\ b = "send" /\ fed' = fed /\ Len(results') = Len(results)
    <3>1. /\ Count(worker', "idle") = Count(worker, "idle") + 0
          /\ Count(worker', "work") = Count(worker, "work") + (-1)
          /\ Count(worker', "send") = Count(worker, "send") + 1
          /\ fed' = fed + 0 /\ Closing' = Closing + 0
      BY <1>2, <2>1, <2>2, <2>5
    <3>2. 0 + 4 * (-1) + 3 * 1 + 0 - 4 * 0 < 0 /\ {0, (-1), 1, 0, 0} \subseteq Int
      OBVIOUS
    <3> QED
      BY <2>0, <3>1, <3>2
  <2>6. CASE a = "send" /\ b = "idle" /\ fed' = fed /\ Len(results') = Len(results) + 1
    <3>1. /\ Count(worker', "idle") = Count(worker, "idle") + 1
          /\ Count(worker', "work") = Count(worker, "work") + 0
          /\ Count(worker', "send") = Count(worker, "send") + (-1)
          /\ fed' = fed + 0 /\ Closing' = Closing + 1
      BY <1>2, <2>1, <2>2, <2>6
    <3>2. 1 + 4 * 0 + 3 * (-1) + 1 - 4 * 0 < 0 /\ {1, 0, (-1), 0, 1} \subseteq Int
      OBVIOUS
    <3> QED
      BY <2>0, <3>1, <3>2
  <2>7. CASE a = "idle" /\ b = "gone" /\ fed' = fed /\ Len(results') = Len(results)
    <3>1. /\ Count(worker', "idle") = Count(worker, "idle") + (-1)
          /\ Count(worker', "work") = Count(worker, "work") + 0
          /\ Count(worker', "send") = Count(worker, "send") + 0
          /\ fed' = fed + 0 /\ Closing' = Closing + 0
      BY <1>2, <2>1, <2>2, <2>7
    <3>2. (-1) + 4 * 0 + 3 * 0 + 0 - 4 * 0 < 0 /\ {(-1), 0, 0, 0, 0} \subseteq Int
      OBVIOUS
    <3> QED
      BY <2>0, <3>1, <3>2
  <2> QED
    BY <1>4, <2>3, <2>4, <2>5, <2>6, <2>7
<1>5. ASSUME NEW w \in Workers, HandOver(w) PROVE WorkLeft' < WorkLeft
  <2>1. Working(Targets[fed + 1]).does = "work"
    BY DEF Working
  <2>3. /\ fed' = fed + 1 /\ UNCHANGED <<fedAll, results, resultsDone>>
        /\ worker[w].does = "idle"
        /\ worker' = [worker EXCEPT ![w] = Working(Targets[fed + 1])]
    BY <1>5 DEF HandOver, CanHandOver, Become, Does
  <2>4. Goes(worker, worker', w, "idle", "work")
    BY <1>1, <2>1, <2>3 DEF Goes
  <2> QED
    BY <1>4, <2>3, <2>4
<1>6. ASSUME NEW w \in Workers, NEW r, Work(w, r) PROVE WorkLeft' < WorkLeft
  <2> DEFINE s == IF r = NoResult THEN Idle ELSE Sending(r)
  <2>1. s.does \in {"idle", "send"}
    BY DEF Idle, Sending
  <2>2. /\ UNCHANGED <<fed, fedAll, results, resultsDone>> /\ worker[w].does = "work"
        /\ worker' = [worker EXCEPT ![w] = s]
    BY <1>6 DEF Work, Become, Does
  <2> HIDE DEF s
  <2>3. Goes(worker, worker', w, "work", "idle") \/ Goes(worker, worker', w, "work", "send")
    BY <1>1, <2>1, <2>2 DEF Goes
  <2> QED
    BY <1>4, <2>2, <2>3
<1>7. ASSUME NEW w \in Workers, Send(w) PROVE WorkLeft' < WorkLeft
  <2>1. /\ UNCHANGED <<fed, fedAll, resultsDone>> /\ worker[w].does = "send"
        /\ worker' = [worker EXCEPT ![w] = Idle]
        /\ results' = Append(results, worker[w].result)
    BY <1>7 DEF Send, CanSend, Become, Does
  <2>2. Len(results') = Len(results) + 1
    <3>1. PICK d \in Devices : worker[w] = Sending(d)
      BY <1>1, <2>1, StateFacts
    <3>2. worker[w].result \in Devices
      BY <3>1, StateFacts
    <3> QED
      BY <1>1, <2>1, <3>2, AppendFacts
  <2>3. Goes(worker, worker', w, "send", "idle")
    BY <1>1, <2>1, StateFacts DEF Goes
  <2> QED
    BY <1>4, <2>1, <2>2, <2>3
<1>8. ASSUME NEW w \in Workers, Leave(w) PROVE WorkLeft' < WorkLeft
  <2>1. /\ UNCHANGED <<fed, fedAll, results, resultsDone>> /\ worker[w].does = "idle"
        /\ worker' = [worker EXCEPT ![w] = Gone]
    BY <1>8 DEF Leave, CanLeave, Become, Does
  <2>2. Goes(worker, worker', w, "idle", "gone")
    BY <1>1, <2>1, StateFacts DEF Goes
  <2> QED
    BY <1>4, <2>1, <2>2
<1>9. CASE CloseTargets \/ CloseResults \/ Receive
  <2>1. UNCHANGED <<fed, worker>>
    BY <1>9 DEF CloseTargets, CloseResults, Receive
  <2>2. Closing' = Closing + (-1)
    <3>1. CASE CloseTargets
      BY <1>1, <1>3, <3>1 DEF CloseTargets, CanCloseTargets, Flag, Closing
    <3>2. CASE CloseResults
      BY <1>1, <1>3, <3>2 DEF CloseResults, CanCloseResults, Flag, Closing
    <3>3. CASE Receive
      <4>1. results # <<>> /\ results' = Tail(results) /\ UNCHANGED <<fedAll, resultsDone>>
        BY <3>3 DEF Receive, CanReceive
      <4>2. Len(results') = Len(results) - 1 /\ Len(results') \in Nat
        BY <1>1, <4>1, TailFacts
      <4> QED
        BY <1>1, <1>3, <4>1, <4>2 DEF Closing
    <3> QED
      BY <1>9, <3>1, <3>2, <3>3
  <2>3. /\ Count(worker', "idle") = Count(worker, "idle") + 0
        /\ Count(worker', "work") = Count(worker, "work") + 0
        /\ Count(worker', "send") = Count(worker, "send") + 0
    BY <1>2, <2>1
  <2>4. 0 + 4 * 0 + 3 * 0 + (-1) - 4 * 0 < 0
    OBVIOUS
  <2>5. fed' = fed + 0
    BY <1>1, <2>1
  <2>6. Left(fed + 0, worker', Closing + (-1)) < Left(fed, worker, Closing)
    BY <1>1, <1>3, <2>3, <2>4, LeftFalls
  <2> QED
    BY <2>2, <2>5, <2>6, WorkLeftIs
<1>10. ~EndCollect /\ ~EndCycle
  BY DEF EndCollect, CollectReturns, EndCycle, PoolInv, PoolTypes
<1> QED
  BY <1>5, <1>6, <1>7, <1>8, <1>9, <1>10 DEF Cycle, Pool, PoolStep, Poll, Skip

(* Each step of a collection brings its end nearer, so it has no more steps
   than it had work left when it began:
   icmp_collector.go:70-121, snmp_collector.go:99-173. *)
THEOREM EachStepOfACollectionCounts == Spec => EachStepCounts
<1>1. PoolInv /\ PoolInv' /\ [Next]_vars =>
        [collecting /\ collecting' => 0 <= WorkLeft' /\ WorkLeft' < WorkLeft]_vars
  <2> SUFFICES ASSUME PoolInv, PoolInv', [Next]_vars, vars' # vars, collecting, collecting'
               PROVE  0 <= WorkLeft' /\ WorkLeft' < WorkLeft
    OBVIOUS
  <2>1. WorkLeft' \in Nat
    BY WorkLeftType DEF PoolInv
  <2>2. Cycle
    BY DEF Next, BeginCycle, Reload, PoolInv, PoolTypes
  <2> QED
    BY <2>1, <2>2, WorkLeftFalls
<1> QED
  BY <1>1, PoolInvariant, PTL DEF Spec, EachStepCounts

(* When a collection begins it has four steps for each target, one for each
   worker and two more. *)
LEMMA WorkAtFirst ==
  BeginCycle => WorkLeft' = 4 * Len(Targets) + Cardinality(Workers) + 2
<1> SUFFICES ASSUME BeginCycle
             PROVE  WorkLeft' = 4 * Len(Targets) + Cardinality(Workers) + 2
  OBVIOUS
<1>1. /\ fed' = 0 /\ ~fedAll' /\ ~resultsDone' /\ results' = <<>>
      /\ worker' = [w \in Workers |-> Idle]
  BY DEF BeginCycle, Collect
<1> DEFINE doing(what) == {w \in Workers : worker'[w].does = what}
<1>2. doing("idle") = Workers /\ doing("work") = {} /\ doing("send") = {}
  BY <1>1, StateFacts
<1>3. /\ Count(worker', "idle") = Cardinality(Workers)
      /\ Count(worker', "work") = 0 /\ Count(worker', "send") = 0
  BY <1>2, FS_EmptySet DEF Count
<1>4. Cardinality(Workers) \in Nat
  BY PollAssumption, FS_CardinalityType
<1> QED
  BY <1>1, <1>3, <1>4, TargetFacts, WorkLeftIs, EmptyFacts DEF Left, Closing, Flag
-----------------------------------------------------------------------------
(* The processor *)

(* What is left when a counter wraps. *)
LEMMA Remainder ==
  ASSUME NEW q \in Nat, NEW c \in Nat
  PROVE  /\ q % WrapStd \in Nat /\ q % WrapStd <= q
         /\ (q + c) % WrapStd <= (q % WrapStd) + c
<1> DEFINE W == WrapStd
           i == q \div W
           r == q % W
           j == (q + c) \div W
           s == (q + c) % W
<1>1. W \in Nat \ {0}
  BY PollAssumption
<1>2. i \in Int /\ r \in 0 .. W - 1 /\ q = W * i + r
  BY <1>1
<1>3. j \in Int /\ s \in 0 .. W - 1 /\ q + c = W * j + s
  BY <1>1
<1> HIDE DEF W, i, r, j, s
<1>4. i >= 0
  <2> SUFFICES ASSUME i <= -1 PROVE FALSE
    BY <1>2
  <2>1. W * i <= -W
    BY <1>1, <1>2
  <2> QED
    BY <1>1, <1>2, <2>1
<1>5. W * i \in Nat /\ W * j \in Int
  BY <1>1, <1>2, <1>3, <1>4
<1>6. r <= q
  BY <1>1, <1>2, <1>5
<1>7. s <= r + c
  <2>1. CASE j >= i
    <3>1. W * j >= W * i
      BY <1>1, <1>2, <1>3, <2>1
    <3> QED
      BY <1>1, <1>2, <1>3, <1>5, <3>1
  <2>2. CASE j <= i - 1
    <3>1. W * j <= W * (i - 1) /\ W * (i - 1) = W * i - W
      BY <1>1, <1>2, <1>3, <2>2
    <3>2. q + c < q
      BY <1>1, <1>2, <1>3, <1>5, <3>1
    <3> QED
      BY <3>2
  <2> QED
    BY <1>2, <1>3, <2>1, <2>2
<1>8. r \in Nat
  BY <1>1, <1>2
<1> QED
  BY <1>6, <1>7, <1>8 DEF W, r, s

(* The last counter of device d, the traffic since, and the counter now. *)
CarriedSince(d, value) ==
  \/ source[d] = "hc" /\ octets[d] <= value + carried[d]
  \/ /\ source[d] = "std"
     /\ \/ octets[d] <= carried[d]
        \/ \E q \in Nat : octets[d] = q + carried[d] /\ q % WrapStd = value

DataTypes ==
  /\ began \in 0 .. MaxTime
  /\ reported \subseteq Devices
  /\ \A d \in Devices :
       /\ octets[d] \in 0 .. MaxOctets[d] /\ carried[d] \in 0 .. MaxOctets[d]
       /\ lastCounters[d] # Nothing =>
            lastCounters[d].value \in Nat /\ lastCounters[d].ts \in Nat
       /\ derived[d] # Nothing => derived[d].octets > 0 /\ derived[d].seconds > 0

RateInv ==
  /\ RateIsCarriedUnlessSwitched
  /\ \A d \in Devices :
       lastCounters[d] # Nothing => CarriedSince(d, lastCounters[d].value)

(* What has been seen of an interface is remembered. *)
InfoInv ==
  /\ \A d \in Devices :
       /\ "name" \in seen[d] => lastIfaceInfo[d].name = Interface[d].name
       /\ "connector" \in seen[d] => lastIfaceInfo[d].connector = Interface[d].connector
       /\ "type" \in seen[d] => lastIfaceInfo[d].type = Interface[d].type
  /\ phase = "wait" => \A d \in answered :
       d \in reported <=> isPhysicalInterface(lastIfaceInfo[d])

DataInv == DataTypes /\ RateInv /\ InfoInv

LEMMA AnswerFacts ==
  ASSUME NEW d, NEW c \in Nat, NEW failed
  PROVE  LET s == Answer(d, c, failed)
         IN  /\ Current(s) # Nothing => Current(s) \in Nat
             /\ Current(s) # Nothing /\ Source(s) = "hc" => Current(s) = c
             /\ Current(s) # Nothing /\ Source(s) = "std" => Current(s) = c % WrapStd
             /\ Source(s) \in {"hc", "std"}
             /\ s.name \in {Nothing, Interface[d].name}
             /\ s.connector \in {Nothing, Interface[d].connector}
             /\ s.type \in {Nothing, Interface[d].type}
<1>1. c % WrapStd \in Nat
  BY Remainder, PollAssumption
<1> QED
  BY <1>1 DEF Answer, Current, Source

LEMMA DataInit == Init => DataInv
<1> SUFFICES ASSUME Init PROVE DataInv
  OBVIOUS
<1>1. /\ began = 0 /\ phase = "wait" /\ reported = {} /\ answered = {}
      /\ \A d \in Devices : /\ octets[d] = 0 /\ carried[d] = 0 /\ seen[d] = {}
                            /\ lastCounters[d] = Nothing /\ derived[d] = Nothing
  BY DEF Init, InitProcessor, Zero
<1>2. 0 \in 0 .. MaxTime /\ \A d \in Devices : 0 \in 0 .. MaxOctets[d]
  BY PollAssumption
<1>3. DataTypes
  BY <1>1, <1>2 DEF DataTypes
<1>4. RateInv /\ InfoInv
  BY <1>1 DEF RateInv, RateIsCarriedUnlessSwitched, InfoInv
<1> QED
  BY <1>3, <1>4 DEF DataInv

(* Normalize on the answers of a cycle. *)
LEMMA EndCycleKeepsData ==
  ASSUME PoolInv, DataInv, EndCycle
  PROVE  DataInv'
<1>1. DataTypes /\ RateInv /\ InfoInv
  BY DEF DataInv
<1>2. phase = "normalize" /\ phase' = "wait" /\ began' = began /\ answered' = answered
  BY DEF EndCycle
<1>3. Collected = answered /\ answered \subseteq Devices
  BY <1>2, NothingLost DEF NoAnswerIsLost, PoolInv, PoolTypes
<1>4. PICK life \in [Devices -> UNION {Lives(d) : d \in Devices}],
           failed \in [Collected -> UNION {Failures[d] : d \in Devices}] :
        /\ \A d \in Devices : life[d] \in Lives(d)
        /\ NormalizeSamples([d \in Collected |-> Answer(d, life[d].octets, failed[d])], life)
  BY DEF EndCycle
<1> DEFINE samples == [d \in Collected |-> Answer(d, life[d].octets, failed[d])]
           info == [d \in Devices |->
                      IF d \in Collected THEN cacheIfaceInfo(lastIfaceInfo[d], samples[d])
                                         ELSE lastIfaceInfo[d]]
           shown == {d \in Collected : isPhysicalInterface(info[d])}
           counted == {d \in Collected : Current(samples[d]) # Nothing}
<1>5. /\ lastIfaceInfo' = info /\ reported' = shown
      /\ derived' = [d \in Devices |->
           IF d \in shown
             THEN Rate(lastCounters[d], Current(samples[d]), began, WrapStd)
             ELSE Nothing]
      /\ lastCounters' = [d \in Devices |->
           IF d \in Collected /\ Current(samples[d]) # Nothing
             THEN [value |-> Current(samples[d]), ts |-> began] ELSE lastCounters[d]]
  BY <1>4 DEF NormalizeSamples, Normalize
<1>6. /\ octets' = [d \in Devices |-> life[d].octets]
      /\ between' = [d \in Devices |-> IF d \in counted THEN life[d].carried ELSE 0]
      /\ carried' = [d \in Devices |-> IF d \in counted THEN 0 ELSE life[d].carried]
      /\ source' = [d \in Devices |->
           IF d \in counted THEN Source(samples[d]) ELSE source[d]]
      /\ switched' = {d \in counted : source[d] \notin {Nothing, Source(samples[d])}}
      /\ seen' = [d \in Devices |-> seen[d] \union
           IF d \in Collected THEN {walk \in Identity : samples[d][walk] # Nothing} ELSE {}]
  BY <1>4 DEF NormalizeSamples
<1>7. ASSUME NEW d \in Devices
      PROVE  /\ life[d].octets \in 0 .. MaxOctets[d]
             /\ life[d].carried \in carried[d] .. MaxOctets[d]
             /\ \/ life[d].octets = octets[d] + (life[d].carried - carried[d])
                \/ life[d].octets <= life[d].carried - carried[d]
             /\ octets[d] \in Nat /\ carried[d] \in Nat /\ MaxOctets[d] \in Nat
  <2>1. life[d] \in Lives(d)
    BY <1>4
  <2>2. octets[d] \in Nat /\ carried[d] \in Nat /\ MaxOctets[d] \in Nat
    BY <1>1, PollAssumption DEF DataTypes
  <2> QED
    BY <2>1, <2>2 DEF Lives
<1>8. \A d \in Devices : life[d].octets \in Nat /\ life[d].carried \in Nat
  BY <1>7
<1>9. ASSUME NEW d \in Collected
      PROVE  /\ Current(samples[d]) # Nothing => Current(samples[d]) \in Nat
             /\ Current(samples[d]) # Nothing /\ Source(samples[d]) = "hc" =>
                  Current(samples[d]) = life[d].octets
             /\ Current(samples[d]) # Nothing /\ Source(samples[d]) = "std" =>
                  Current(samples[d]) = life[d].octets % WrapStd
             /\ Source(samples[d]) \in {"hc", "std"}
             /\ samples[d].name \in {Nothing, Interface[d].name}
             /\ samples[d].connector \in {Nothing, Interface[d].connector}
             /\ samples[d].type \in {Nothing, Interface[d].type}
  <2>1. samples[d] = Answer(d, life[d].octets, failed[d])
    OBVIOUS
  <2>2. life[d].octets \in Nat
    BY <1>3, <1>8
  <2> HIDE DEF samples
  <2> DEFINE s == Answer(d, life[d].octets, failed[d])
  <2>3. /\ Current(s) # Nothing => Current(s) \in Nat
        /\ Current(s) # Nothing /\ Source(s) = "hc" => Current(s) = life[d].octets
        /\ Current(s) # Nothing /\ Source(s) = "std" => Current(s) = life[d].octets % WrapStd
        /\ Source(s) \in {"hc", "std"}
        /\ s.name \in {Nothing, Interface[d].name}
        /\ s.connector \in {Nothing, Interface[d].connector}
        /\ s.type \in {Nothing, Interface[d].type}
    BY <2>2, AnswerFacts
  <2> QED
    BY <2>1, <2>3
<1> HIDE DEF samples
<1>10. ASSUME NEW d \in Devices, derived'[d] # Nothing
       PROVE  /\ d \in Collected /\ Current(samples[d]) # Nothing
              /\ lastCounters[d] # Nothing
              /\ lastCounters[d].value \in Nat /\ lastCounters[d].ts \in Nat
              /\ Current(samples[d]) \in Nat
              /\ began > lastCounters[d].ts
              /\ Current(samples[d]) > lastCounters[d].value
              /\ derived'[d].octets = Current(samples[d]) - lastCounters[d].value
              /\ derived'[d].seconds = began - lastCounters[d].ts
  <2>1. d \in shown /\ derived'[d] = Rate(lastCounters[d], Current(samples[d]), began, WrapStd)
    BY <1>5, <1>10
  <2>2. d \in Collected
    BY <2>1
  <2>3. lastCounters[d] # Nothing /\ Current(samples[d]) # Nothing
    BY <1>10, <2>1 DEF Rate
  <2>4. lastCounters[d].value \in Nat /\ lastCounters[d].ts \in Nat
        /\ Current(samples[d]) \in Nat /\ began \in Nat
    BY <1>1, <1>9, <2>2, <2>3, PollAssumption DEF DataTypes
  <2>5. ~(began <= lastCounters[d].ts) /\ ~(Current(samples[d]) <= lastCounters[d].value)
        /\ derived'[d] = [octets |-> Current(samples[d]) - lastCounters[d].value,
                          seconds |-> began - lastCounters[d].ts]
    BY <1>10, <2>1, <2>3 DEF Rate
  <2> QED
    BY <2>2, <2>3, <2>4, <2>5, SMTT(30)
<1>11. DataTypes'
  <2>1. began' \in 0 .. MaxTime /\ reported' \subseteq Devices
    BY <1>1, <1>2, <1>3, <1>5 DEF DataTypes
  <2>2. ASSUME NEW d \in Devices
        PROVE  octets'[d] \in 0 .. MaxOctets[d] /\ carried'[d] \in 0 .. MaxOctets[d]
    BY <1>6, <1>7
  <2>3. ASSUME NEW d \in Devices, lastCounters'[d] # Nothing
        PROVE  lastCounters'[d].value \in Nat /\ lastCounters'[d].ts \in Nat
    <3>1. began \in Nat
      BY <1>1, PollAssumption DEF DataTypes
    <3>2. CASE d \in counted
      BY <1>5, <1>9, <3>1, <3>2
    <3>3. CASE d \notin counted
      BY <1>1, <1>5, <2>3, <3>3 DEF DataTypes
    <3> QED
      BY <3>2, <3>3
  <2>4. ASSUME NEW d \in Devices, derived'[d] # Nothing
        PROVE  derived'[d].octets > 0 /\ derived'[d].seconds > 0
    <3>1. began \in Nat
      BY <1>1, PollAssumption DEF DataTypes
    <3>2. /\ began > lastCounters[d].ts /\ lastCounters[d].ts \in Nat
          /\ Current(samples[d]) > lastCounters[d].value
          /\ Current(samples[d]) \in Nat /\ lastCounters[d].value \in Nat
          /\ derived'[d].octets = Current(samples[d]) - lastCounters[d].value
          /\ derived'[d].seconds = began - lastCounters[d].ts
      BY <1>10, <2>4
    <3> QED
      BY <3>1, <3>2
  <2> QED
    BY <2>1, <2>2, <2>3, <2>4 DEF DataTypes
<1>12. RateInv'
  <2>0. ASSUME NEW d \in Devices, derived'[d] # Nothing
        PROVE  derived'[d].octets <= octets'[d]
    <3> DEFINE p == lastCounters[d].value
               v == Current(samples[d])
               o == life[d].octets
    <3>1. /\ d \in Collected /\ v # Nothing /\ p \in Nat /\ v \in Nat
          /\ derived'[d].octets = v - p
      BY <1>10, <2>0
    <3>2. o \in Nat /\ octets'[d] = o
      BY <1>6, <1>8
    <3>3. v = o \/ v = o % WrapStd
      BY <1>9, <3>1
    <3> HIDE DEF p, v, o
    <3>4. v <= o
      <4>1. o % WrapStd <= o
        BY <3>2, Remainder
      <4> QED
        BY <3>2, <3>3, <4>1
    <3> QED
      BY <3>1, <3>2, <3>4
  <2>1. ASSUME NEW d \in Devices, derived'[d] # Nothing, d \notin switched'
        PROVE  derived'[d].octets <= between'[d]
    <3> DEFINE p == lastCounters[d].value
               v == Current(samples[d])
               o == life[d].octets
               c == life[d].carried
    <3>1. /\ d \in counted /\ d \in Collected /\ lastCounters[d] # Nothing
          /\ p \in Nat /\ v \in Nat /\ v > p /\ derived'[d].octets = v - p
      <4>1. /\ d \in Collected /\ Current(samples[d]) # Nothing /\ lastCounters[d] # Nothing
            /\ p \in Nat /\ v \in Nat /\ v > p /\ derived'[d].octets = v - p
        BY <1>10, <2>1
      <4> QED
        BY <4>1
    <3>2. between'[d] = c
      BY <1>6, <3>1
    <3>3. CarriedSince(d, p)
      BY <1>1, <3>1 DEF RateInv
    <3>4. source[d] \in {"hc", "std"}
      BY <3>3 DEF CarriedSince
    <3>5. Source(samples[d]) = source[d]
      BY <1>6, <2>1, <3>1, <3>4, PollAssumption
    <3>6. /\ o \in Nat /\ c \in Nat /\ c >= carried[d]
          /\ octets[d] \in Nat /\ carried[d] \in Nat
          /\ o = octets[d] + (c - carried[d]) \/ o <= c - carried[d]
      BY <1>7, <1>8
    <3> HIDE DEF p, v, o, c
    <3>7. CASE source[d] = "hc"
      <4>1. v = o
        BY <1>9, <3>1, <3>5, <3>7 DEF v, o
      <4>2. octets[d] <= p + carried[d]
        BY <3>3, <3>7 DEF CarriedSince
      <4> QED
        BY <3>1, <3>2, <3>6, <4>1, <4>2
    <3>8. CASE source[d] = "std"
      <4>1. v = o % WrapStd
        BY <1>9, <3>1, <3>5, <3>8 DEF v, o
      <4>2. CASE o <= c
        <5>1. v <= o
          BY <3>6, <4>1, Remainder
        <5> QED
          BY <3>1, <3>2, <3>6, <4>2, <5>1
      <4>3. CASE ~(o <= c)
        <5>1. o = octets[d] + (c - carried[d]) /\ ~(octets[d] <= carried[d])
          BY <3>6, <4>3
        <5>2. PICK q \in Nat : octets[d] = q + carried[d] /\ q % WrapStd = p
          BY <3>3, <3>8, <5>1 DEF CarriedSince
        <5>3. o = q + c
          BY <3>6, <5>1, <5>2
        <5>4. v <= p + c
          BY <3>6, <4>1, <5>2, <5>3, Remainder
        <5> QED
          BY <3>1, <3>2, <3>6, <5>4
      <4> QED
        BY <4>2, <4>3
    <3> QED
      BY <3>4, <3>7, <3>8
  <2>2. ASSUME NEW d \in Devices, lastCounters'[d] # Nothing
        PROVE  CarriedSince(d, lastCounters[d].value)'
    <3>1. CASE d \in counted
      <4>1. /\ lastCounters'[d].value = Current(samples[d]) /\ octets'[d] = life[d].octets
            /\ carried'[d] = 0 /\ source'[d] = Source(samples[d]) /\ life[d].octets \in Nat
        BY <1>5, <1>6, <1>8, <3>1
      <4>2. CASE Source(samples[d]) = "hc"
        <5>1. lastCounters'[d].value = life[d].octets
          BY <1>9, <3>1, <4>1, <4>2
        <5> QED
          BY <4>1, <4>2, <5>1 DEF CarriedSince
      <4>3. CASE Source(samples[d]) = "std"
        <5>1. lastCounters'[d].value = life[d].octets % WrapStd
          BY <1>9, <3>1, <4>1, <4>3
        <5>2. octets'[d] = life[d].octets + carried'[d]
          BY <4>1
        <5> QED
          BY <4>1, <4>3, <5>1, <5>2 DEF CarriedSince
      <4> QED
        BY <1>9, <3>1, <4>2, <4>3
    <3>2. CASE d \notin counted
      <4> DEFINE p == lastCounters[d].value
                 o == life[d].octets
                 c == life[d].carried
      <4>1. /\ lastCounters'[d] = lastCounters[d] /\ octets'[d] = o
            /\ carried'[d] = c /\ source'[d] = source[d]
        BY <1>5, <1>6, <3>2
      <4>2. CarriedSince(d, p) /\ p \in Nat
        BY <1>1, <2>2, <4>1 DEF RateInv, DataTypes
      <4>3. /\ o \in Nat /\ c \in Nat /\ c >= carried[d]
            /\ octets[d] \in Nat /\ carried[d] \in Nat
            /\ o = octets[d] + (c - carried[d]) \/ o <= c - carried[d]
        BY <1>7, <1>8
      <4> HIDE DEF p, o, c
      <4>4. CASE source[d] = "hc"
        <5>1. octets[d] <= p + carried[d]
          BY <4>2, <4>4 DEF CarriedSince
        <5>2. o <= p + c
          BY <4>2, <4>3, <5>1
        <5> QED
          BY <4>1, <4>4, <5>2 DEF CarriedSince, p
      <4>5. CASE source[d] = "std"
        <5>1. CASE o <= c
          BY <4>1, <4>5, <5>1 DEF CarriedSince
        <5>2. CASE ~(o <= c)
          <6>1. o = octets[d] + (c - carried[d]) /\ ~(octets[d] <= carried[d])
            BY <4>3, <5>2
          <6>2. PICK q \in Nat : octets[d] = q + carried[d] /\ q % WrapStd = p
            BY <4>2, <4>5, <6>1 DEF CarriedSince
          <6>3. o = q + c
            BY <4>3, <6>1, <6>2
          <6> QED
            BY <4>1, <4>5, <6>2, <6>3 DEF CarriedSince, p
        <5> QED
          BY <5>1, <5>2
      <4> QED
        BY <4>2, <4>4, <4>5 DEF CarriedSince
    <3> QED
      BY <3>1, <3>2
  <2> QED
    BY <2>0, <2>1, <2>2 DEF RateInv, RateIsCarriedUnlessSwitched
<1>13. InfoInv'
  <2>1. ASSUME NEW d \in Devices
        PROVE  /\ "name" \in seen'[d] => lastIfaceInfo'[d].name = Interface[d].name
               /\ "connector" \in seen'[d] =>
                    lastIfaceInfo'[d].connector = Interface[d].connector
               /\ "type" \in seen'[d] => lastIfaceInfo'[d].type = Interface[d].type
    <3>1. CASE d \notin Collected
      <4>1. seen'[d] = seen[d] /\ lastIfaceInfo'[d] = lastIfaceInfo[d]
        BY <1>5, <1>6, <3>1
      <4> QED
        BY <1>1, <4>1 DEF InfoInv
    <3>2. CASE d \in Collected
      <4>1. seen'[d] = seen[d] \union {walk \in Identity : samples[d][walk] # Nothing}
        BY <1>6, <3>2
      <4>2. /\ "name" \in seen'[d] => "name" \in seen[d] \/ samples[d].name # Nothing
            /\ "connector" \in seen'[d] =>
                 "connector" \in seen[d] \/ samples[d].connector # Nothing
            /\ "type" \in seen'[d] => "type" \in seen[d] \/ samples[d].type # Nothing
        BY <4>1
      <4>3. lastIfaceInfo'[d] = cacheIfaceInfo(lastIfaceInfo[d], samples[d])
        BY <1>5, <3>2
      <4> QED
        BY <1>1, <1>9, <3>2, <4>2, <4>3 DEF InfoInv, cacheIfaceInfo
    <3> QED
      BY <3>1, <3>2
  <2>2. \A d \in answered' : d \in reported' <=> isPhysicalInterface(lastIfaceInfo'[d])
    BY <1>2, <1>3, <1>5
  <2> QED
    BY <2>1, <2>2 DEF InfoInv, isPhysicalInterface, isVirtualIfaceName
<1> QED
  BY <1>11, <1>12, <1>13 DEF DataInv

LEMMA DataStep == PoolInv /\ DataInv /\ [Next]_vars => DataInv'
<1> SUFFICES ASSUME PoolInv, DataInv, [Next]_vars PROVE DataInv'
  OBVIOUS
<1>1. DataTypes /\ RateInv /\ InfoInv
  BY DEF DataInv
<1>2. CASE BeginCycle
  <2>1. /\ phase' = "collect" /\ reported' = {} /\ began' \in began .. MaxTime
        /\ \A d \in Devices : derived'[d] = Nothing
        /\ UNCHANGED <<lastCounters, lastIfaceInfo, octets, carried, source, seen>>
    BY <1>2 DEF BeginCycle, Discard
  <2>2. DataTypes'
    BY <1>1, <2>1, PollAssumption DEF DataTypes
  <2>3. RateInv' /\ InfoInv'
    BY <1>1, <2>1 DEF RateInv, RateIsCarriedUnlessSwitched, CarriedSince, InfoInv
  <2> QED
    BY <2>2, <2>3 DEF DataInv
<1>3. CASE EndCycle
  BY <1>3, EndCycleKeepsData
<1>4. CASE Reload
  <2>1. /\ reported' = {} /\ answered' = {}
        /\ \A d \in Devices : /\ derived'[d] = Nothing /\ lastCounters'[d] = Nothing
                              /\ seen'[d] = {}
        /\ UNCHANGED <<began, octets, carried>>
    BY <1>4 DEF Reload, NewProcessor
  <2>2. DataTypes'
    BY <1>1, <2>1 DEF DataTypes
  <2>3. RateInv' /\ InfoInv'
    BY <2>1 DEF RateInv, RateIsCarriedUnlessSwitched, InfoInv
  <2> QED
    BY <2>2, <2>3 DEF DataInv
<1>5. CASE Pool \/ EndCollect \/ UNCHANGED vars \/ \E w \in Workers : Poll(w) \/ Skip(w)
  <2>1. UNCHANGED <<processor, began, octets, carried, history>>
    BY <1>5 DEF Pool, EndCollect, Poll, Skip, vars
  <2>2. phase' = "wait" => phase = "wait" /\ answered' = answered
    <3>1. CASE EndCollect
      BY <3>1 DEF EndCollect
    <3>2. CASE Pool \/ UNCHANGED vars
      BY <3>2 DEF Pool, vars
    <3>3. ASSUME NEW w \in Workers, Poll(w) \/ Skip(w) PROVE phase' = phase /\ phase # "wait"
      <4>1. worker[w].does = "work" /\ phase' = phase
        BY <3>3 DEF Poll, Skip, Work, Does
      <4> QED
        BY <4>1, Busy, StateFacts
    <3> QED
      BY <1>5, <3>1, <3>2, <3>3
  <2>3. DataTypes' /\ RateInv'
    BY <1>1, <2>1 DEF DataTypes, RateInv, RateIsCarriedUnlessSwitched, CarriedSince, processor, history
  <2>4. InfoInv'
    BY <1>1, <2>1, <2>2 DEF InfoInv, processor, history
  <2> QED
    BY <2>3, <2>4 DEF DataInv
<1> QED
  BY <1>2, <1>3, <1>4, <1>5 DEF Next, Cycle

(* In every reachable state the counters and the interfaces are as the devices
   had them. *)
THEOREM DataInvariant == Spec => []DataInv
<1>1. Spec => []PoolInv
  BY PoolInvariant
<1> QED
  BY <1>1, DataInit, DataStep, PTL DEF Spec

(* Pool, clock, counters and rates stay in their domains. *)
THEOREM PollTypeCorrect == Spec => []TypeOK
<1>1. PoolInv /\ DataInv => TypeOK
  <2> SUFFICES ASSUME PoolInv, DataInv PROVE TypeOK
    OBVIOUS
  <2>1. PoolTypes /\ Counted /\ DataTypes
    BY DEF PoolInv, DataInv
  <2>2. Range(results) \union Range(out) \subseteq Devices
    BY <2>1 DEF PoolTypes, Range
  <2> QED
    BY <2>1, <2>2 DEF PoolTypes, States, Counted, DataTypes, TypeOK
<1> QED
  BY <1>1, PoolInvariant, DataInvariant, PTL

(* A rate is never above the traffic between the two reads, through wraps,
   reboots and failing walks, if both were reads of the same counter, and never
   above what the device counts if they were not:
   preprocess_threshold_processor.go:107-159. *)
THEOREM RatesAreCarried == Spec => []RateIsCarriedUnlessSwitched
<1>1. DataInv => RateIsCarriedUnlessSwitched
  BY DEF DataInv, RateInv
<1> QED
  BY <1>1, DataInvariant, PTL

(* Once each identity walk has succeeded, an interface is reported if and only
   if it is physical: preprocess_threshold_processor.go:160-232. *)
THEOREM InterfacesAreClassified == Spec => []ClassifiedByAllSignals
<1>1. PoolInv /\ DataInv => ClassifiedByAllSignals
  <2> SUFFICES ASSUME PoolInv, DataInv, phase = "wait",
                      NEW d \in Devices, d \in answered, seen[d] = Identity
               PROVE  d \in reported <=> isPhysicalInterface(Interface[d])
    BY DEF ClassifiedByAllSignals
  <2>1. /\ lastIfaceInfo[d].name = Interface[d].name
        /\ lastIfaceInfo[d].connector = Interface[d].connector
        /\ lastIfaceInfo[d].type = Interface[d].type
        /\ d \in reported <=> isPhysicalInterface(lastIfaceInfo[d])
    BY DEF DataInv, InfoInv, Identity
  <2> QED
    BY <2>1 DEF isPhysicalInterface
<1> QED
  BY <1>1, PoolInvariant, DataInvariant, PTL
=============================================================================
